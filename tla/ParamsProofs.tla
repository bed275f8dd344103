---- MODULE ParamsProofs ----
(***************************************************************************)
(* For any parameter arrays, packet size, pieces of the streams and        *)
(* answers, through failures, cancellation and executions that follow one  *)
(* another: while the driver may still read or write what is bound, the    *)
(* statement holds it, so that the driver never names a stream that the    *)
(* statement has released; and the driver gets every stream whole.         *)
(***************************************************************************)
EXTENDS Params, SequenceTheorems, WellFoundedInduction, TLAPS

Phases == {"idle", "flush", "free", "bind", "run", "send", "packet", "dead"}
States == {"idle", "need", "put", "results", "end"}

(* The driver waits for data, or has results: what is bound is in use. *)
Busy == driver.state \in {"need", "put", "results"}

Shape ==
  /\ DOMAIN driver = {"bound", "ind", "state", "left", "at", "got", "from", "told"}
  /\ DOMAIN held = {"strings", "streams", "dates", "outputs"}
  /\ DOMAIN stmt = {"executed", "pastEnd", "atExec", "current", "read"}
  /\ DOMAIN call = {"phase", "next", "ret", "runs", "cause"}
  /\ driver.state \in States /\ call.phase \in Phases

(* The driver's parameters are the script's, and none once the array is     *)
(* gone: the next execution then binds nothing again.                       *)
Arrays ==
  /\ DOMAIN driver.bound \subseteq P
  /\ given = <<>> => DOMAIN driver.bound = {}
  /\ given # <<>> => Len(given) \in Nat \ {0} /\ P = 1 .. Len(given)

(* Results are left, or data is wanted, only between an execution and the   *)
(* end of its results: hdb_execute gets to free_param_data after it.        *)
Waiting ==
  /\ driver.state # "results" => driver.left = 0
  /\ call.phase = "send" => driver.state \in {"need", "put"}
  /\ Busy =>
       \/ call.phase \in {"send", "dead"}
       \/ call.phase \in {"idle", "flush", "packet"} /\ stmt.executed /\ ~stmt.pastEnd

Covered(p) ==
  LET b == driver.bound[p] IN
  /\ b.dir = "in" /\ b.t = "string" /\ b.enc = "UTF8" => p \in held.strings
  /\ b.t = "stream" => p \in held.streams
  /\ b.t = "datetime" => p \in held.dates
  /\ b.dir # "in" => p \in DOMAIN held.outputs

(* What an execution has bound so far it holds; older bindings, which are   *)
(* still there until they are replaced, it does not.                        *)
Binding ==
  /\ call.phase = "bind" =>
       /\ given # <<>> /\ call.next \in 1 .. Len(given)
       /\ \A p \in DOMAIN driver.bound : p < call.next => Covered(p)
  /\ call.phase = "run" => \A p \in DOMAIN driver.bound : Covered(p)

NoStreamLost == call.cause # "lost stream"

HeldInv == Shape /\ Arrays /\ Waiting /\ Binding /\ BuffersHeld /\ NoStreamLost

----
(* A driver with nothing left to do and no parameter more than before needs *)
(* nothing held.                                                            *)
LEMMA QuietInv ==
  ASSUME Shape', Arrays', driver'.state \in {"idle", "end"}, driver'.left = 0,
         call'.phase \notin {"bind", "run", "send"}, NoStreamLost'
  PROVE  HeldInv'
BY DEF HeldInv, Waiting, Busy, Binding, BuffersHeld

LEMMA InitInv == Init => HeldInv
<1> SUFFICES ASSUME Init PROVE HeldInv
  OBVIOUS
<1>1. Shape
  BY DEF Init, Shape, NoHeld, States, Phases
<1>2. Arrays
  <2>1. PICK s \in Scripts : given = [p \in DOMAIN s |-> s[p].u] /\ var = [p \in DOMAIN s |-> s[p].v]
    BY DEF Init
  <2>2. Len(s) \in Nat /\ DOMAIN s = 1 .. Len(s)
    BY ParamsAssumption
  <2>3. given \in Seq({s[p].u : p \in 1 .. Len(s)})
    BY <2>1, <2>2
  <2>4. Len(given) = Len(s) /\ P = 1 .. Len(s)
    BY <2>1, <2>2, <2>3, LenProperties DEF P
  <2>5. DOMAIN driver.bound = {}
    BY DEF Init
  <2> QED
    BY <2>2, <2>4, <2>5 DEF Arrays
<1> QED
  BY <1>1, <1>2 DEF Init, HeldInv, Waiting, Busy, Binding, BuffersHeld, NoStreamLost, None

LEMMA ExecuteInv == ASSUME HeldInv, Execute PROVE HeldInv'
<1>1. UNCHANGED <<given, var, held, stmt, source, driver>> /\ call.phase = "idle"
  BY DEF Execute
<1>2. /\ DOMAIN call' = DOMAIN call /\ call'.cause = call.cause
      /\ call'.phase = IF stmt.executed /\ ~stmt.pastEnd THEN "flush" ELSE "free"
  BY DEF Execute, HeldInv, Shape
<1>3. Shape'
  BY <1>1, <1>2 DEF HeldInv, Shape, Phases
<1>4. Arrays' /\ BuffersHeld' /\ NoStreamLost' /\ Binding'
  BY <1>1, <1>2 DEF HeldInv, Arrays, BuffersHeld, NoStreamLost, Binding, P
<1>5. Waiting'
  BY <1>1, <1>2 DEF HeldInv, Waiting, Busy
<1> QED
  BY <1>3, <1>4, <1>5 DEF HeldInv

LEMMA FlushInv == ASSUME HeldInv, Flush PROVE HeldInv'
<1> USE DEF HeldInv
<1>1. call.phase = "flush" /\ UNCHANGED <<given, held, source>>
  BY DEF Flush
<1>2. CASE UNCHANGED <<var, stmt, driver, call>>
  BY <1>1, <1>2 DEF Shape, Arrays, Waiting, Busy, Binding, Covered, BuffersHeld, NoStreamLost, P
<1>3. CASE /\ driver.state = "results" /\ driver.left > 1
           /\ driver' = [driver EXCEPT !.left = @ - 1] /\ UNCHANGED <<var, stmt, call>>
  <2>1. driver'.state = "results" /\ driver'.bound = driver.bound /\ DOMAIN driver' = DOMAIN driver
    BY <1>3 DEF Shape
  <2>2. Shape' /\ Arrays'
    BY <1>1, <1>3, <2>1 DEF Shape, Arrays, P
  <2>3. Waiting' /\ Binding' /\ BuffersHeld' /\ NoStreamLost'
    BY <1>1, <1>3, <2>1 DEF Waiting, Busy, Binding, BuffersHeld, NoStreamLost
  <2> QED
    BY <2>2, <2>3
<1>4. CASE /\ driver.state \in {"end", "idle"} \/ driver.left = 1
           /\ stmt' = [stmt EXCEPT !.pastEnd = TRUE] /\ call' = [call EXCEPT !.phase = "free"]
           /\ IF driver.state = "results"
              THEN /\ driver' = [driver EXCEPT !.state = "end", !.left = 0]
                   /\ \E a \in AllAnswers : var' = Filled(a)
              ELSE UNCHANGED <<var, driver>>
  <2>1. DOMAIN var' = DOMAIN var
    <3>1. \A a : DOMAIN Filled(a) = DOMAIN var
      BY DEF Filled, P
    <3> QED
      BY <1>4, <3>1
  <2>2. /\ DOMAIN driver' = DOMAIN driver /\ driver'.bound = driver.bound
        /\ driver'.state \in {"idle", "end"} /\ driver'.left = 0
    <3>1. CASE driver.state = "results"
      BY <1>4, <3>1 DEF Shape
    <3>2. CASE driver.state # "results"
      BY <1>4, <3>2 DEF Shape, Waiting
    <3> QED
      BY <3>1, <3>2
  <2>3. /\ DOMAIN stmt' = DOMAIN stmt /\ DOMAIN call' = DOMAIN call /\ call'.phase = "free"
        /\ call'.cause = call.cause
    BY <1>4 DEF Shape
  <2>4. Shape' /\ Arrays' /\ NoStreamLost'
    BY <1>1, <2>1, <2>2, <2>3 DEF Shape, States, Phases, Arrays, NoStreamLost, P
  <2> QED
    BY <2>2, <2>3, <2>4, QuietInv
<1> QED
  BY <1>2, <1>3, <1>4 DEF Flush

(* free_param_data runs only when the driver needs nothing. *)
LEMMA FreeInv == ASSUME HeldInv, Free PROVE HeldInv'
<1> USE DEF HeldInv
<1>1. call.phase = "free" /\ UNCHANGED <<given, var, source, driver>> /\ ~Busy
  BY DEF Free, Waiting
<1>2. CASE given = <<>>
  <2>1. /\ UNCHANGED <<held, stmt>> /\ DOMAIN call' = DOMAIN call /\ call'.phase = "run"
        /\ call'.cause = call.cause
    BY <1>2 DEF Free, Shape
  <2>2. Shape' /\ Arrays'
    BY <1>1, <2>1 DEF Shape, Phases, Arrays, P
  <2>3. Waiting' /\ Binding' /\ BuffersHeld' /\ NoStreamLost'
    BY <1>1, <1>2, <2>1 DEF Waiting, Busy, Binding, Arrays, BuffersHeld, NoStreamLost
  <2> QED
    BY <2>2, <2>3
<1>3. CASE given # <<>>
  <2>1. /\ held' = NoHeld /\ DOMAIN stmt' = DOMAIN stmt /\ DOMAIN call' = DOMAIN call
        /\ call'.phase = "bind" /\ call'.next = 1 /\ call'.cause = call.cause
    BY <1>3 DEF Free, Shape
  <2>2. Shape' /\ Arrays'
    BY <1>1, <2>1 DEF Shape, Phases, Arrays, NoHeld, P
  <2>3. Len(given) \in Nat /\ Len(given) >= 1 /\ DOMAIN driver.bound \subseteq 1 .. Len(given)
    BY <1>3 DEF Arrays
  <2>4. Binding'
    BY <1>1, <1>3, <2>1, <2>3 DEF Binding
  <2>5. Waiting' /\ BuffersHeld' /\ NoStreamLost'
    BY <1>1, <2>1 DEF Waiting, Busy, BuffersHeld, NoStreamLost
  <2> QED
    BY <2>2, <2>4, <2>5
<1> QED
  BY <1>2, <1>3

(* Binding a parameter holds what it binds of it, and lets go of nothing.   *)
LEMMA KeptCovers ==
  ASSUME HeldInv, NEW p, NEW q, NEW v, NEW w, NEW b,
         b.dir = q.dir, b.enc = q.enc, b.t = w.t
  PROVE  LET h == Kept(held, p, q, v, w) IN
         /\ b.dir = "in" /\ b.t = "string" /\ b.enc = "UTF8" => p \in h.strings
         /\ b.t = "stream" => p \in h.streams
         /\ b.t = "datetime" => p \in h.dates
         /\ b.dir # "in" => p \in DOMAIN h.outputs
         /\ held.strings \subseteq h.strings /\ held.streams \subseteq h.streams
         /\ held.dates \subseteq h.dates /\ DOMAIN held.outputs \subseteq DOMAIN h.outputs
         /\ DOMAIN h = {"strings", "streams", "dates", "outputs"}
BY DEF Kept, With

LEMMA BindInv == ASSUME HeldInv, Bind PROVE HeldInv'
<1> USE DEF HeldInv
<1> DEFINE Outcome(p, q, w) ==
             IF q.error # None THEN BindFails(FALSE) /\ UNCHANGED var
             ELSE IF BindDies(q, w) # None
             THEN call' = Dies(BindDies(q, w)) /\ UNCHANGED <<given, var, held, driver>>
             ELSE IF BindError(q, w) # None
             THEN BindFails(TRUE) /\ var' = [var EXCEPT ![p] = w]
             ELSE /\ var' = [var EXCEPT ![p] = IF w.t = "bool" THEN Long(w) ELSE Buffer(q, w)]
                  /\ held' = Kept(held, p, q, var[p], w)
                  /\ driver' = [driver EXCEPT
                       !.bound = With(@, p, [dir |-> q.dir, enc |-> q.enc, t |-> w.t, bool |-> var[p].t = "bool",
                                             sent |-> Sent(q, w)]),
                       !.ind = With(@, p, Length(q, var[p], w))]
                  /\ call' = IF p = Len(given) THEN [call EXCEPT !.phase = "run"] ELSE [call EXCEPT !.next = p + 1]
                  /\ UNCHANGED given
<1>0. \E p \in {call.next} : \E q \in {Parse(p)} : \E w \in {Coerced(q, var[p])} : Outcome(p, q, w)
  BY Zenon DEF Bind
<1> HIDE DEF Outcome
<1>1. PICK p, q, w : p = call.next /\ Outcome(p, q, w)
  BY <1>0
<1>2. /\ call.phase = "bind" /\ UNCHANGED <<stmt, source>> /\ ~Busy /\ driver.left = 0
      /\ p = call.next /\ given # <<>> /\ p \in 1 .. Len(given) /\ Len(given) \in Nat \ {0} /\ P = 1 .. Len(given)
      /\ driver.state \in {"idle", "end"}
  <2>1. call.phase = "bind" /\ UNCHANGED <<stmt, source>> /\ p = call.next
    BY <1>1 DEF Bind
  <2>2. ~Busy /\ given # <<>> /\ p \in 1 .. Len(given) /\ Len(given) \in Nat \ {0} /\ P = 1 .. Len(given)
    BY <2>1 DEF Waiting, Binding, Arrays
  <2> QED
    BY <2>1, <2>2 DEF Waiting, Busy, Shape, States
<1>3. ASSUME NEW freed \in BOOLEAN, BindFails(freed), DOMAIN var' = DOMAIN var
      PROVE  HeldInv'
  <2>1. /\ given' = <<>> /\ held' \in {held, NoHeld} /\ DOMAIN call' = DOMAIN call /\ call'.phase = "idle"
        /\ call'.cause = call.cause
    BY <1>3 DEF BindFails, Returns, Shape
  <2>2. /\ DOMAIN driver' = DOMAIN driver /\ driver'.bound = <<>>
        /\ driver'.state = driver.state /\ driver'.left = driver.left
    BY <1>3 DEF BindFails, Reset, Shape
  <2>3. Shape'
    BY <1>2, <2>1, <2>2 DEF Shape, Phases, NoHeld
  <2>4. Arrays'
    BY <2>1, <2>2 DEF Arrays
  <2>5. NoStreamLost'
    BY <2>1 DEF NoStreamLost
  <2> QED
    BY <1>2, <2>1, <2>2, <2>3, <2>4, <2>5, QuietInv
<1>4. CASE q.error # None
  BY <1>1, <1>3, <1>4 DEF Outcome
<1>5. CASE q.error = None /\ BindDies(q, w) # None
  <2>1. call' = Dies(BindDies(q, w)) /\ UNCHANGED <<given, var, held, driver>>
    BY <1>1, <1>5 DEF Outcome
  <2>2. BindDies(q, w) \in {"output type", "encoding", "none"}
    BY DEF BindDies, None
  <2>3. DOMAIN call' = DOMAIN call /\ call'.phase = "dead" /\ call'.cause # "lost stream"
    BY <2>1, <2>2 DEF Dies, Shape
  <2>4. Shape' /\ Arrays' /\ NoStreamLost'
    BY <1>2, <2>1, <2>3 DEF Shape, Phases, Arrays, NoStreamLost, P
  <2> QED
    BY <1>2, <2>1, <2>3, <2>4, QuietInv
<1>6. CASE q.error = None /\ BindDies(q, w) = None /\ BindError(q, w) # None
  <2>1. BindFails(TRUE) /\ DOMAIN var' = DOMAIN var
    BY <1>1, <1>6 DEF Outcome
  <2> QED
    BY <1>3, <2>1
<1>7. CASE q.error = None /\ BindDies(q, w) = None /\ BindError(q, w) = None
  <2> DEFINE b == [dir |-> q.dir, enc |-> q.enc, t |-> w.t, bool |-> var[p].t = "bool", sent |-> Sent(q, w)]
             bound == With(driver.bound, p, b)
             h == Kept(held, p, q, var[p], w)
  <2>1. /\ DOMAIN var' = DOMAIN var /\ held' = h
        /\ driver' = [driver EXCEPT !.bound = bound, !.ind = With(driver.ind, p, Length(q, var[p], w))]
        /\ call' = IF p = Len(given) THEN [call EXCEPT !.phase = "run"] ELSE [call EXCEPT !.next = p + 1]
        /\ UNCHANGED given
    BY <1>1, <1>7 DEF Outcome, Shape
  <2>2. /\ b.dir = q.dir /\ b.enc = q.enc /\ b.t = w.t
        /\ DOMAIN bound = DOMAIN driver.bound \cup {p}
        /\ \A x \in DOMAIN bound : bound[x] = IF x = p THEN b ELSE driver.bound[x]
    BY DEF With
  <2> HIDE DEF b, bound
  <2>3. /\ b.dir = "in" /\ b.t = "string" /\ b.enc = "UTF8" => p \in h.strings
        /\ b.t = "stream" => p \in h.streams
        /\ b.t = "datetime" => p \in h.dates
        /\ b.dir # "in" => p \in DOMAIN h.outputs
        /\ held.strings \subseteq h.strings /\ held.streams \subseteq h.streams
        /\ held.dates \subseteq h.dates /\ DOMAIN held.outputs \subseteq DOMAIN h.outputs
        /\ DOMAIN h = {"strings", "streams", "dates", "outputs"}
    BY <2>2, KeptCovers
  <2> HIDE DEF h
  <2>4. /\ DOMAIN driver' = DOMAIN driver /\ driver'.bound = bound /\ driver'.state = driver.state
        /\ driver'.left = driver.left
    BY <2>1 DEF Shape
  <2>5. /\ DOMAIN call' = DOMAIN call /\ call'.cause = call.cause
        /\ call'.phase = IF p = Len(given) THEN "run" ELSE "bind"
        /\ p # Len(given) => call'.next = p + 1
    BY <1>2, <2>1 DEF Shape
  <2>6. Shape'
    BY <1>2, <2>1, <2>3, <2>4, <2>5 DEF Shape, Phases
  <2>7. Arrays'
    BY <1>2, <2>1, <2>2, <2>4 DEF Arrays, P
  <2>8. \A x \in DOMAIN bound : x <= p => Covered(x)'
    <3> SUFFICES ASSUME NEW x \in DOMAIN bound, x <= p PROVE Covered(x)'
      OBVIOUS
    <3>1. CASE x = p
      BY <2>1, <2>2, <2>3, <2>4, <3>1 DEF Covered
    <3>2. CASE x # p
      <4>1. x \in DOMAIN driver.bound /\ x < p /\ bound[x] = driver.bound[x]
        BY <1>2, <2>2, <3>2 DEF Arrays
      <4>2. Covered(x)
        BY <1>2, <4>1 DEF Binding
      <4> QED
        BY <2>1, <2>3, <2>4, <4>1, <4>2 DEF Covered
    <3> QED
      BY <3>1, <3>2
  <2>9. Binding'
    <3>1. DOMAIN bound \subseteq 1 .. Len(given)
      BY <1>2, <2>2 DEF Arrays
    <3>2. CASE p = Len(given)
      BY <1>2, <2>4, <2>5, <2>8, <3>1, <3>2 DEF Binding
    <3>3. CASE p # Len(given)
      BY <1>2, <2>1, <2>4, <2>5, <2>8, <3>1, <3>3 DEF Binding
    <3> QED
      BY <3>2, <3>3
  <2>10. Waiting' /\ BuffersHeld' /\ NoStreamLost'
    BY <1>2, <2>4, <2>5 DEF Waiting, Busy, BuffersHeld, NoStreamLost
  <2> QED
    BY <2>6, <2>7, <2>9, <2>10
<1> QED
  BY <1>4, <1>5, <1>6, <1>7

----
(* Putting the outputs in order keeps the parameters, and stops only when   *)
(* it is due.                                                               *)
LEMMA FinalizeKeeps ==
  ASSUME NEW due, NEW v, NEW o, NEW i
  PROVE  DOMAIN FinalizeIf(due, v, o, i).var = DOMAIN v /\ (~due => FinalizeIf(due, v, o, i).result = "ok")
BY DEF FinalizeIf, Finalize, UpToFirstStop

(* The handler of core_hdb_execute may release outputs and streams: every   *)
(* failure that reaches it has left the driver with nothing to do.          *)
LEMMA FailsInv ==
  ASSUME HeldInv, NEW v, NEW h, NEW s, NEW d, Fails(v, h, s, d),
         DOMAIN v = DOMAIN var, DOMAIN h = DOMAIN held, DOMAIN s = DOMAIN stmt, DOMAIN d = DOMAIN driver,
         DOMAIN d.bound \subseteq DOMAIN driver.bound, d.state \in {"idle", "end"}, d.left = 0, given' = given
  PROVE  HeldInv'
<1> USE DEF HeldInv
<1>1. PICK f : /\ f = FinalizeIf(s.atExec, v, h.outputs, d.ind)
               /\ \E r \in {Handler(f, h, s, d)} :
                    var' = r.var /\ held' = r.held /\ driver' = r.driver /\ call' = r.call
               /\ stmt' = s
  BY DEF Fails
<1>2. DOMAIN f.var = DOMAIN v
  BY <1>1, FinalizeKeeps
<1>3. /\ var' = f.var /\ stmt' = s
      /\ held' = IF s.atExec /\ f.result = "ok" THEN [h EXCEPT !.outputs = <<>>, !.streams = {}] ELSE h
      /\ driver' = IF f.result = "ok" /\ s.executed THEN Cancelled(d) ELSE d
      /\ call' = IF f.result = "dies" THEN Dies("handler") ELSE Returns("false")
  BY <1>1 DEF Handler
<1>4. DOMAIN var' = DOMAIN var /\ DOMAIN stmt' = DOMAIN stmt /\ DOMAIN held' = DOMAIN held
  BY <1>2, <1>3
<1>5. /\ DOMAIN driver' = DOMAIN driver /\ driver'.bound = d.bound
      /\ driver'.state \in {"idle", "end"} /\ driver'.left = 0
  BY <1>3 DEF Cancelled, Shape
<1>6. DOMAIN call' = DOMAIN call /\ call'.phase \in {"dead", "idle"} /\ call'.cause # "lost stream"
  BY <1>3 DEF Dies, Returns, Shape, NoStreamLost
<1>7. Shape'
  BY <1>4, <1>5, <1>6 DEF Shape, States, Phases
<1>8. Arrays'
  BY <1>4, <1>5 DEF Arrays, P
<1> QED
  BY <1>5, <1>6, <1>7, <1>8, QuietInv DEF NoStreamLost

(* After the statement has run: results, the end, or a failure of the       *)
(* outputs, which comes only at the end.                                    *)
LEMMA FinishInv ==
  ASSUME HeldInv, NEW d, NEW a, Finish(d, a), given' = given,
         DOMAIN d = DOMAIN driver, d.bound = driver.bound,
         d.state \in {"results", "end"}, d.state = "end" => d.left = 0,
         \A p \in DOMAIN driver.bound : driver.bound[p].dir # "in" => p \in DOMAIN held.outputs
  PROVE  HeldInv'
<1> USE DEF HeldInv
<1> DEFINE Outcome(s, e, f) ==
             \/ f.result = "throws" /\ Fails(f.var, held, s, e)
             \/ /\ f.result = "dies"
                /\ var' = f.var /\ driver' = e /\ stmt' = s /\ call' = Dies("output") /\ held' = held
             \/ /\ f.result = "ok"
                /\ var' = f.var /\ driver' = e /\ stmt' = s /\ call' = Returns("true")
                /\ held' = Released(held, s.atExec, s.atExec /\ e.state = "end")
<1>0. \E s \in {[stmt EXCEPT !.executed = TRUE, !.pastEnd = FALSE]},
         v \in {IF d.state = "end" THEN Filled(a) ELSE var},
         e \in {IF d.state = "end" THEN [d EXCEPT !.ind = Lengths(a), !.told = a] ELSE d} :
      \E f \in {FinalizeIf(s.atExec /\ e.state = "end", v, held.outputs, e.ind)} : Outcome(s, e, f)
  BY Zenon DEF Finish
<1> HIDE DEF Outcome
<1>1. PICK s, v, e, due, f :
        /\ s = [stmt EXCEPT !.executed = TRUE, !.pastEnd = FALSE]
        /\ v = IF d.state = "end" THEN Filled(a) ELSE var
        /\ e = IF d.state = "end" THEN [d EXCEPT !.ind = Lengths(a), !.told = a] ELSE d
        /\ due = (s.atExec /\ e.state = "end")
        /\ f = FinalizeIf(due, v, held.outputs, e.ind)
        /\ Outcome(s, e, f)
  BY <1>0, Zenon
<1>2. DOMAIN s = DOMAIN stmt /\ s.executed = TRUE /\ s.pastEnd = FALSE
  BY <1>1 DEF Shape
<1>3. DOMAIN v = DOMAIN var
  BY <1>1 DEF Filled, P
<1>4. DOMAIN e = DOMAIN driver /\ e.bound = driver.bound /\ e.state = d.state /\ e.left = d.left
  BY <1>1 DEF Shape
<1>5. DOMAIN f.var = DOMAIN var /\ (f.result # "ok" => e.state = "end")
  <2>1. DOMAIN f.var = DOMAIN v /\ (~due => f.result = "ok")
    BY <1>1, FinalizeKeeps
  <2> QED
    BY <1>1, <1>3, <2>1
<1>6. CASE f.result = "throws" /\ Fails(f.var, held, s, e)
  BY <1>2, <1>4, <1>5, <1>6, FailsInv
<1>7. CASE /\ f.result = "dies" /\ var' = f.var /\ driver' = e /\ stmt' = s /\ call' = Dies("output") /\ held' = held
  <2>1. DOMAIN call' = DOMAIN call /\ call'.phase = "dead" /\ call'.cause # "lost stream"
    BY <1>7 DEF Dies, Shape
  <2>2. Shape' /\ Arrays'
    BY <1>2, <1>4, <1>5, <1>7, <2>1 DEF Shape, States, Phases, Arrays, P
  <2> QED
    BY <1>4, <1>5, <1>7, <2>1, <2>2, QuietInv DEF NoStreamLost
<1>8. CASE /\ f.result = "ok" /\ var' = f.var /\ driver' = e /\ stmt' = s /\ call' = Returns("true")
           /\ held' = Released(held, s.atExec, s.atExec /\ e.state = "end")
  <2>1. DOMAIN call' = DOMAIN call /\ call'.phase = "idle" /\ call'.cause = call.cause
    BY <1>8 DEF Returns, Shape
  <2>2. DOMAIN held' = DOMAIN held /\ (e.state # "end" => held'.outputs = held.outputs)
    BY <1>8 DEF Released, Shape
  <2>3. Shape' /\ Arrays' /\ NoStreamLost'
    BY <1>2, <1>4, <1>5, <1>8, <2>1, <2>2 DEF Shape, Phases, States, Arrays, NoStreamLost, P
  <2>4. CASE e.state = "end"
    BY <1>4, <1>8, <2>1, <2>3, <2>4, QuietInv
  <2>5. CASE e.state # "end"
    <3>1. driver'.state = "results" /\ driver'.bound = driver.bound /\ held'.outputs = held.outputs
      BY <1>4, <1>8, <2>2, <2>5
    <3>2. Waiting' /\ Binding' /\ BuffersHeld'
      BY <1>2, <1>8, <2>1, <3>1 DEF Waiting, Busy, Binding, BuffersHeld
    <3> QED
      BY <2>3, <3>2
  <2> QED
    BY <2>4, <2>5
<1> QED
  BY <1>1, <1>6, <1>7, <1>8 DEF Outcome

LEMMA RanState ==
  ASSUME NEW d, NEW n \in Nat, DOMAIN d = {"bound", "ind", "state", "left", "at", "got", "from", "told"}
  PROVE  /\ DOMAIN Ran(d, n) = DOMAIN d /\ Ran(d, n).bound = d.bound
         /\ Ran(d, n).state \in {"results", "end"} /\ (Ran(d, n).state = "end" => Ran(d, n).left = 0)
BY DEF Ran

LEMMA RunInv == ASSUME HeldInv, Run PROVE HeldInv'
<1> USE DEF HeldInv
<1> DEFINE d == [driver EXCEPT !.got = [p \in Streams(driver) |-> <<>>], !.told = <<>>,
                               !.from = [p \in Streams(driver) |-> source[p].read]]
<1>1. call.phase = "run" /\ UNCHANGED <<given, source>>
  BY DEF Run
<1>2. /\ DOMAIN d = DOMAIN driver /\ d.bound = driver.bound /\ d.state = driver.state /\ d.left = driver.left
      /\ driver.state \in {"idle", "end"} /\ driver.left = 0
  BY <1>1 DEF Shape, States, Waiting, Busy
<1>3. \A p \in DOMAIN driver.bound : Covered(p)
  BY <1>1 DEF Binding
<1>4. \/ Fails(var, held, stmt, [d EXCEPT !.state = "idle"])
      \/ \E n \in 0 .. MaxResults : \E a \in AllAnswers : Finish(Ran(d, n), a)
      \/ /\ driver' = [d EXCEPT !.state = "need", !.at = 0] /\ UNCHANGED <<var, held>>
         /\ \/ call' = [call EXCEPT !.phase = "send"] /\ UNCHANGED stmt
            \/ call' = Returns("true") /\ stmt' = [stmt EXCEPT !.executed = TRUE, !.pastEnd = FALSE]
  BY Zenon DEF Run
<1> HIDE DEF d
<1>5. CASE Fails(var, held, stmt, [d EXCEPT !.state = "idle"])
  <2> DEFINE e == [d EXCEPT !.state = "idle"]
  <2>1. DOMAIN e = DOMAIN driver /\ e.bound = driver.bound /\ e.state = "idle" /\ e.left = 0
    BY <1>2 DEF Shape
  <2>2. Fails(var, held, stmt, e)
    BY <1>5
  <2> HIDE DEF e
  <2> QED
    BY <1>1, <2>1, <2>2, FailsInv
<1>6. CASE \E n \in 0 .. MaxResults : \E a \in AllAnswers : Finish(Ran(d, n), a)
  <2>1. PICK n \in Nat : \E a \in AllAnswers : Finish(Ran(d, n), a)
    BY <1>6, ParamsAssumption
  <2>2. PICK a \in AllAnswers : Finish(Ran(d, n), a)
    BY <2>1
  <2> DEFINE e == Ran(d, n)
  <2>3. /\ DOMAIN e = DOMAIN driver /\ e.bound = driver.bound
        /\ e.state \in {"results", "end"} /\ (e.state = "end" => e.left = 0)
    BY <1>2, RanState DEF Shape
  <2>4. \A p \in DOMAIN driver.bound : driver.bound[p].dir # "in" => p \in DOMAIN held.outputs
    BY <1>3 DEF Covered
  <2>5. Finish(e, a)
    BY <2>2
  <2> HIDE DEF e
  <2> QED
    BY <1>1, <2>3, <2>4, <2>5, FinishInv
<1>7. CASE /\ driver' = [d EXCEPT !.state = "need", !.at = 0] /\ UNCHANGED <<var, held>>
           /\ \/ call' = [call EXCEPT !.phase = "send"] /\ UNCHANGED stmt
              \/ call' = Returns("true") /\ stmt' = [stmt EXCEPT !.executed = TRUE, !.pastEnd = FALSE]
  <2>1. /\ DOMAIN driver' = DOMAIN driver /\ driver'.bound = driver.bound /\ driver'.state = "need"
        /\ driver'.left = 0
    BY <1>2, <1>7 DEF Shape
  <2>2. /\ DOMAIN call' = DOMAIN call /\ DOMAIN stmt' = DOMAIN stmt /\ call'.cause = call.cause
        /\ \/ call'.phase = "send"
           \/ call'.phase = "idle" /\ stmt'.executed /\ ~stmt'.pastEnd
    BY <1>7 DEF Shape, Returns
  <2>3. Shape' /\ Arrays' /\ NoStreamLost'
    BY <1>1, <1>7, <2>1, <2>2 DEF Shape, States, Phases, Arrays, NoStreamLost, P
  <2>4. Waiting' /\ Binding'
    BY <2>1, <2>2 DEF Waiting, Busy, Binding
  <2>5. BuffersHeld'
    BY <1>3, <1>7, <2>1 DEF BuffersHeld, Covered
  <2> QED
    BY <2>3, <2>4, <2>5
<1> QED
  BY <1>4, <1>5, <1>6, <1>7

(* A failure while the streams are sent: everything that is bound goes, and *)
(* the driver has been told to forget it.                                   *)
LEMMA SendFailsInv ==
  ASSUME HeldInv, SendFails, given' = given, call.phase \in {"send", "idle", "packet"}
  PROVE  HeldInv'
<1> USE DEF HeldInv
<1> DEFINE s == [stmt EXCEPT !.current = 0, !.read = 0]
           d == Cancelled(Reset(driver))
<1>1. /\ DOMAIN s = DOMAIN stmt
      /\ DOMAIN d = DOMAIN driver /\ DOMAIN d.bound = {} /\ d.state = "idle" /\ d.left = 0
      /\ DOMAIN NoHeld = DOMAIN held
  BY DEF Shape, Cancelled, Reset, NoHeld
<1>2. \/ call.phase = "send" /\ Fails(var, NoHeld, s, d)
      \/ held' = NoHeld /\ driver' = d /\ stmt' = s /\ call' = Returns("false") /\ UNCHANGED var
  BY DEF SendFails
<1> HIDE DEF s, d
<1>3. CASE call.phase = "send" /\ Fails(var, NoHeld, s, d)
  <2>1. DOMAIN d.bound \subseteq DOMAIN driver.bound
    BY <1>1
  <2> QED
    BY <1>1, <1>3, <2>1, FailsInv
<1>4. CASE held' = NoHeld /\ driver' = d /\ stmt' = s /\ call' = Returns("false") /\ UNCHANGED var
  <2>1. DOMAIN call' = DOMAIN call /\ call'.phase = "idle" /\ call'.cause = call.cause
    BY <1>4 DEF Returns, Shape
  <2>2. Shape' /\ Arrays' /\ NoStreamLost'
    BY <1>1, <1>4, <2>1 DEF Shape, States, Phases, Arrays, NoStreamLost, P
  <2> QED
    BY <1>1, <1>4, <2>1, <2>2, QuietInv
<1> QED
  BY <1>2, <1>3, <1>4

LEMMA ParamDataFailsInv ==
  ASSUME HeldInv, ParamDataFails, given' = given, call.phase \in {"send", "idle"}
  PROVE  HeldInv'
<1> USE DEF HeldInv
<1>1. CASE call.phase = "send"
  <2> DEFINE d == [driver EXCEPT !.state = "idle"]
  <2>1. /\ DOMAIN d = DOMAIN driver /\ d.bound = driver.bound /\ d.state = "idle" /\ d.left = driver.left
        /\ Fails(var, held, stmt, d)
    BY <1>1 DEF ParamDataFails, Shape
  <2>2. driver.left = 0 /\ DOMAIN d.bound \subseteq DOMAIN driver.bound
    BY <1>1, <2>1 DEF Waiting
  <2> HIDE DEF d
  <2> QED
    BY <2>1, <2>2, FailsInv
<1>2. CASE call.phase # "send"
  <2>1. /\ call' = Returns("false") /\ UNCHANGED <<var, held, stmt>>
        /\ driver' = IF driver.state = "put" THEN [driver EXCEPT !.state = "idle"] ELSE driver
    BY <1>2 DEF ParamDataFails
  <2>2. /\ DOMAIN call' = DOMAIN call /\ call'.phase = "idle" /\ call'.cause = call.cause
        /\ DOMAIN driver' = DOMAIN driver /\ driver'.bound = driver.bound /\ driver'.left = driver.left
        /\ driver'.state = IF driver.state = "put" THEN "idle" ELSE driver.state
    BY <2>1 DEF Returns, Shape
  <2>3. Shape' /\ Arrays' /\ NoStreamLost'
    BY <2>1, <2>2 DEF Shape, States, Phases, Arrays, NoStreamLost, P
  <2>4. Waiting' /\ Binding' /\ BuffersHeld'
    BY <1>2, <2>1, <2>2 DEF Waiting, Busy, Binding, BuffersHeld
  <2> QED
    BY <2>3, <2>4
<1> QED
  BY <1>1, <1>2

----
LEMMA MinIsLeast == ASSUME NEW S \in SUBSET Nat, S # {} PROVE Min(S) \in S /\ \A y \in S : Min(S) <= y
<1>1. IsWellFoundedOn(OpToRel(<, Nat), Nat)
  BY NatLessThanWellFounded
<1>2. \E x \in S : \A y \in S : ~(<<y, x>> \in OpToRel(<, Nat))
  BY <1>1, WFMin
<1>3. PICK x \in S : \A y \in S : ~(y < x)
  BY <1>2 DEF OpToRel
<1>4. \A y \in S : x <= y
  BY <1>3
<1> QED
  BY <1>4 DEF Min

(* The parameter the driver asks for is one whose stream the statement      *)
(* holds: the assertion of check_for_next_stream_parameter cannot fail.     *)
LEMMA NextIsHeld ==
  ASSUME HeldInv, driver.state \in {"need", "put"}, Rest(driver) # {}
  PROVE  Min(Rest(driver)) \in held.streams
<1> USE DEF HeldInv
<1>1. Rest(driver) \subseteq DOMAIN driver.bound
  BY DEF Rest, Streams
<1>2. Rest(driver) \in SUBSET Nat
  BY <1>1 DEF Arrays
<1>3. Min(Rest(driver)) \in Streams(driver)
  BY <1>2, MinIsLeast DEF Rest
<1> QED
  BY <1>3 DEF BuffersHeld, Streams

LEMMA NextStreamInv == ASSUME HeldInv, NextStream PROVE HeldInv'
<1> USE DEF HeldInv
<1>1. /\ call.phase \in {"send", "idle"} /\ UNCHANGED <<given, source>>
  BY DEF NextStream, Sending
<1> DEFINE rest == Rest(driver)
           Asks == /\ driver.state \in {"need", "put"} /\ rest # {}
                   /\ IF Min(rest) \notin held.streams THEN call' = Dies("lost stream") /\ UNCHANGED <<stmt, driver>>
                      ELSE /\ stmt' = [stmt EXCEPT !.current = Min(rest), !.read = 0]
                           /\ driver' = [driver EXCEPT !.state = "put", !.at = Min(rest)]
                           /\ call' = IF call.phase = "send" THEN call ELSE [call EXCEPT !.phase = "packet"]
                   /\ UNCHANGED <<var, held>>
           Ends(n, a) ==
                   IF call.phase = "send" THEN Finish(Ran(driver, n), a)
                   ELSE /\ driver' = [Ran(driver, n) EXCEPT !.ind = IF n = 0 THEN Lengths(a) ELSE @,
                                                            !.told = IF n = 0 THEN a ELSE @]
                        /\ var' = IF n = 0 THEN Filled(a) ELSE var
                        /\ call' = Returns("null")
                        /\ UNCHANGED <<held, stmt>>
<1>2. \/ ParamDataFails
      \/ Asks
      \/ /\ driver.state \in {"need", "put"}
         /\ \E n \in 0 .. MaxResults : \E a \in AllAnswers : Ends(n, a)
  BY Zenon DEF NextStream
<1>3. CASE ParamDataFails
  BY <1>1, <1>3, ParamDataFailsInv
<1>4. CASE Asks
  <2>1. rest # {} /\ driver.state \in {"need", "put"} /\ UNCHANGED <<var, held>> /\ Min(rest) \in held.streams
    BY <1>4, NextIsHeld
  <2>2. /\ stmt' = [stmt EXCEPT !.current = Min(rest), !.read = 0]
        /\ driver' = [driver EXCEPT !.state = "put", !.at = Min(rest)]
        /\ call' = IF call.phase = "send" THEN call ELSE [call EXCEPT !.phase = "packet"]
    BY <1>4, <2>1
  <2> HIDE DEF rest, Asks, Ends
  <2>3. /\ DOMAIN stmt' = DOMAIN stmt /\ stmt'.executed = stmt.executed /\ stmt'.pastEnd = stmt.pastEnd
        /\ DOMAIN driver' = DOMAIN driver /\ driver'.bound = driver.bound /\ driver'.state = "put"
        /\ driver'.left = driver.left
        /\ DOMAIN call' = DOMAIN call /\ call'.cause = call.cause
        /\ call'.phase = IF call.phase = "send" THEN "send" ELSE "packet"
    BY <2>2 DEF Shape
  <2>4. Shape' /\ Arrays' /\ NoStreamLost'
    BY <1>1, <2>1, <2>3 DEF Shape, States, Phases, Arrays, NoStreamLost, P
  <2>5. Waiting' /\ Binding' /\ BuffersHeld'
    BY <1>1, <2>1, <2>3 DEF Waiting, Busy, Binding, BuffersHeld
  <2> QED
    BY <2>4, <2>5
<1>5. CASE /\ driver.state \in {"need", "put"}
           /\ \E n \in 0 .. MaxResults : \E a \in AllAnswers : Ends(n, a)
  <2> HIDE DEF Asks, Ends
  <2>1. PICK n \in Nat : \E a \in AllAnswers : Ends(n, a)
    BY <1>5, ParamsAssumption
  <2>2. PICK a \in AllAnswers : Ends(n, a)
    BY <2>1
  <2> DEFINE d == Ran(driver, n)
  <2>3. /\ DOMAIN d = DOMAIN driver /\ d.bound = driver.bound
        /\ d.state \in {"results", "end"} /\ (d.state = "end" => d.left = 0)
    BY RanState DEF Shape
  <2>4. \A p \in DOMAIN driver.bound : driver.bound[p].dir # "in" => p \in DOMAIN held.outputs
    BY <1>5 DEF BuffersHeld
  <2>5. CASE call.phase = "send"
    <3>1. Finish(d, a)
      BY <2>2, <2>5 DEF Ends
    <3> HIDE DEF d
    <3> QED
      BY <1>1, <2>3, <2>4, <3>1, FinishInv
  <2>6. CASE call.phase = "idle"
    <3>1. /\ driver' = [d EXCEPT !.ind = IF n = 0 THEN Lengths(a) ELSE @, !.told = IF n = 0 THEN a ELSE @]
          /\ var' = (IF n = 0 THEN Filled(a) ELSE var) /\ call' = Returns("null") /\ UNCHANGED <<held, stmt>>
      BY <2>2, <2>6 DEF Ends
    <3> HIDE DEF d
    <3>2. DOMAIN var' = DOMAIN var
      BY <3>1 DEF Filled, P
    <3>3. /\ DOMAIN driver' = DOMAIN driver /\ driver'.bound = driver.bound
          /\ driver'.state = d.state /\ driver'.left = d.left
      BY <2>3, <3>1 DEF Shape
    <3>4. DOMAIN call' = DOMAIN call /\ call'.phase = "idle" /\ call'.cause = call.cause
      BY <3>1 DEF Returns, Shape
    <3>5. Shape' /\ Arrays' /\ NoStreamLost'
      BY <1>1, <2>3, <3>1, <3>2, <3>3, <3>4 DEF Shape, States, Phases, Arrays, NoStreamLost, P
    <3>6. stmt.executed /\ ~stmt.pastEnd
      BY <1>5, <2>6 DEF Waiting, Busy
    <3>7. Waiting' /\ Binding' /\ BuffersHeld'
      BY <2>3, <2>4, <3>1, <3>3, <3>4, <3>6 DEF Waiting, Busy, Binding, BuffersHeld
    <3> QED
      BY <3>5, <3>7
  <2> QED
    BY <1>1, <2>5, <2>6
<1> QED
  BY <1>2, <1>3, <1>4, <1>5

LEMMA SendPacketInv == ASSUME HeldInv, SendPacket PROVE HeldInv'
<1> USE DEF HeldInv
<1>1. call.phase \in {"send", "idle", "packet"} /\ given' = given
  BY DEF SendPacket, Sending
<1>2. \/ SendFails
      \/ /\ UNCHANGED <<var, held>> /\ call' = Goes
         /\ DOMAIN stmt' = DOMAIN stmt /\ stmt'.executed = stmt.executed /\ stmt'.pastEnd = stmt.pastEnd
         /\ DOMAIN driver' = DOMAIN driver /\ driver'.bound = driver.bound
         /\ driver'.state = driver.state /\ driver'.left = driver.left
      \/ call' = Dies("overrun") /\ UNCHANGED <<var, held, driver, stmt>>
  <2> DEFINE p == stmt.current
  <2>1. CASE \E n \in Take(Min({Len(TextOf(p)) - source[p].read, PacketSize})), eof \in BOOLEAN :
               n > 0 /\ PutData(p, n, eof)
    <3>1. PICK n, eof : PutData(p, n, eof)
      BY <2>1
    <3>2. PICK k : \/ SendFails
                   \/ /\ driver' = [driver EXCEPT !.got[p] = @ \o k.data]
                      /\ stmt' = [stmt EXCEPT !.read = @ + n]
                      /\ call' = Goes
                      /\ UNCHANGED <<var, held>>
                   \/ call' = Dies("overrun") /\ UNCHANGED <<var, held, driver, stmt>>
      BY <3>1 DEF PutData
    <3>3. CASE SendFails
      BY <3>3
    <3>4. CASE /\ driver' = [driver EXCEPT !.got[p] = @ \o k.data] /\ stmt' = [stmt EXCEPT !.read = @ + n]
               /\ call' = Goes /\ UNCHANGED <<var, held>>
      <4>1. /\ DOMAIN driver' = DOMAIN driver /\ driver'.bound = driver.bound
            /\ driver'.state = driver.state /\ driver'.left = driver.left
        BY <3>4 DEF Shape
      <4>2. DOMAIN stmt' = DOMAIN stmt /\ stmt'.executed = stmt.executed /\ stmt'.pastEnd = stmt.pastEnd
        BY <3>4 DEF Shape
      <4> QED
        BY <3>4, <4>1, <4>2
    <3>5. CASE call' = Dies("overrun") /\ UNCHANGED <<var, held, driver, stmt>>
      BY <3>5
    <3> QED
      BY <3>2, <3>3, <3>4, <3>5
  <2>2. CASE SendFails
    BY <2>2
  <2>3. CASE /\ stmt' = [stmt EXCEPT !.current = 0, !.read = 0] /\ call' = Goes /\ UNCHANGED <<var, held, driver>>
    BY <2>3 DEF Shape
  <2>4. CASE call' = Goes /\ UNCHANGED <<var, held, driver, stmt>>
    BY <2>4
  <2> QED
    BY <2>1, <2>2, <2>3, <2>4 DEF SendPacket
<1>3. CASE SendFails
  BY <1>1, <1>3, SendFailsInv
<1>4. CASE /\ UNCHANGED <<var, held>> /\ call' = Goes
           /\ DOMAIN stmt' = DOMAIN stmt /\ stmt'.executed = stmt.executed /\ stmt'.pastEnd = stmt.pastEnd
           /\ DOMAIN driver' = DOMAIN driver /\ driver'.bound = driver.bound
           /\ driver'.state = driver.state /\ driver'.left = driver.left
  <2>1. /\ DOMAIN call' = DOMAIN call /\ call'.cause = call.cause
        /\ call'.phase = IF call.phase = "send" THEN "send" ELSE "idle"
    BY <1>4 DEF Goes, Returns, Shape
  <2>2. Shape' /\ Arrays' /\ NoStreamLost'
    BY <1>1, <1>4, <2>1 DEF Shape, Phases, Arrays, NoStreamLost, P
  <2>3. Waiting' /\ Binding' /\ BuffersHeld'
    BY <1>1, <1>4, <2>1 DEF Waiting, Busy, Binding, BuffersHeld
  <2> QED
    BY <2>2, <2>3
<1>5. CASE call' = Dies("overrun") /\ UNCHANGED <<var, held, driver, stmt>>
  <2>1. DOMAIN call' = DOMAIN call /\ call'.phase = "dead" /\ call'.cause # "lost stream"
    BY <1>5 DEF Dies, Shape
  <2>2. Shape' /\ Arrays' /\ NoStreamLost'
    BY <1>1, <1>5, <2>1 DEF Shape, Phases, Arrays, NoStreamLost, P
  <2>3. Waiting' /\ Binding' /\ BuffersHeld'
    BY <1>1, <1>5, <2>1 DEF Waiting, Busy, Binding, BuffersHeld
  <2> QED
    BY <2>2, <2>3
<1> QED
  BY <1>2, <1>3, <1>4, <1>5

LEMMA CancelInv == ASSUME HeldInv, Cancel PROVE HeldInv'
<1> USE DEF HeldInv
<1>1. call.phase = "idle" /\ UNCHANGED <<given, var, held, stmt, source>>
  BY DEF Cancel
<1>2. /\ DOMAIN driver' = DOMAIN driver /\ driver'.bound = driver.bound /\ driver'.state = "idle" /\ driver'.left = 0
      /\ DOMAIN call' = DOMAIN call /\ call'.phase = "idle" /\ call'.cause = call.cause
  BY DEF Cancel, Cancelled, Returns, Shape
<1>3. Shape' /\ Arrays' /\ NoStreamLost'
  BY <1>1, <1>2 DEF Shape, States, Phases, Arrays, NoStreamLost, P
<1> QED
  BY <1>2, <1>3, QuietInv

(* Outputs are released once all results have been processed, or what is    *)
(* left of them has been cancelled.                                         *)
LEMMA NextResultInv == ASSUME HeldInv, NextResult PROVE HeldInv'
<1> USE DEF HeldInv
<1>1. call.phase = "idle" /\ UNCHANGED <<given, source>>
  BY DEF NextResult
<1> DEFINE Outcome(d, f) ==
             /\ var' = f.var
             /\ driver' = IF f.result = "throws" THEN Cancelled(d) ELSE d
             /\ held' = IF f.result = "ok" THEN [held EXCEPT !.outputs = <<>>] ELSE held
             /\ stmt' = IF f.result = "ok" THEN [stmt EXCEPT !.pastEnd = TRUE] ELSE stmt
             /\ call' = CASE f.result = "ok" -> Returns("null")
                          [] f.result = "throws" -> Returns("false")
                          [] OTHER -> Dies("output")
           last == driver.state = "results"
           AtEnd(a) == IF last THEN [driver EXCEPT !.ind = Lengths(a), !.told = a, !.state = "end", !.left = 0]
                       ELSE driver
<1>2. \/ driver' = Cancelled(driver) /\ call' = Returns("false") /\ UNCHANGED <<var, held, stmt>>
      \/ /\ driver.state = "results" /\ driver' = [driver EXCEPT !.left = @ - 1]
         /\ call' = Returns("true") /\ UNCHANGED <<var, held, stmt>>
      \/ /\ driver.state \in {"end", "idle"} \/ driver.left = 1
         /\ \E a \in IF last THEN AllAnswers ELSE {driver.told} :
            \E d \in {AtEnd(a)} :
            \E f \in {Finalize(IF last THEN Filled(a) ELSE var, held.outputs, d.ind)} : Outcome(d, f)
  BY Zenon DEF NextResult
<1> HIDE DEF Outcome, last
<1>3. CASE driver' = Cancelled(driver) /\ call' = Returns("false") /\ UNCHANGED <<var, held, stmt>>
  <2>1. /\ DOMAIN driver' = DOMAIN driver /\ driver'.bound = driver.bound /\ driver'.state = "idle" /\ driver'.left = 0
        /\ DOMAIN call' = DOMAIN call /\ call'.phase = "idle" /\ call'.cause = call.cause
    BY <1>3 DEF Cancelled, Returns, Shape
  <2>2. Shape' /\ Arrays' /\ NoStreamLost'
    BY <1>1, <1>3, <2>1 DEF Shape, States, Phases, Arrays, NoStreamLost, P
  <2> QED
    BY <2>1, <2>2, QuietInv
<1>4. CASE /\ driver.state = "results" /\ driver' = [driver EXCEPT !.left = @ - 1]
           /\ call' = Returns("true") /\ UNCHANGED <<var, held, stmt>>
  <2>1. /\ DOMAIN driver' = DOMAIN driver /\ driver'.bound = driver.bound /\ driver'.state = "results"
        /\ DOMAIN call' = DOMAIN call /\ call'.phase = "idle" /\ call'.cause = call.cause
    BY <1>4 DEF Returns, Shape
  <2>2. Shape' /\ Arrays' /\ NoStreamLost'
    BY <1>1, <1>4, <2>1 DEF Shape, States, Phases, Arrays, NoStreamLost, P
  <2>3. Waiting' /\ Binding' /\ BuffersHeld'
    BY <1>1, <1>4, <2>1 DEF Waiting, Busy, Binding, BuffersHeld
  <2> QED
    BY <2>2, <2>3
<1>5. CASE /\ driver.state \in {"end", "idle"} \/ driver.left = 1
           /\ \E a \in IF last THEN AllAnswers ELSE {driver.told} :
              \E d \in {AtEnd(a)} :
              \E f \in {Finalize(IF last THEN Filled(a) ELSE var, held.outputs, d.ind)} : Outcome(d, f)
  <2> HIDE DEF AtEnd
  <2>1. PICK a, d, v, f : /\ d = AtEnd(a) /\ v = (IF last THEN Filled(a) ELSE var)
                          /\ f = Finalize(v, held.outputs, d.ind) /\ Outcome(d, f)
    BY <1>5, Zenon
  <2>2. DOMAIN f.var = DOMAIN var
    <3>1. DOMAIN v = DOMAIN var
      BY <2>1 DEF Filled, P
    <3>2. DOMAIN f.var = DOMAIN v
      BY <2>1 DEF Finalize, UpToFirstStop
    <3> QED
      BY <3>1, <3>2
  <2>3. /\ DOMAIN d = DOMAIN driver /\ d.bound = driver.bound /\ d.state \in {"idle", "end"} /\ d.left = 0
    <3>1. CASE last
      BY <2>1, <3>1 DEF AtEnd, Shape
    <3>2. CASE ~last
      <4>1. d = driver /\ driver.state # "results"
        BY <2>1, <3>2 DEF AtEnd, last
      <4>2. driver.left = 0
        BY <4>1 DEF Waiting
      <4> QED
        BY <1>5, <4>1, <4>2
    <3> QED
      BY <3>1, <3>2
  <2>4. /\ DOMAIN driver' = DOMAIN driver /\ driver'.bound = driver.bound
        /\ driver'.state \in {"idle", "end"} /\ driver'.left = 0
    BY <2>1, <2>3 DEF Outcome, Cancelled, Shape
  <2>5. /\ DOMAIN var' = DOMAIN var /\ DOMAIN held' = DOMAIN held /\ DOMAIN stmt' = DOMAIN stmt
    BY <2>1, <2>2 DEF Outcome
  <2>6. /\ DOMAIN call' = DOMAIN call /\ call'.phase \in {"idle", "dead"} /\ call'.cause # "lost stream"
    <3>1. call' \in {Returns("null"), Returns("false"), Dies("output")}
      BY <2>1 DEF Outcome
    <3> QED
      BY <3>1 DEF Returns, Dies, Shape, NoStreamLost
  <2>7. Shape' /\ Arrays' /\ NoStreamLost'
    BY <1>1, <2>4, <2>5, <2>6 DEF Shape, States, Phases, Arrays, NoStreamLost, P
  <2> QED
    BY <2>4, <2>6, <2>7, QuietInv
<1> QED
  BY <1>2, <1>3, <1>4, <1>5

LEMMA Invariance == Spec => []HeldInv
<1>1. HeldInv /\ [Next]_vars => HeldInv'
  <2> SUFFICES ASSUME HeldInv, [Next]_vars PROVE HeldInv'
    OBVIOUS
  <2>1. CASE Next
    BY <2>1, ExecuteInv, FlushInv, FreeInv, BindInv, RunInv, NextStreamInv, SendPacketInv, NextResultInv, CancelInv
       DEF Next
  <2>2. CASE UNCHANGED vars
    BY <2>2 DEF vars, HeldInv, Shape, Arrays, Waiting, Busy, Binding, Covered, BuffersHeld, NoStreamLost, P
  <2> QED
    BY <2>1, <2>2
<1> QED
  BY <1>1, InitInv, PTL DEF Spec

(* The driver keeps pointers into what is bound.  While it waits for data   *)
(* every converted string, stream, date and output is held by the           *)
(* statement, and every output while results are left: free_param_data and  *)
(* the handlers run only when the driver has nothing more to read or write. *)
THEOREM BoundIsHeld == Spec => []BuffersHeld
BY Invariance, PTL DEF HeldInv

(* The assertion of check_for_next_stream_parameter that the parameter the  *)
(* driver asks for is in the table ("Stream parameter does not exist")      *)
(* never fails.                                                             *)
THEOREM StreamIsFound == Spec => []NoStreamLost
BY Invariance, PTL DEF HeldInv

----
(***************************************************************************)
(* Convert from UTF-8 that refuses what is ill-formed: what its loop does   *)
(* at a place depends on the character there, and with room enough a text   *)
(* that is split between characters converts part by part.                  *)
(***************************************************************************)
LEMMA NatSet ==
  ASSUME NEW S \in SUBSET Nat, 0 \in S, \A n \in S : n + 1 \in S
  PROVE  S = Nat
<1>1. IsWellFoundedOn(OpToRel(<, Nat), Nat)
  BY NatLessThanWellFounded
<1>2. SUFFICES ASSUME Nat \ S # {} PROVE FALSE
  OBVIOUS
<1>3. \E x \in Nat \ S : \A y \in Nat \ S : ~(<<y, x>> \in OpToRel(<, Nat))
  BY <1>1, <1>2, WFMin
<1>4. PICK x \in Nat \ S : \A y \in Nat \ S : ~(y < x)
  BY <1>3 DEF OpToRel
<1>5. x # 0 /\ x - 1 \in Nat
  BY <1>4
<1>6. x - 1 \in S
  BY <1>4, <1>5
<1> QED
  BY <1>4, <1>5, <1>6

IsFill(fill, src, s, strict) ==
  fill = [i \in Nat \ {0} |-> [left \in Nat |->
        IF i > Len(s) THEN Stop("none", left, i)
        ELSE LET n == HeadLen(src, s, i)
                 c == IF n > 0 THEN Recoded(src, s[i]) ELSE Default(src)
                 after == i + (IF n > 0 THEN n ELSE SkippedCells(src, s, i))
             IN  IF n > 0 /\ Len(c) <= left THEN Before(c, fill[after][left - Len(c)])
                 ELSE IF n > 0 \/ left = 0 THEN Stop("insufficient", left, i)
                 ELSE IF strict THEN Stop("no translation", left, i)
                 ELSE IF Len(c) > left THEN Stop("insufficient", left, after)
                 ELSE Before(c, IF left = Len(c) THEN Stop("none", 0, after) ELSE fill[after][left - Len(c)])]]

Fill(src, s, strict) == CHOOSE fill : IsFill(fill, src, s, strict)

LEMMA ConvertIsFill ==
  ASSUME NEW src, NEW s, NEW strict, NEW start, NEW room
  PROVE  ConvertFrom(src, s, start, room, strict) =
           IF room = 0 THEN Stop("none", 0, start) ELSE Fill(src, s, strict)[start][room]
BY DEF ConvertFrom, IsFill, Fill

Units == {"a", "nul", "b2", "b3", "hi", "lo", "R"}
Outcomes == [out : Seq(Units), error : {"none", "insufficient", "no translation"}, left : Nat, at : Nat]

ByteWidth(byte) == IF byte \in Leads THEN CchUtf8CodePt[byte] ELSE 1
Complete(s, i) ==
  /\ s[i] \in DOMAIN UnitOf /\ i + ByteWidth(s[i]) - 1 <= Len(s)
  /\ \A k \in i + 1 .. i + ByteWidth(s[i]) - 1 : s[k] = "m"

(* What a lead byte has behind it. *)
LEMMA ContinuedIsWidth ==
  ASSUME NEW S, NEW s \in Seq(S), NEW i \in 1 .. Len(s), s[i] \in Leads
  PROVE  /\ Continued(s, i) \in 1 .. CchUtf8CodePt[s[i]]
         /\ Continued(s, i) = CchUtf8CodePt[s[i]] <=> Complete(s, i)
<1> DEFINE w == CchUtf8CodePt[s[i]]
           Is(n) == /\ i + n - 1 <= Len(s) /\ \A k \in i + 1 .. i + n - 1 : s[k] = "m"
                    /\ \/ n = w \/ i + n > Len(s) \/ s[i + n] # "m"
<1>1. w \in {2, 3, 4} /\ Len(s) \in Nat /\ ByteWidth(s[i]) = w /\ s[i] \in DOMAIN UnitOf
  BY LenProperties DEF CchUtf8CodePt, Leads, ByteWidth, UnitOf
<1>2. Continued(s, i) = CHOOSE n \in 1 .. w : Is(n)
  BY DEF Continued
<1>3. Complete(s, i) <=> Is(w)
  BY <1>1 DEF Complete
<1> HIDE DEF w
<1>4. \E n \in 1 .. w : Is(n)
  <2>1. Is(1) \/ (i + 1 <= Len(s) /\ s[i + 1] = "m")
    BY <1>1
  <2>2. ASSUME i + 1 <= Len(s), s[i + 1] = "m" PROVE Is(2) \/ (i + 2 <= Len(s) /\ s[i + 2] = "m" /\ w # 2)
    BY <1>1, <2>2
  <2>3. ASSUME i + 2 <= Len(s), s[i + 1] = "m", s[i + 2] = "m", w # 2
        PROVE  Is(3) \/ (i + 3 <= Len(s) /\ s[i + 3] = "m" /\ w = 4)
    BY <1>1, <2>3
  <2>4. ASSUME i + 3 <= Len(s), s[i + 1] = "m", s[i + 2] = "m", s[i + 3] = "m", w = 4
        PROVE  Is(4)
    BY <1>1, <2>4
  <2> HIDE DEF Is
  <2> QED
    BY <1>1, <2>1, <2>2, <2>3, <2>4
<1>5. ASSUME NEW n \in 1 .. w, Is(n), Is(w) PROVE n = w
  BY <1>1, <1>5
<1> HIDE DEF Is
<1> QED
  BY <1>1, <1>2, <1>3, <1>4, <1>5 DEF w

LEMMA HeadIsComplete ==
  ASSUME NEW S, NEW s \in Seq(S), NEW i \in 1 .. Len(s)
  PROVE  HeadLen("UTF8", s, i) = IF Complete(s, i) THEN ByteWidth(s[i]) ELSE 0
<1>1. CASE s[i] \in {"a", "nul"}
  <2>1. ByteWidth(s[i]) = 1 /\ s[i] \in DOMAIN UnitOf
    BY <1>1 DEF ByteWidth, Leads, UnitOf
  <2>2. Complete(s, i)
    BY <2>1, LenProperties DEF Complete
  <2> QED
    BY <1>1, <2>1, <2>2 DEF HeadLen, Leads
<1>2. CASE s[i] \in Leads
  <2>1. s[i] \notin {"a", "nul"} /\ ByteWidth(s[i]) = CchUtf8CodePt[s[i]]
    BY <1>2 DEF Leads, ByteWidth
  <2>2. HeadLen("UTF8", s, i) = IF Continued(s, i) = CchUtf8CodePt[s[i]] THEN Continued(s, i) ELSE 0
    BY <1>2, <2>1 DEF HeadLen
  <2> QED
    BY <1>2, <2>1, <2>2, ContinuedIsWidth
<1>3. CASE s[i] \notin {"a", "nul"} /\ s[i] \notin Leads
  <2>1. s[i] \notin DOMAIN UnitOf
    BY <1>3 DEF UnitOf, Leads
  <2> QED
    BY <1>3, <2>1 DEF HeadLen, Complete
<1> QED
  BY <1>1, <1>2, <1>3

LEMMA UnitsOfByte ==
  ASSUME NEW b \in DOMAIN UnitOf
  PROVE  /\ UnitOf[b] \in Seq(Units) /\ Len(UnitOf[b]) \in 1 .. ByteWidth(b) /\ ByteWidth(b) \in 1 .. 4
         /\ Recoded("UTF8", b) = UnitOf[b]
<1>1. b \in {"a", "nul", "L2", "L3", "L4", "LR"}
  BY DEF UnitOf
<1>2. \A x \in Units : <<x>> \in Seq(Units) /\ Len(<<x>>) = 1
  OBVIOUS
<1>3. <<"hi", "lo">> \in Seq(Units) /\ Len(<<"hi", "lo">>) = 2
  BY DEF Units
<1>4. UnitOf[b] \in Seq(Units) /\ Len(UnitOf[b]) = IF b = "L4" THEN 2 ELSE 1
  <2>1. CASE b = "L4"
    <3>1. UnitOf[b] = <<"hi", "lo">>
      BY <2>1 DEF UnitOf
    <3> QED
      BY <1>3, <2>1, <3>1
  <2>2. CASE b # "L4"
    <3>1. \E x \in Units : UnitOf[b] = <<x>>
      BY <1>1, <2>2 DEF UnitOf, Units
    <3> QED
      BY <1>2, <2>2, <3>1
  <2> QED
    BY <2>1, <2>2
<1>5. ByteWidth(b) \in 1 .. 4 /\ (b = "L4" => ByteWidth(b) = 4)
  BY <1>1 DEF ByteWidth, Leads, CchUtf8CodePt
<1>6. Recoded("UTF8", b) = UnitOf[b]
  BY DEF Recoded
<1> QED
  BY <1>4, <1>5, <1>6

(* One round of the loop in these terms. *)
OneRound(f, s, i, left) ==
  IF i > Len(s) THEN Stop("none", left, i)
  ELSE IF Complete(s, i) /\ Len(UnitOf[s[i]]) <= left
  THEN Before(UnitOf[s[i]], f[i + ByteWidth(s[i])][left - Len(UnitOf[s[i]])])
  ELSE IF Complete(s, i) \/ left = 0 THEN Stop("insufficient", left, i)
  ELSE Stop("no translation", left, i)

LEMMA RoundIs ==
  ASSUME NEW S, NEW s \in Seq(S), NEW f, NEW i \in Nat \ {0}, NEW left \in Nat
  PROVE  OneRound(f, s, i, left) =
        IF i > Len(s) THEN Stop("none", left, i)
        ELSE LET n == HeadLen("UTF8", s, i)
                 c == IF n > 0 THEN Recoded("UTF8", s[i]) ELSE Default("UTF8")
                 after == i + (IF n > 0 THEN n ELSE SkippedCells("UTF8", s, i))
             IN  IF n > 0 /\ Len(c) <= left THEN Before(c, f[after][left - Len(c)])
                 ELSE IF n > 0 \/ left = 0 THEN Stop("insufficient", left, i)
                 ELSE IF TRUE THEN Stop("no translation", left, i)
                 ELSE IF Len(c) > left THEN Stop("insufficient", left, after)
                 ELSE Before(c, IF left = Len(c) THEN Stop("none", 0, after) ELSE f[after][left - Len(c)])
<1>1. CASE i > Len(s)
  BY <1>1 DEF OneRound
<1>2. CASE i <= Len(s) /\ Complete(s, i)
  <2>1. i \in 1 .. Len(s) /\ s[i] \in DOMAIN UnitOf /\ Len(s) \in Nat
    BY <1>2, LenProperties DEF Complete
  <2>2. /\ HeadLen("UTF8", s, i) = ByteWidth(s[i]) /\ ByteWidth(s[i]) > 0 /\ ~(i > Len(s))
        /\ Recoded("UTF8", s[i]) = UnitOf[s[i]]
    BY <1>2, <2>1, HeadIsComplete, UnitsOfByte
  <2> QED
    BY <1>2, <2>2 DEF OneRound
<1>3. CASE i <= Len(s) /\ ~Complete(s, i)
  <2>1. i \in 1 .. Len(s) /\ Len(s) \in Nat
    BY <1>3, LenProperties
  <2>2. HeadLen("UTF8", s, i) = 0 /\ ~(i > Len(s)) /\ ~(HeadLen("UTF8", s, i) > 0)
    BY <1>3, <2>1, HeadIsComplete
  <2> QED
    BY <1>3, <2>2, Zenon DEF OneRound
<1>4. i > Len(s) \/ i <= Len(s)
  BY LenProperties
<1> QED
  BY <1>1, <1>2, <1>3, <1>4, Zenon

LEMMA StopIsOutcome ==
  ASSUME NEW e \in {"none", "insufficient", "no translation"}, NEW left \in Nat, NEW i \in Nat
  PROVE  Stop(e, left, i) \in Outcomes
<1>1. <<>> \in Seq(Units)
  BY EmptySeq
<1> QED
  BY <1>1 DEF Stop, Outcomes

LEMMA StopIs ==
  ASSUME NEW e, NEW left, NEW i, NEW r, r = Stop(e, left, i)
  PROVE  r.out = <<>> /\ r.error = e
BY DEF Stop

LEMMA BeforeIsOutcome ==
  ASSUME NEW c \in Seq(Units), NEW r \in Outcomes
  PROVE  /\ Before(c, r) \in Outcomes /\ Before(c, r).out = c \o r.out
         /\ Before(c, r).error = r.error
<1>1. r.out \in Seq(Units) /\ c \o r.out \in Seq(Units)
  BY ConcatProperties DEF Outcomes
<1> QED
  BY <1>1 DEF Before, Outcomes

(* A character within the text, and what it makes. *)
LEMMA OfCharacter ==
  ASSUME NEW S, NEW s \in Seq(S), NEW i \in Nat \ {0}, ~(i > Len(s)), Complete(s, i)
  PROVE  /\ UnitOf[s[i]] \in Seq(Units) /\ Len(UnitOf[s[i]]) \in Nat /\ Len(UnitOf[s[i]]) <= ByteWidth(s[i])
         /\ ByteWidth(s[i]) \in Nat \ {0} /\ i + ByteWidth(s[i]) <= Len(s) + 1
         /\ i + ByteWidth(s[i]) \in Nat \ {0}
<1>1. s[i] \in DOMAIN UnitOf /\ Len(s) \in Nat /\ i + ByteWidth(s[i]) - 1 <= Len(s)
  BY LenProperties DEF Complete
<1> QED
  BY <1>1, UnitsOfByte

LEMMA FillExists ==
  ASSUME NEW S, NEW s \in Seq(S)
  PROVE  \E f : /\ f = [i \in Nat \ {0} |-> [left \in Nat |-> f[i][left]]]
                /\ \A i \in Nat \ {0}, left \in Nat : f[i][left] = OneRound(f, s, i, left)
<1> DEFINE Form(f) == f = [i \in Nat \ {0} |-> [left \in Nat |-> f[i][left]]]
           Good(f, k) == \A i \in Nat \ {0}, left \in Nat : i + k > Len(s) => f[i][left] = OneRound(f, s, i, left)
           Reached == {k \in Nat : \E f : Form(f) /\ Good(f, k)}
<1>0. Len(s) \in Nat
  BY LenProperties
<1>1. 0 \in Reached
  <2> DEFINE f == [i \in Nat \ {0} |-> [left \in Nat |-> Stop("none", left, i)]]
  <2>1. Form(f)
    OBVIOUS
  <2>2. ASSUME NEW i \in Nat \ {0}, NEW left \in Nat, i + 0 > Len(s) PROVE f[i][left] = OneRound(f, s, i, left)
    <3>1. f[i][left] = Stop("none", left, i) /\ i > Len(s)
      BY <1>0, <2>2
    <3> HIDE DEF f
    <3> QED
      BY <3>1 DEF OneRound
  <2>3. Good(f, 0)
    BY <2>2
  <2> HIDE DEF f, Form, Good
  <2> QED
    BY <2>1, <2>3
<1>2. ASSUME NEW k \in Reached PROVE k + 1 \in Reached
  <2>1. PICK f : Form(f) /\ Good(f, k)
    BY <1>2
  <2> DEFINE g == [i \in Nat \ {0} |-> [left \in Nat |-> OneRound(f, s, i, left)]]
  <2>2. Form(g)
    OBVIOUS
  <2>3. \A i \in Nat \ {0}, left \in Nat : g[i][left] = OneRound(f, s, i, left)
    OBVIOUS
  <2> HIDE DEF g
  <2>4. ASSUME NEW i \in Nat \ {0}, NEW left \in Nat, i + k > Len(s) PROVE g[i][left] = f[i][left]
    BY <2>1, <2>3, <2>4
  <2>5. ASSUME NEW i \in Nat \ {0}, NEW left \in Nat, i + (k + 1) > Len(s)
        PROVE  OneRound(f, s, i, left) = OneRound(g, s, i, left)
    <3>1. CASE ~(i > Len(s)) /\ Complete(s, i) /\ Len(UnitOf[s[i]]) <= left
      <4> DEFINE after == i + ByteWidth(s[i])
                 room == left - Len(UnitOf[s[i]])
      <4>1. after \in Nat \ {0} /\ room \in Nat /\ after >= i + 1
        BY <3>1, OfCharacter
      <4>2. after + k > Len(s)
        BY <1>0, <2>5, <4>1
      <4> HIDE DEF after, room
      <4>3. g[after][room] = f[after][room]
        BY <2>4, <4>1, <4>2
      <4> QED
        BY <3>1, <4>3 DEF OneRound, after, room
    <3>2. CASE ~(~(i > Len(s)) /\ Complete(s, i) /\ Len(UnitOf[s[i]]) <= left)
      BY <3>2, Zenon DEF OneRound
    <3> QED
      BY <3>1, <3>2
  <2>6. Good(g, k + 1)
    BY <2>3, <2>5
  <2> HIDE DEF Form, Good
  <2> QED
    BY <2>2, <2>6
<1>3. Reached = Nat
  <2>1. Reached \in SUBSET Nat
    OBVIOUS
  <2> HIDE DEF Reached
  <2> QED
    BY <1>1, <1>2, <2>1, NatSet
<1>4. Len(s) \in Reached
  BY <1>0, <1>3
<1>5. PICK f : Form(f) /\ Good(f, Len(s))
  BY <1>4
<1>6. \A i \in Nat \ {0} : i + Len(s) > Len(s)
  BY <1>0
<1> QED
  BY <1>5, <1>6

Strictly(s) == Fill("UTF8", s, TRUE)

LEMMA FillIs ==
  ASSUME NEW S, NEW s \in Seq(S), NEW i \in Nat \ {0}, NEW left \in Nat
  PROVE  Strictly(s)[i][left] = OneRound(Strictly(s), s, i, left)
<1> DEFINE F == Fill("UTF8", s, TRUE)
           Body(g, j, room) ==
             IF j > Len(s) THEN Stop("none", room, j)
             ELSE LET n == HeadLen("UTF8", s, j)
                      c == IF n > 0 THEN Recoded("UTF8", s[j]) ELSE Default("UTF8")
                      after == j + (IF n > 0 THEN n ELSE SkippedCells("UTF8", s, j))
                  IN  IF n > 0 /\ Len(c) <= room THEN Before(c, g[after][room - Len(c)])
                      ELSE IF n > 0 \/ room = 0 THEN Stop("insufficient", room, j)
                      ELSE IF TRUE THEN Stop("no translation", room, j)
                      ELSE IF Len(c) > room THEN Stop("insufficient", room, after)
                      ELSE Before(c, IF room = Len(c) THEN Stop("none", 0, after) ELSE g[after][room - Len(c)])
           Made(g) == [j \in Nat \ {0} |-> [room \in Nat |-> Body(g, j, room)]]
<1>1. PICK f : /\ f = [j \in Nat \ {0} |-> [room \in Nat |-> f[j][room]]]
               /\ \A j \in Nat \ {0}, room \in Nat : f[j][room] = OneRound(f, s, j, room)
  BY FillExists
<1>2. \A g : IsFill(g, "UTF8", s, TRUE) <=> g = Made(g)
  BY Zenon DEF IsFill
<1>3. \A g : \A j \in Nat \ {0}, room \in Nat : OneRound(g, s, j, room) = Body(g, j, room)
  BY RoundIs
<1> HIDE DEF Body
<1>4. f = Made(f)
  <2>1. \A j \in Nat \ {0}, room \in Nat : f[j][room] = Body(f, j, room)
    BY <1>1, <1>3
  <2>2. Made(f) = [j \in Nat \ {0} |-> [room \in Nat |-> f[j][room]]]
    BY <2>1
  <2> QED
    BY <1>1, <2>2
<1>5. IsFill(f, "UTF8", s, TRUE)
  BY <1>2, <1>4
<1>6. IsFill(F, "UTF8", s, TRUE)
  BY <1>5, Zenon DEF Fill
<1>7. F = Made(F)
  BY <1>2, <1>6
<1> HIDE DEF F
<1>8. F[i][left] = Body(F, i, left)
  <2>1. Made(F)[i][left] = Body(F, i, left)
    OBVIOUS
  <2> QED
    BY <1>7, <2>1
<1> QED
  BY <1>3, <1>8 DEF F, Strictly

LEMMA FillTyped ==
  ASSUME NEW S, NEW s \in Seq(S), NEW i \in Nat \ {0}, NEW left \in Nat
  PROVE  Strictly(s)[i][left] \in Outcomes
<1> DEFINE F == Strictly(s)
           Reached == {k \in Nat : \A j \in Nat \ {0}, room \in Nat : j + k > Len(s) => F[j][room] \in Outcomes}
<1>0. Len(s) \in Nat
  BY LenProperties
<1>1. \A j \in Nat \ {0}, room \in Nat : F[j][room] = OneRound(F, s, j, room)
  BY FillIs
<1> HIDE DEF F
<1>2. 0 \in Reached
  <2> SUFFICES ASSUME NEW j \in Nat \ {0}, NEW room \in Nat, j > Len(s) PROVE F[j][room] \in Outcomes
    BY <1>0
  <2> QED
    BY <1>1, StopIsOutcome DEF OneRound
<1>3. ASSUME NEW k \in Reached PROVE k + 1 \in Reached
  <2> SUFFICES ASSUME NEW j \in Nat \ {0}, NEW room \in Nat, j + (k + 1) > Len(s) PROVE F[j][room] \in Outcomes
    BY <1>3
  <2>1. CASE ~(j > Len(s)) /\ Complete(s, j) /\ Len(UnitOf[s[j]]) <= room
    <3> DEFINE c == UnitOf[s[j]]
               after == j + ByteWidth(s[j])
               r == F[after][room - Len(c)]
    <3>1. c \in Seq(Units) /\ room - Len(c) \in Nat /\ after \in Nat \ {0} /\ after >= j + 1
      BY <2>1, OfCharacter
    <3>2. after + k > Len(s)
      BY <1>0, <1>3, <3>1
    <3>3. F[j][room] = Before(c, r)
      BY <1>1, <2>1 DEF OneRound
    <3> HIDE DEF c, after
    <3>4. r \in Outcomes
      BY <1>3, <3>1, <3>2
    <3> HIDE DEF r
    <3> QED
      BY <3>1, <3>3, <3>4, BeforeIsOutcome
  <2>2. CASE ~(~(j > Len(s)) /\ Complete(s, j) /\ Len(UnitOf[s[j]]) <= room)
    <3>1. F[j][room] = OneRound(F, s, j, room)
      BY <1>1
    <3>2. \E e \in {"none", "insufficient", "no translation"} : OneRound(F, s, j, room) = Stop(e, room, j)
      BY <2>2, Zenon DEF OneRound
    <3> QED
      BY <3>1, <3>2, StopIsOutcome
  <2> QED
    BY <2>1, <2>2
<1>4. Reached = Nat
  <2>1. Reached \in SUBSET Nat
    OBVIOUS
  <2> HIDE DEF Reached
  <2> QED
    BY <1>2, <1>3, <2>1, NatSet
<1>5. Len(s) \in Reached /\ i + Len(s) > Len(s)
  BY <1>0, <1>4
<1> QED
  BY <1>5 DEF F

(* With room for the rest of the text a round that is not the last makes    *)
(* of the character what there is to make of it, or refuses the text.       *)
OutOf(s, i, left) == Strictly(s)[i][left].out
ErrorOf(s, i, left) == Strictly(s)[i][left].error

LEMMA RoundAtEnd ==
  ASSUME NEW S, NEW s \in Seq(S), NEW i \in Nat \ {0}, NEW left \in Nat, i > Len(s)
  PROVE  OutOf(s, i, left) = <<>> /\ ErrorOf(s, i, left) = "none"
<1>1. Strictly(s)[i][left] = OneRound(Strictly(s), s, i, left)
  BY FillIs
<1>2. OneRound(Strictly(s), s, i, left) = Stop("none", left, i)
  BY Zenon DEF OneRound
<1>3. Strictly(s)[i][left].out = <<>> /\ Strictly(s)[i][left].error = "none"
  BY <1>1, <1>2, StopIs
<1> QED
  BY <1>3 DEF OutOf, ErrorOf

LEMMA RoundRefuses ==
  ASSUME NEW S, NEW s \in Seq(S), NEW i \in 1 .. Len(s), NEW left \in Nat, left >= Len(s) + 1 - i, ~Complete(s, i)
  PROVE  OutOf(s, i, left) = <<>> /\ ErrorOf(s, i, left) = "no translation"
<1>1. left # 0 /\ ~(i > Len(s)) /\ i \in Nat \ {0}
  BY LenProperties
<1>2. Strictly(s)[i][left] = OneRound(Strictly(s), s, i, left)
  BY <1>1, FillIs
<1>3. OneRound(Strictly(s), s, i, left) = Stop("no translation", left, i)
  BY <1>1, Zenon DEF OneRound
<1>4. Strictly(s)[i][left].out = <<>> /\ Strictly(s)[i][left].error = "no translation"
  <2>1. PICK r : r = Strictly(s)[i][left]
    OBVIOUS
  <2>2. r = Stop("no translation", left, i)
    BY <1>2, <1>3, <2>1, Zenon
  <2>3. r.out = <<>> /\ r.error = "no translation"
    BY <2>2 DEF Stop
  <2> QED
    BY <2>1, <2>3
<1> QED
  BY <1>4 DEF OutOf, ErrorOf

LEMMA RoomFor ==
  ASSUME NEW n \in Nat, NEW i \in Nat, NEW w \in Nat \ {0}, NEW c \in Nat, NEW left \in Nat,
         c <= w, i + w <= n + 1, left >= n + 1 - i
  PROVE  c <= left /\ left - c \in Nat /\ left - c >= n + 1 - (i + w) /\ i + w > i
OBVIOUS

Makes(s, i, left, c, w) ==
  /\ c \in Seq(Units) /\ w \in Nat \ {0} /\ i + w \in Nat \ {0} /\ i + w <= Len(s) + 1
  /\ left - Len(c) \in Nat /\ left - Len(c) >= Len(s) + 1 - (i + w)
  /\ OutOf(s, i + w, left - Len(c)) \in Seq(Units)
  /\ OutOf(s, i, left) = c \o OutOf(s, i + w, left - Len(c))
  /\ ErrorOf(s, i, left) = ErrorOf(s, i + w, left - Len(c))

LEMMA RoundConverts ==
  ASSUME NEW S, NEW s \in Seq(S), NEW i \in 1 .. Len(s), NEW left \in Nat, left >= Len(s) + 1 - i, Complete(s, i),
         NEW c, NEW w, c = UnitOf[s[i]], w = ByteWidth(s[i])
  PROVE  Makes(s, i, left, c, w)
<1>0. ~(i > Len(s)) /\ i \in Nat \ {0} /\ Len(s) \in Nat
  BY LenProperties
<1>1. /\ c \in Seq(Units) /\ Len(c) \in Nat /\ Len(c) <= w
      /\ w \in Nat \ {0} /\ i + w <= Len(s) + 1 /\ i + w \in Nat \ {0}
  BY <1>0, OfCharacter
<1>2. Len(c) <= left /\ left - Len(c) \in Nat /\ left - Len(c) >= Len(s) + 1 - (i + w)
  BY <1>0, <1>1, RoomFor
<1> DEFINE r == Strictly(s)[i + w][left - Len(c)]
<1>3. Strictly(s)[i][left] = Before(c, r)
  <2>1. Strictly(s)[i][left] = OneRound(Strictly(s), s, i, left)
    BY <1>0, FillIs
  <2>2. OneRound(Strictly(s), s, i, left) = Before(c, r)
    BY <1>0, <1>2, Zenon DEF OneRound
  <2> QED
    BY <2>1, <2>2
<1>4. r \in Outcomes
  BY <1>1, <1>2, FillTyped
<1>5. r.out \in Seq(Units)
  BY <1>4 DEF Outcomes
<1>6. Strictly(s)[i][left].out = c \o r.out /\ Strictly(s)[i][left].error = r.error
  <2> HIDE DEF r
  <2>1. c \in Seq(Units)
    BY <1>1
  <2>2. Before(c, r).out = c \o r.out /\ Before(c, r).error = r.error
    BY <1>4, <2>1, BeforeIsOutcome, Zenon
  <2> QED
    BY <1>3, <2>2, Zenon
<1> QED
  BY <1>1, <1>2, <1>5, <1>6 DEF OutOf, ErrorOf, Makes

(* Behind another text the characters are what they are alone, and the room *)
(* does not matter as long as there is enough.                              *)
LEMMA CompleteBehind ==
  ASSUME NEW S, NEW x \in Seq(S), NEW y \in Seq(S), NEW j \in 1 .. Len(y)
  PROVE  /\ (x \o y)[Len(x) + j] = y[j] /\ (Complete(x \o y, Len(x) + j) <=> Complete(y, j))
<1> DEFINE z == x \o y
           a == Len(x)
           w == ByteWidth(y[j])
<1>1. a \in Nat /\ Len(y) \in Nat /\ Len(z) = a + Len(y) /\ \A k \in 1 .. Len(y) : z[a + k] = y[k]
  <2>1. a \in Nat /\ Len(y) \in Nat
    BY LenProperties
  <2>2. \A k \in 1 .. Len(y) : a + k \in 1 .. a + Len(y) /\ ~(a + k <= a) /\ (a + k) - a = k
    BY <2>1
  <2> QED
    BY <2>1, <2>2, ConcatProperties
<1>2. z[a + j] = y[j]
  BY <1>1
<1>3. CASE y[j] \in DOMAIN UnitOf
  <2>1. w \in 1 .. 4
    BY <1>3, UnitsOfByte
  <2>2. ByteWidth(z[a + j]) = w /\ (a + j + w - 1 <= Len(z) <=> j + w - 1 <= Len(y))
    BY <1>1, <1>2, <2>1
  <2> HIDE DEF z, a, w
  <2>3. ASSUME j + w - 1 <= Len(y)
        PROVE  (\A k \in a + j + 1 .. a + j + w - 1 : z[k] = "m") <=> (\A k \in j + 1 .. j + w - 1 : y[k] = "m")
    <3>1. ASSUME \A k \in a + j + 1 .. a + j + w - 1 : z[k] = "m", NEW k \in j + 1 .. j + w - 1 PROVE y[k] = "m"
      <4>1. a + k \in a + j + 1 .. a + j + w - 1 /\ k \in 1 .. Len(y)
        BY <1>1, <2>1, <2>3
      <4> QED
        BY <1>1, <3>1, <4>1
    <3>2. ASSUME \A k \in j + 1 .. j + w - 1 : y[k] = "m", NEW k \in a + j + 1 .. a + j + w - 1 PROVE z[k] = "m"
      <4>1. k - a \in j + 1 .. j + w - 1 /\ k - a \in 1 .. Len(y) /\ a + (k - a) = k
        BY <1>1, <2>1, <2>3
      <4> QED
        BY <1>1, <3>2, <4>1
    <3> QED
      BY <3>1, <3>2
  <2> QED
    BY <1>2, <1>3, <2>2, <2>3 DEF Complete, z, a, w
<1>4. CASE y[j] \notin DOMAIN UnitOf
  BY <1>2, <1>4 DEF Complete
<1> QED
  BY <1>2, <1>3, <1>4

(* The proofs about the loop go backwards from the end of the text. *)
LEMMA BackFromEnd ==
  ASSUME NEW n \in Nat, NEW S \in SUBSET Nat, 0 \in S, \A k \in S : k + 1 \in S
  PROVE  \A i \in Nat \ {0} : \E k \in S : i + k > n
<1>1. S = Nat
  BY NatSet
<1> QED
  BY <1>1

SameAs(s, i, p, t, j, q) == OutOf(s, i, p) = OutOf(t, j, q) /\ ErrorOf(s, i, p) = ErrorOf(t, j, q)

LEMMA Shifted ==
  ASSUME NEW a \in Nat, NEW n \in Nat, NEW i \in Nat, NEW w \in Nat \ {0}, NEW room \in Nat,
         NEW b, b = a + n, room >= b + 1 - (a + i + w)
  PROVE  a + i + w = a + (i + w) /\ i + w > i /\ room >= n + 1 - (i + w)
OBVIOUS

LEMMA FillBehind ==
  ASSUME NEW S, NEW x \in Seq(S), NEW y \in Seq(S), NEW j \in Nat \ {0}, NEW l \in Nat, NEW m \in Nat,
         l >= Len(y) + 1 - j, m >= Len(y) + 1 - j, NEW z, z = x \o y, NEW at, at = Len(x) + j
  PROVE  SameAs(z, at, m, y, j, l)
<1> DEFINE Same(i, p, q) == SameAs(z, Len(x) + i, q, y, i, p)
           Good(i) == \A p \in Nat, q \in Nat : p >= Len(y) + 1 - i /\ q >= Len(y) + 1 - i => Same(i, p, q)
           Reached == {k \in Nat : \A i \in Nat \ {0} : i + k > Len(y) => Good(i)}
<1>0. z \in Seq(S) /\ Len(x) \in Nat /\ Len(y) \in Nat /\ Len(z) = Len(x) + Len(y)
  BY LenProperties, ConcatProperties
<1>1. ASSUME NEW i \in Nat \ {0}, i > Len(y) PROVE Good(i)
  <2> SUFFICES ASSUME NEW p \in Nat, NEW q \in Nat PROVE Same(i, p, q)
    OBVIOUS
  <2>1. Len(x) + i \in Nat \ {0} /\ Len(x) + i > Len(z)
    BY <1>0, <1>1
  <2>2. OutOf(z, Len(x) + i, q) = <<>> /\ ErrorOf(z, Len(x) + i, q) = "none"
    BY <1>0, <2>1, RoundAtEnd, Zenon
  <2>3. OutOf(y, i, p) = <<>> /\ ErrorOf(y, i, p) = "none"
    BY <1>1, RoundAtEnd, Zenon
  <2> QED
    BY <2>2, <2>3 DEF SameAs
<1>2. ASSUME NEW i \in 1 .. Len(y), \A h \in Nat \ {0} : h > i => Good(h) PROVE Good(i)
  <2> SUFFICES ASSUME NEW p \in Nat, NEW q \in Nat, p >= Len(y) + 1 - i, q >= Len(y) + 1 - i PROVE Same(i, p, q)
    OBVIOUS
  <2>1. Len(x) + i \in 1 .. Len(z) /\ q >= Len(z) + 1 - (Len(x) + i)
    BY <1>0
  <2>2. z[Len(x) + i] = y[i] /\ (Complete(z, Len(x) + i) <=> Complete(y, i))
    BY CompleteBehind
  <2>3. CASE ~Complete(y, i)
    <3>1. OutOf(z, Len(x) + i, q) = <<>> /\ ErrorOf(z, Len(x) + i, q) = "no translation"
      BY <1>0, <2>1, <2>2, <2>3, RoundRefuses
    <3>2. OutOf(y, i, p) = <<>> /\ ErrorOf(y, i, p) = "no translation"
      BY <2>3, RoundRefuses
    <3> QED
      BY <3>1, <3>2 DEF SameAs
  <2>4. CASE Complete(y, i)
    <3>0. PICK c, w : c = UnitOf[y[i]] /\ w = ByteWidth(y[i])
      OBVIOUS
    <3>1. Makes(y, i, p, c, w)
      BY <2>4, <3>0, RoundConverts
    <3>2. c = UnitOf[z[Len(x) + i]] /\ w = ByteWidth(z[Len(x) + i]) /\ Complete(z, Len(x) + i)
      BY <2>2, <2>4, <3>0
    <3>3. Makes(z, Len(x) + i, q, c, w)
      BY <1>0, <2>1, <3>2, RoundConverts
    <3>4. q - Len(c) \in Nat /\ p - Len(c) \in Nat /\ p - Len(c) >= Len(y) + 1 - (i + w) /\ i + w \in Nat \ {0}
      BY <3>1, <3>3 DEF Makes
    <3>5. Len(x) + i + w = Len(x) + (i + w) /\ i + w > i /\ q - Len(c) >= Len(y) + 1 - (i + w)
      <4>1. q - Len(c) >= Len(z) + 1 - (Len(x) + i + w) /\ w \in Nat \ {0}
        BY <3>3 DEF Makes
      <4> HIDE DEF Good
      <4>2. i \in Nat /\ q - Len(c) \in Nat
        BY <3>4
      <4> QED
        BY <1>0, <4>1, <4>2, Shifted
    <3>6. Same(i + w, p - Len(c), q - Len(c))
      BY <1>2, <3>4, <3>5
    <3> QED
      BY <3>1, <3>3, <3>5, <3>6 DEF SameAs, Makes
  <2> QED
    BY <2>3, <2>4
<1> HIDE DEF Good
<1>3. 0 \in Reached
  BY <1>0, <1>1
<1>4. ASSUME NEW k \in Reached PROVE k + 1 \in Reached
  <2> SUFFICES ASSUME NEW i \in Nat \ {0}, i + (k + 1) > Len(y) PROVE Good(i)
    BY <1>4
  <2>1. \A h \in Nat \ {0} : h > i => Good(h)
    BY <1>0, <1>4
  <2>2. i > Len(y) \/ i \in 1 .. Len(y)
    BY <1>0
  <2> QED
    BY <1>1, <1>2, <2>1, <2>2
<1>5. Good(j)
  <2>1. Reached \in SUBSET Nat /\ \A k \in Reached : j + k > Len(y) => Good(j)
    OBVIOUS
  <2> HIDE DEF Reached
  <2>2. \E k \in Reached : j + k > Len(y)
    BY <1>0, <1>3, <1>4, <2>1, BackFromEnd
  <2> QED
    BY <2>1, <2>2
<1> QED
  BY <1>5 DEF Good

LEMMA CompleteBefore ==
  ASSUME NEW S, NEW x \in Seq(S), NEW y \in Seq(S), NEW i \in 1 .. Len(x), Complete(x, i)
  PROVE  (x \o y)[i] = x[i] /\ Complete(x \o y, i)
<1>1. Len(x) \in Nat /\ Len(y) \in Nat /\ Len(x \o y) = Len(x) + Len(y) /\ \A k \in 1 .. Len(x) : (x \o y)[k] = x[k]
  <2>1. Len(x) \in Nat /\ Len(y) \in Nat
    BY LenProperties
  <2>2. \A k \in 1 .. Len(x) : k \in 1 .. Len(x) + Len(y) /\ k <= Len(x)
    BY <2>1
  <2> QED
    BY <2>1, <2>2, ConcatProperties
<1>2. (x \o y)[i] = x[i]
  BY <1>1
<1>3. x[i] \in DOMAIN UnitOf
  BY DEF Complete
<1>4. ByteWidth(x[i]) \in 1 .. 4
  BY <1>3, UnitsOfByte
<1> HIDE DEF ByteWidth
<1> QED
  BY <1>1, <1>2, <1>3, <1>4 DEF Complete

(* A text converted whole, with another one behind it.                      *)
Appended(z, x, y, j, l, m, lg) ==
  OutOf(z, j, m) = OutOf(x, j, l) \o OutOf(y, 1, lg) /\ ErrorOf(z, j, m) = ErrorOf(y, 1, lg)

LEMMA UnitsAssociate ==
  ASSUME NEW a \in Seq(Units), NEW b \in Seq(Units), NEW c \in Seq(Units)
  PROVE  (a \o b) \o c = a \o (b \o c)
BY ConcatAssociative

LEMMA FillAppend ==
  ASSUME NEW S, NEW x \in Seq(S), NEW y \in Seq(S), NEW j \in 1 .. Len(x) + 1,
         NEW l \in Nat, NEW m \in Nat, NEW lg \in Nat,
         l >= Len(x) + 1 - j, m >= Len(x) + Len(y) + 1 - j, lg >= Len(y), ErrorOf(x, j, l) = "none"
  PROVE  Appended(x \o y, x, y, j, l, m, lg)
<1> DEFINE z == x \o y
           G == OutOf(y, 1, lg)
           E == ErrorOf(y, 1, lg)
           Good(i) == \A p \in Nat, q \in Nat :
             p >= Len(x) + 1 - i /\ q >= Len(x) + Len(y) + 1 - i /\ ErrorOf(x, i, p) = "none" =>
               Appended(z, x, y, i, p, q, lg)
           Reached == {k \in Nat : \A i \in 1 .. Len(x) + 1 : i + k > Len(x) => Good(i)}
<1>0. z \in Seq(S) /\ Len(x) \in Nat /\ Len(y) \in Nat /\ Len(z) = Len(x) + Len(y)
  BY LenProperties, ConcatProperties
<1>00. G \in Seq(Units)
  <2>1. Strictly(y)[1][lg] \in Outcomes
    BY FillTyped
  <2> QED
    BY <2>1 DEF Outcomes, OutOf
<1>1. ASSUME NEW i \in 1 .. Len(x) + 1, i > Len(x) PROVE Good(i)
  <2> SUFFICES ASSUME NEW p \in Nat, NEW q \in Nat, q >= Len(x) + Len(y) + 1 - i
               PROVE  Appended(z, x, y, i, p, q, lg)
    BY DEF Good
  <2>1. i = Len(x) + 1 /\ q >= Len(y) + 1 - 1 /\ lg >= Len(y) + 1 - 1
    BY <1>0, <1>1
  <2>2. OutOf(x, i, p) = <<>>
    BY <1>0, <1>1, <2>1, RoundAtEnd
  <2>3. SameAs(z, i, q, y, 1, lg)
    <3>1. PICK one : one = 1 /\ one \in Nat \ {0}
      OBVIOUS
    <3>2. q >= Len(y) + 1 - one /\ lg >= Len(y) + 1 - one /\ i = Len(x) + one
      BY <2>1, <3>1
    <3> QED
      BY <3>1, <3>2, FillBehind
  <2>4. <<>> \o G = G
    BY <1>00, ConcatEmptySeq
  <2> QED
    BY <2>1, <2>2, <2>3, <2>4 DEF SameAs, Appended
<1>2. ASSUME NEW i \in 1 .. Len(x), \A h \in 1 .. Len(x) + 1 : h > i => Good(h) PROVE Good(i)
  <2> SUFFICES ASSUME NEW p \in Nat, NEW q \in Nat, p >= Len(x) + 1 - i, q >= Len(x) + Len(y) + 1 - i,
                      ErrorOf(x, i, p) = "none"
               PROVE  Appended(z, x, y, i, p, q, lg)
    BY DEF Good
  <2>1. Complete(x, i)
    BY RoundRefuses
  <2>2. z[i] = x[i] /\ Complete(z, i)
    BY <2>1, CompleteBefore
  <2>3. PICK c, w : c = UnitOf[x[i]] /\ w = ByteWidth(x[i])
    OBVIOUS
  <2>4. Makes(x, i, p, c, w)
    BY <2>1, <2>3, RoundConverts
  <2>5. i \in 1 .. Len(z) /\ q >= Len(z) + 1 - i /\ c = UnitOf[z[i]] /\ w = ByteWidth(z[i])
    BY <1>0, <2>2, <2>3
  <2> HIDE DEF z, G, E, Good
  <2>6. Makes(z, i, q, c, w)
    BY <1>0, <2>2, <2>5, RoundConverts
  <2>7. i + w \in 1 .. Len(x) + 1 /\ i + w > i
    <3>1. w \in Nat \ {0} /\ i + w <= Len(x) + 1
      BY <2>4 DEF Makes
    <3> QED
      BY <1>0, <3>1
  <2>8. Good(i + w)
    BY <1>2, <2>7
  <2>9. Appended(z, x, y, i + w, p - Len(c), q - Len(c), lg)
    <3>1. /\ p - Len(c) \in Nat /\ p - Len(c) >= Len(x) + 1 - (i + w)
          /\ q - Len(c) \in Nat /\ q - Len(c) >= Len(z) + 1 - (i + w)
          /\ ErrorOf(x, i + w, p - Len(c)) = "none"
      BY <2>4, <2>6 DEF Makes
    <3> QED
      BY <1>0, <2>8, <3>1 DEF Good
  <2>10. PICK r : r = OutOf(x, i + w, p - Len(c))
    OBVIOUS
  <2>11. (c \o r) \o G = c \o (r \o G)
    <3>1. c \in Seq(Units) /\ r \in Seq(Units)
      BY <2>4, <2>10 DEF Makes
    <3> QED
      BY <1>00, <3>1, UnitsAssociate
  <2> QED
    BY <2>4, <2>6, <2>9, <2>10, <2>11 DEF Makes, Appended, G
<1> HIDE DEF Good
<1>3. 0 \in Reached
  BY <1>0, <1>1
<1>4. ASSUME NEW k \in Reached PROVE k + 1 \in Reached
  <2> SUFFICES ASSUME NEW i \in 1 .. Len(x) + 1, i + (k + 1) > Len(x) PROVE Good(i)
    BY <1>4
  <2>1. \A h \in 1 .. Len(x) + 1 : h > i => Good(h)
    BY <1>0, <1>4
  <2>2. i > Len(x) \/ i \in 1 .. Len(x)
    BY <1>0
  <2> QED
    BY <1>1, <1>2, <2>1, <2>2
<1>5. Good(j)
  <2>1. Reached \in SUBSET Nat /\ \A k \in Reached : j + k > Len(x) => Good(j)
    OBVIOUS
  <2> HIDE DEF Reached
  <2>3. j \in Nat \ {0}
    BY <1>0
  <2>2. \E k \in Reached : j + k > Len(x)
    BY <1>0, <1>3, <1>4, <2>1, <2>3, BackFromEnd
  <2> QED
    BY <2>1, <2>2
<1> QED
  BY <1>5 DEF Good

(* A text converted to its end, whatever room there is for it; two texts    *)
(* converted one after the other make what they make together.              *)
Converted(s, out) ==
  Convert("UTF8", s, Len(s) + 1, TRUE).error = "none" /\ Convert("UTF8", s, Len(s) + 1, TRUE).out = out

Makings(s, r) ==
  r.out = OutOf(s, 1, Len(s) + 1) /\ r.error = ErrorOf(s, 1, Len(s) + 1) /\ r.out \in Seq(Units)

LEMMA ConvertIs ==
  ASSUME NEW S, NEW s \in Seq(S), NEW room \in Nat \ {0}, room >= Len(s)
  PROVE  Makings(s, Convert("UTF8", s, room, TRUE))
<1>0. Len(s) \in Nat /\ <<>> \in Seq(S) /\ Len(<<>>) = 0 /\ <<>> \o s = s
  BY LenProperties, EmptySeq, ConcatEmptySeq
<1>1. Convert("UTF8", s, room, TRUE) = Strictly(s)[1][room]
  BY ConvertIsFill DEF Convert, Strictly
<1>2. SameAs(s, 1, room, s, 1, Len(s) + 1)
  <2>0. PICK e : e = <<>>
    OBVIOUS
  <2>1. e \in Seq(S) /\ 1 = Len(e) + 1 /\ s = e \o s /\ 1 \in Nat \ {0}
    BY <1>0, <2>0
  <2>2. room >= Len(s) + 1 - 1 /\ Len(s) + 1 >= Len(s) + 1 - 1 /\ Len(s) + 1 \in Nat
    BY <1>0
  <2> QED
    BY <1>0, <2>1, <2>2, FillBehind
<1>3. OutOf(s, 1, Len(s) + 1) \in Seq(Units)
  <2>1. Strictly(s)[1][Len(s) + 1] \in Outcomes
    BY <1>0, FillTyped
  <2> QED
    BY <2>1 DEF OutOf, Outcomes
<1> QED
  BY <1>1, <1>2, <1>3 DEF OutOf, ErrorOf, SameAs, Makings

LEMMA ConvertedIs ==
  ASSUME NEW S, NEW s \in Seq(S), NEW out
  PROVE  Converted(s, out) <=> out = OutOf(s, 1, Len(s) + 1) /\ ErrorOf(s, 1, Len(s) + 1) = "none"
<1>1. Len(s) + 1 \in Nat \ {0} /\ Len(s) + 1 >= Len(s)
  BY LenProperties
<1>2. Makings(s, Convert("UTF8", s, Len(s) + 1, TRUE))
  BY <1>1, ConvertIs
<1> QED
  BY <1>2 DEF Makings, Converted

LEMMA ConvertedByAnyRoom ==
  ASSUME NEW S, NEW s \in Seq(S), NEW room \in Nat \ {0}, room >= Len(s), Convert("UTF8", s, room, TRUE).error = "none"
  PROVE  Converted(s, Convert("UTF8", s, room, TRUE).out)
<1>1. Makings(s, Convert("UTF8", s, room, TRUE))
  BY ConvertIs
<1> QED
  BY <1>1, ConvertedIs DEF Makings

LEMMA ConvertedConcat ==
  ASSUME NEW S, NEW x \in Seq(S), NEW y \in Seq(S), NEW u, NEW v, Converted(x, u), Converted(y, v)
  PROVE  Converted(x \o y, u \o v)
<1>0. /\ Len(x) \in Nat /\ Len(y) \in Nat /\ x \o y \in Seq(S) /\ Len(x \o y) = Len(x) + Len(y)
      /\ Len(x) + 1 \in Nat /\ Len(y) + 1 \in Nat /\ Len(x \o y) + 1 \in Nat
  BY LenProperties, ConcatProperties
<1>1. u = OutOf(x, 1, Len(x) + 1) /\ ErrorOf(x, 1, Len(x) + 1) = "none"
  BY ConvertedIs
<1>2. v = OutOf(y, 1, Len(y) + 1) /\ ErrorOf(y, 1, Len(y) + 1) = "none"
  BY ConvertedIs
<1>3. Appended(x \o y, x, y, 1, Len(x) + 1, Len(x \o y) + 1, Len(y) + 1)
  <2>1. /\ 1 \in 1 .. Len(x) + 1 /\ Len(x) + 1 >= Len(x) + 1 - 1 /\ Len(y) + 1 >= Len(y)
        /\ Len(x \o y) + 1 >= Len(x) + Len(y) + 1 - 1
    BY <1>0
  <2> QED
    BY <1>0, <1>1, <2>1, FillAppend
<1>4. u \o v = OutOf(x \o y, 1, Len(x \o y) + 1) /\ ErrorOf(x \o y, 1, Len(x \o y) + 1) = "none"
  BY <1>1, <1>2, <1>3 DEF Appended
<1> QED
  BY <1>0, <1>4, ConvertedIs

LEMMA EmptyConverted == Converted(<<>>, <<>>)
<1>1. PICK e : e = <<>> /\ e \in Seq({}) /\ Len(e) = 0
  BY EmptySeq
<1>2. OutOf(e, 1, Len(e) + 1) = <<>> /\ ErrorOf(e, 1, Len(e) + 1) = "none"
  <2>1. PICK S, i : S = {} /\ i = 1
    OBVIOUS
  <2>2. e \in Seq(S) /\ i \in Nat \ {0} /\ i \in Nat /\ i > Len(e) /\ 1 = i /\ Len(e) + 1 = i
    BY <1>1, <2>1
  <2>3. OutOf(e, i, i) = <<>> /\ ErrorOf(e, i, i) = "none"
    BY <2>2, RoundAtEnd
  <2> QED
    BY <2>2, <2>3
<1> QED
  BY <1>1, <1>2, ConvertedIs

----
(***************************************************************************)
(* Streams arrive whole.  Of the values only the kind matters: a stream    *)
(* parameter that an execution binds is one that the last had bound.       *)
(***************************************************************************)
Fields == {"t", "cp", "s"}
KeepsKinds(v, w) ==
  /\ DOMAIN w = DOMAIN v
  /\ \A p \in DOMAIN v : DOMAIN v[p] = Fields => DOMAIN w[p] = Fields /\ (w[p].t = "stream" => v[p].t = "stream")

(* The encoding that a parameter array asks for does not depend on the value. *)
EncodingOf(u) ==
  IF u.array THEN T!Wanted(u, NullValue, IF u.dir = None THEN "in" ELSE u.dir, ConnEncoding, FALSE).enc
  ELSE ConnEncoding

SourceOK(x) ==
  /\ DOMAIN x = {"text", "read", "eof"} /\ IsText(x.text)
  /\ x.read \in 0 .. Len(x.text) /\ (x.eof => x.read = Len(x.text))

Sources ==
  /\ DOMAIN source = P
  /\ \A p \in P : SourceOK(source[p])
  /\ stmt.current \in {0} \cup P

KindOK(b, v, u) == (b.t # "stream" => v.t # "stream") /\ (b.t = "stream" => b.enc = EncodingOf(u))

Kinds ==
  /\ \A p \in P : DOMAIN var[p] = Fields
  /\ \A p \in DOMAIN driver.bound : KindOK(driver.bound[p], var[p], given[p])
  /\ driver.state # "idle" /\ given # <<>> => DOMAIN driver.bound = P

(* What the driver has of a stream is what has been read of it. *)
SentAs(enc, sent, got) == IF enc = "UTF8" THEN Converted(sent, got) ELSE got = sent
Conveyed(p) == SentAs(Stream(p).enc, SubSeq(TextOf(p), driver.from[p] + 1, source[p].read), driver.got[p])

(* While the driver waits, the streams before the current one are at their  *)
(* end, and so is the current one once the statement has let go of it.      *)
Underway ==
  driver.state \in {"need", "put"} /\ call.phase # "dead" =>
    /\ DOMAIN driver.got = Streams(driver) /\ DOMAIN driver.from = Streams(driver)
    /\ \A p \in Streams(driver) : driver.from[p] \in 0 .. source[p].read /\ Conveyed(p)
    /\ driver.state = "need" => driver.at = 0
    /\ driver.state = "put" => driver.at \in Streams(driver) /\ stmt.current \in {0, driver.at}
    /\ \A p \in Streams(driver) : p <= driver.at /\ p # stmt.current => source[p].read = Len(TextOf(p))

StreamsInv == HeldInv /\ Sources /\ Kinds /\ Underway /\ StreamsWhole

LEMMA KeepsTransitive ==
  ASSUME NEW u, NEW v, NEW w, KeepsKinds(u, v), KeepsKinds(v, w)
  PROVE  KeepsKinds(u, w)
BY DEF KeepsKinds

LEMMA FinalKeepsKind ==
  ASSUME NEW w, NEW o, NEW i, DOMAIN w = Fields
  PROVE  DOMAIN Final(w, o, i).value = Fields /\ (Final(w, o, i).value.t = "stream" => w.t = "stream")
<1>1. DOMAIN NullValue = Fields /\ NullValue.t = "null"
  BY DEF NullValue, Scalar, Fields
<1>2. ASSUME NEW r PROVE Decoded(w, r).value.t = w.t /\ DOMAIN Decoded(w, r).value = Fields
  BY DEF Decoded, Finalized, Stops, Fields
<1>3. /\ DOMAIN FinalString(w, o, i).value = Fields
      /\ FinalString(w, o, i).value.t = "stream" => w.t = "stream"
  BY <1>1, <1>2 DEF FinalString, Finalized, Stops, Fields
<1> QED
  BY <1>1, <1>3 DEF Final, Finalized, Stops, Scalar, Fields

LEMMA FinalizeKeepsKinds ==
  ASSUME NEW due, NEW v, NEW o, NEW i
  PROVE  KeepsKinds(v, FinalizeIf(due, v, o, i).var)
<1> DEFINE done == [p \in DOMAIN o |-> Final(v[p], o[p], i[p])]
           w == UpToFirstStop(v, done).var
<1>1. DOMAIN w = DOMAIN v /\ \A p \in DOMAIN v : w[p] = v[p] \/ (p \in DOMAIN o /\ w[p] = done[p].value)
  BY DEF UpToFirstStop
<1>2. KeepsKinds(v, w)
  <2> SUFFICES ASSUME NEW p \in DOMAIN v, DOMAIN v[p] = Fields
               PROVE  DOMAIN w[p] = Fields /\ (w[p].t = "stream" => v[p].t = "stream")
    BY <1>1 DEF KeepsKinds
  <2>1. CASE w[p] = v[p]
    BY <2>1
  <2>2. CASE p \in DOMAIN o /\ w[p] = done[p].value
    <3>1. w[p] = Final(v[p], o[p], i[p]).value
      BY <2>2
    <3> HIDE DEF w
    <3> QED
      BY <3>1, FinalKeepsKind
  <2> QED
    BY <1>1, <2>1, <2>2
<1>3. KeepsKinds(v, v)
  BY DEF KeepsKinds
<1>4. FinalizeIf(due, v, o, i).var = IF due THEN w ELSE v
  BY DEF FinalizeIf, Finalize
<1> HIDE DEF w
<1> QED
  BY <1>2, <1>3, <1>4

LEMMA FilledKeepsKinds == ASSUME NEW a PROVE KeepsKinds(var, Filled(a))
<1> SUFFICES ASSUME NEW p \in P, DOMAIN var[p] = Fields
             PROVE  DOMAIN Filled(a)[p] = Fields /\ (Filled(a)[p].t = "stream" => var[p].t = "stream")
  BY DEF KeepsKinds, Filled, P
<1>1. ASSUME NEW o, NEW x
      PROVE  /\ DOMAIN Written(var[p], o, x) = Fields
             /\ Written(var[p], o, x).t = "stream" => var[p].t = "stream"
  BY DEF Written, Fields
<1>2. Filled(a)[p] = var[p] \/ Filled(a)[p] = Written(var[p], held.outputs[p], a[p])
  BY DEF Filled
<1> QED
  BY <1>1, <1>2

----
(* Texts and their parts. *)
LEMMA TextIsSeq == ASSUME NEW s, IsText(s) PROVE \E S : s \in Seq(S)
<1>1. Len(s) \in Nat /\ s = [i \in 1 .. Len(s) |-> s[i]]
  BY DEF IsText
<1>2. s \in Seq({s[i] : i \in 1 .. Len(s)})
  BY <1>1
<1> QED
  BY <1>2

LEMMA PartIsSeq ==
  ASSUME NEW S, NEW s \in Seq(S), NEW a \in Nat, NEW b \in Nat, b <= Len(s)
  PROVE  /\ SubSeq(s, a + 1, b) \in Seq(S)
         /\ a <= b => Len(SubSeq(s, a + 1, b)) = b - a
<1>1. \A i \in a + 1 .. b : s[i] \in S
  BY LenProperties, ElementOfSeq
<1> QED
  BY <1>1, SubSeqProperties

LEMMA PartsJoin ==
  ASSUME NEW S, NEW s \in Seq(S), NEW a \in Nat, NEW b \in Nat, NEW c \in Nat, a <= b, b <= c, c <= Len(s)
  PROVE  SubSeq(s, a + 1, b) \o SubSeq(s, b + 1, c) = SubSeq(s, a + 1, c)
<1> DEFINE x == SubSeq(s, a + 1, b)
           y == SubSeq(s, b + 1, c)
           z == SubSeq(s, a + 1, c)
<1>0. Len(s) \in Nat /\ b <= Len(s) /\ a <= c
  BY LenProperties
<1>1. x \in Seq(S) /\ Len(x) = b - a /\ y \in Seq(S) /\ Len(y) = c - b /\ z \in Seq(S) /\ Len(z) = c - a
  BY <1>0, PartIsSeq
<1>2. \A i \in a + 1 .. c : s[i] \in S
  BY <1>0, ElementOfSeq
<1>3. /\ \A i \in 1 .. b - a : x[i] = s[a + i]
      /\ \A i \in 1 .. c - b : y[i] = s[b + i]
      /\ \A i \in 1 .. c - a : z[i] = s[a + i]
  OBVIOUS
<1> HIDE DEF x, y, z
<1>4. x \o y \in Seq(S) /\ Len(x \o y) = c - a
  BY <1>1, ConcatProperties
<1>5. \A i \in 1 .. c - a : (x \o y)[i] = z[i]
  <2> SUFFICES ASSUME NEW i \in 1 .. c - a PROVE (x \o y)[i] = z[i]
    OBVIOUS
  <2>1. (x \o y)[i] = IF i <= Len(x) THEN x[i] ELSE y[i - Len(x)]
    BY <1>1, ConcatProperties
  <2>2. CASE i <= b - a
    BY <1>1, <1>3, <2>1, <2>2
  <2>3. CASE i > b - a
    <3>1. i - (b - a) \in 1 .. c - b /\ b + (i - (b - a)) = a + i
      BY <2>3
    <3> QED
      BY <1>1, <1>3, <2>1, <2>3, <3>1
  <2>4. i <= b - a \/ i > b - a
    OBVIOUS
  <2> QED
    BY <2>2, <2>3, <2>4
<1>6. x \o y = z
  BY <1>1, <1>4, <1>5, SeqEqual
<1> QED
  BY <1>6 DEF x, y, z

----
(* What is put of a packet is what has been read for it.                    *)
LEMMA LeadIsFound ==
  ASSUME NEW S, NEW piece \in Seq(S), HasLead(piece)
  PROVE  Lead(piece) \in 1 .. Len(piece) /\ piece[Lead(piece)] # "m"
<1> DEFINE H == {k \in Nat : \E i \in 1 .. Len(piece) : piece[i] # "m" /\ k = Len(piece) - i}
<1>0. Len(piece) \in Nat /\ DOMAIN piece = 1 .. Len(piece)
  BY LenProperties
<1>1. PICK i \in 1 .. Len(piece) : piece[i] # "m"
  BY <1>0 DEF HasLead
<1>2. Len(piece) - i \in Nat /\ Len(piece) - i \in H
  BY <1>0, <1>1
<1>3. H \in SUBSET Nat /\ H # {}
  BY <1>2
<1>4. PICK k \in H : \A h \in H : k <= h
  <2> HIDE DEF H
  <2>1. IsWellFoundedOn(OpToRel(<, Nat), Nat)
    BY NatLessThanWellFounded
  <2>2. \E x \in H : \A y \in H : ~(<<y, x>> \in OpToRel(<, Nat))
    BY <1>3, <2>1, WFMin
  <2>3. PICK x \in H : \A y \in H : ~(y < x)
    BY <1>3, <2>2 DEF OpToRel
  <2>4. \A y \in H : x <= y
    BY <1>3, <2>3
  <2> QED
    BY <2>4
<1>5. PICK j \in 1 .. Len(piece) : piece[j] # "m" /\ k = Len(piece) - j
  BY <1>4
<1>6. \A h \in j + 1 .. Len(piece) : piece[h] = "m"
  <2> SUFFICES ASSUME NEW h \in j + 1 .. Len(piece), piece[h] # "m" PROVE FALSE
    OBVIOUS
  <2>1. h \in 1 .. Len(piece) /\ Len(piece) - h \in Nat /\ Len(piece) - h < k
    BY <1>0, <1>5
  <2>2. Len(piece) - h \in H
    BY <2>1
  <2>3. k \in Nat
    BY <1>3, <1>4
  <2> HIDE DEF H
  <2>4. k <= Len(piece) - h
    BY <1>4, <2>2
  <2> QED
    BY <2>1, <2>3, <2>4
<1>7. \E l \in DOMAIN piece : piece[l] # "m" /\ \A h \in l + 1 .. Len(piece) : piece[h] = "m"
  BY <1>0, <1>5, <1>6
<1> QED
  BY <1>0, <1>7 DEF Lead

(* A packet read at `at`, of n bytes and k.more to complete a character.    *)
Carried(text, enc, at, n, k) ==
  /\ k.more \in Nat /\ at + n + k.more <= Len(text)
  /\ k.ok => SentAs(enc, SubSeq(text, at + 1, at + n + k.more), k.data)

LEMMA PacketCarries ==
  ASSUME NEW p, SourceOK(source[p]), NEW n \in Nat \ {0}, source[p].read + n <= Len(TextOf(p)),
         NEW k \in Packet(p, n)
  PROVE  Carried(TextOf(p), Stream(p).enc, source[p].read, n, k)
<1> DEFINE at == source[p].read
           text == TextOf(p)
           rest == Len(text) - at - n
           piece == SubSeq(text, at + 1, at + n)
           r == Convert("UTF8", piece, Len(piece) + 1, TRUE)
           more == calc_utf8_missing(piece)
           part == SubSeq(text, at + 1, at + n + more)
           whole == Convert("UTF8", part, n + more, TRUE)
<1>0. /\ Len(text) \in Nat /\ at \in Nat /\ at + n <= Len(text) /\ rest \in Nat
      /\ IsText(text)
  BY DEF SourceOK, IsText, TextOf
<1>1. PICK S : text \in Seq(S)
  BY <1>0, TextIsSeq
<1> SUFFICES Carried(text, Stream(p).enc, at, n, k)
  OBVIOUS
<1> HIDE DEF at, text, rest
<1>2. piece \in Seq(S) /\ Len(piece) = n
  <2>1. at + n \in Nat /\ at <= at + n /\ (at + n) - at = n
    BY <1>0
  <2> QED
    BY <1>0, <1>1, <2>1, PartIsSeq
<1> HIDE DEF piece, r, more, part, whole
<1>3. ASSUME NEW m \in 0 .. rest, k = Refuses(m) PROVE Carried(text, Stream(p).enc, at, n, k)
  <2>1. k.more = m /\ k.ok = FALSE
    BY <1>3 DEF Refuses
  <2>2. m \in Nat /\ at + n + m <= Len(text)
    BY <1>0 DEF rest
  <2> QED
    BY <2>1, <2>2 DEF Carried
<1>4. \/ Stream(p).enc # "UTF8" /\ k = Converts(piece)
      \/ Stream(p).enc = "UTF8" /\ r.error = "none" /\ k = Converts(r.out)
      \/ \E m \in 0 .. rest : k = Refuses(m)
      \/ /\ Stream(p).enc = "UTF8" /\ HasLead(piece) /\ piece[Lead(piece)] \in Leads
         /\ ~(more < 0 \/ more > rest)
         /\ \/ whole.error # "none" /\ k = Refuses(more)
            \/ whole.error = "none" /\ k = [Converts(whole.out) EXCEPT !.more = more]
  <2>1. 0 \in 0 .. rest /\ rest \in 0 .. rest
    BY <1>0
  <2>2. Packet(p, n) =
          CASE Stream(p).enc # "UTF8" -> {Converts(piece)}
            [] Stream(p).enc = "UTF8" /\ r.error = "none" -> {Converts(r.out)}
            [] Stream(p).enc = "UTF8" /\ r.error # "none" /\ ~HasLead(piece) -> {Refuses(m) : m \in 0 .. rest}
            [] Stream(p).enc = "UTF8" /\ r.error # "none" /\ HasLead(piece) ->
                 {IF piece[Lead(piece)] \notin Leads THEN Refuses(0)
                  ELSE IF more < 0 \/ more > rest THEN Refuses(rest)
                  ELSE IF whole.error # "none" THEN Refuses(more)
                  ELSE [Converts(whole.out) EXCEPT !.more = more]}
    BY Zenon DEF Packet, at, rest, piece, r, more, whole, part, text
  <2>3. CASE Stream(p).enc # "UTF8"
    BY <2>2, <2>3
  <2>4. CASE Stream(p).enc = "UTF8" /\ r.error = "none"
    BY <2>2, <2>4
  <2>5. CASE Stream(p).enc = "UTF8" /\ r.error # "none" /\ ~HasLead(piece)
    <3>1. k \in {Refuses(m) : m \in 0 .. rest}
      BY <2>2, <2>5
    <3> QED
      BY <3>1
  <2>6. CASE Stream(p).enc = "UTF8" /\ r.error # "none" /\ HasLead(piece)
    <3>1. k = IF piece[Lead(piece)] \notin Leads THEN Refuses(0)
              ELSE IF more < 0 \/ more > rest THEN Refuses(rest)
              ELSE IF whole.error # "none" THEN Refuses(more)
              ELSE [Converts(whole.out) EXCEPT !.more = more]
      BY <2>2, <2>6
    <3> QED
      BY <2>1, <2>6, <3>1, Zenon
  <2> QED
    BY <2>3, <2>4, <2>5, <2>6
<1>5. CASE Stream(p).enc # "UTF8" /\ k = Converts(piece)
  <2>1. k.more = 0 /\ k.data = piece /\ at + n + 0 = at + n
    BY <1>0, <1>5 DEF Converts
  <2>2. SubSeq(text, at + 1, at + n + k.more) = piece /\ k.more \in Nat /\ at + n + k.more <= Len(text)
    BY <1>0, <2>1 DEF piece
  <2> QED
    BY <1>5, <2>1, <2>2, Zenon DEF Carried, SentAs
<1>6. CASE Stream(p).enc = "UTF8" /\ r.error = "none" /\ k = Converts(r.out)
  <2>1. k.more = 0 /\ k.data = r.out /\ at + n + 0 = at + n
    BY <1>0, <1>6 DEF Converts
  <2>2. Converted(piece, r.out)
    BY <1>6 DEF Converted, r
  <2>3. SubSeq(text, at + 1, at + n + k.more) = piece /\ k.more \in Nat /\ at + n + k.more <= Len(text)
    BY <1>0, <2>1 DEF piece
  <2> QED
    BY <1>6, <2>1, <2>2, <2>3, Zenon DEF Carried, SentAs
<1>7. CASE \E m \in 0 .. rest : k = Refuses(m)
  BY <1>3, <1>7, Zenon
<1>8. CASE /\ Stream(p).enc = "UTF8" /\ HasLead(piece) /\ piece[Lead(piece)] \in Leads
           /\ ~(more < 0 \/ more > rest)
           /\ \/ whole.error # "none" /\ k = Refuses(more)
              \/ whole.error = "none" /\ k = [Converts(whole.out) EXCEPT !.more = more]
  <2>1. more \in 0 .. rest
    <3>1. Lead(piece) \in Nat
      BY <1>2, <1>8, LeadIsFound
    <3>2. CchUtf8CodePt[piece[Lead(piece)]] \in Nat
      BY <1>8 DEF Leads, CchUtf8CodePt
    <3>3. more \in Int
      BY <1>2, <3>1, <3>2 DEF calc_utf8_missing, more
    <3> QED
      BY <1>0, <1>8, <3>3
  <2>2. CASE k = Refuses(more)
    BY <1>3, <2>1, <2>2, Zenon
  <2>3. CASE whole.error = "none" /\ k = [Converts(whole.out) EXCEPT !.more = more]
    <3>1. k.more = more /\ k.data = whole.out
      BY <2>3 DEF Converts
    <3>2. part \in Seq(S) /\ Len(part) = n + more /\ n + more \in Nat \ {0}
      <4>1. /\ at + n + more \in Nat /\ at + n + more <= Len(text) /\ at <= at + n + more
            /\ (at + n + more) - at = n + more
            /\ n + more \in Nat \ {0}
        BY <1>0, <2>1 DEF rest
      <4> QED
        BY <1>0, <1>1, <4>1, PartIsSeq DEF part
    <3>3. Converted(part, whole.out)
      <4>1. n + more >= Len(part)
        BY <3>2
      <4> QED
        BY <2>3, <3>2, <4>1, ConvertedByAnyRoom DEF whole
    <3>4. more \in Nat /\ at + n + more <= Len(text)
      BY <1>0, <2>1 DEF rest
    <3>5. SubSeq(text, at + 1, at + n + k.more) = part /\ k.more \in Nat /\ at + n + k.more <= Len(text)
      BY <3>1, <3>4 DEF part
    <3>6. Converted(part, k.data)
      BY <3>1, <3>3
    <3> QED
      BY <1>8, <3>5, <3>6, Zenon DEF Carried, SentAs
  <2> QED
    BY <1>8, <2>2, <2>3
<1> QED
  BY <1>4, <1>5, <1>6, <1>7, <1>8

----
LEMMA StreamsArePlaces ==
  ASSUME HeldInv, NEW p \in Streams(driver)
  PROVE  p \in P /\ p \in Nat \ {0} /\ p \in DOMAIN driver.bound /\ given # <<>>
BY DEF HeldInv, Arrays, Streams

(* Nothing is read, bound or put, and the driver does not begin. *)
LEMMA Steady ==
  ASSUME StreamsInv, HeldInv', UNCHANGED <<given, source>>, call.phase # "dead", stmt'.current = stmt.current,
         driver'.bound = driver.bound, driver'.got = driver.got, driver'.from = driver.from, driver'.at = driver.at,
         KeepsKinds(var, var'),
         driver'.state \in {driver.state, "idle"} \/ (driver.state = "results" /\ driver'.state = "end")
  PROVE  StreamsInv'
<1>1. P' = P
  BY DEF KeepsKinds, P
<1>2. Sources'
  BY <1>1 DEF StreamsInv, Sources
<1>3. Kinds'
  <2>1. \A p \in P' : DOMAIN var'[p] = Fields
    BY <1>1 DEF StreamsInv, Kinds, KeepsKinds, P
  <2>2. ASSUME NEW p \in DOMAIN driver.bound PROVE KindOK(driver.bound[p], var'[p], given[p])
    <3>1. p \in DOMAIN var /\ DOMAIN var[p] = Fields /\ KindOK(driver.bound[p], var[p], given[p])
      BY DEF StreamsInv, Kinds, HeldInv, Arrays, P
    <3>2. var'[p].t = "stream" => var[p].t = "stream"
      BY <3>1 DEF KeepsKinds
    <3> QED
      BY <3>1, <3>2 DEF KindOK
  <2>3. driver'.state # "idle" => driver.state # "idle"
    OBVIOUS
  <2> QED
    BY <1>1, <2>1, <2>2, <2>3 DEF StreamsInv, Kinds
<1>4. /\ Streams(driver)' = Streams(driver)
      /\ \A p : Conveyed(p)' = Conveyed(p) /\ TextOf(p)' = TextOf(p)
      /\ \A p, f : Recoded16(p, f)' = Recoded16(p, f)
  BY DEF Streams, Conveyed, TextOf, Stream, Recoded16
<1>5. Underway'
  BY <1>4 DEF StreamsInv, Underway
<1>6. StreamsWhole'
  BY <1>4 DEF StreamsInv, StreamsWhole
<1> QED
  BY <1>2, <1>3, <1>5, <1>6 DEF StreamsInv

(* The driver has nothing to do any more, and no more is bound than was. *)
LEMMA Quiet ==
  ASSUME StreamsInv, HeldInv', given' = given, Sources', driver'.state = "idle",
         driver'.bound = driver.bound \/ driver'.bound = <<>>, KeepsKinds(var, var')
  PROVE  StreamsInv'
<1>1. P' = P
  BY DEF KeepsKinds, P
<1>2. Kinds'
  <2>1. \A p \in P' : DOMAIN var'[p] = Fields
    BY <1>1 DEF StreamsInv, Kinds, KeepsKinds, P
  <2>2. ASSUME NEW p \in DOMAIN driver'.bound PROVE KindOK(driver'.bound[p], var'[p], given[p])
    <3>0. driver'.bound = driver.bound
      OBVIOUS
    <3>1. p \in DOMAIN var /\ DOMAIN var[p] = Fields /\ KindOK(driver.bound[p], var[p], given[p])
      BY <3>0 DEF StreamsInv, Kinds, HeldInv, Arrays, P
    <3>2. var'[p].t = "stream" => var[p].t = "stream"
      BY <3>1 DEF KeepsKinds
    <3> QED
      BY <3>0, <3>1, <3>2 DEF KindOK
  <2> QED
    BY <2>1, <2>2 DEF Kinds
<1> QED
  BY <1>2 DEF StreamsInv, Underway, StreamsWhole

(* The driver has executed, and every stream has been put whole. *)
LEMMA Concluded ==
  ASSUME StreamsInv, HeldInv', UNCHANGED <<given, source>>, stmt'.current = stmt.current,
         driver'.bound = driver.bound, driver'.state \in {"results", "end", "idle"}, KeepsKinds(var, var'),
         given # <<>> => DOMAIN driver.bound = P,
         \A p \in Streams(driver) : driver'.got[p] = Recoded16(p, driver'.from[p])
  PROVE  StreamsInv'
<1>1. P' = P
  BY DEF KeepsKinds, P
<1>2. Sources'
  BY <1>1 DEF StreamsInv, Sources
<1>3. Kinds'
  <2>1. \A p \in P' : DOMAIN var'[p] = Fields
    BY <1>1 DEF StreamsInv, Kinds, KeepsKinds, P
  <2>2. ASSUME NEW p \in DOMAIN driver.bound PROVE KindOK(driver.bound[p], var'[p], given[p])
    <3>1. p \in DOMAIN var /\ DOMAIN var[p] = Fields /\ KindOK(driver.bound[p], var[p], given[p])
      BY DEF StreamsInv, Kinds, HeldInv, Arrays, P
    <3>2. var'[p].t = "stream" => var[p].t = "stream"
      BY <3>1 DEF KeepsKinds
    <3> QED
      BY <3>1, <3>2 DEF KindOK
  <2> QED
    BY <1>1, <2>1, <2>2 DEF Kinds
<1>4. Streams(driver)' = Streams(driver) /\ \A p, f : Recoded16(p, f)' = Recoded16(p, f)
  BY DEF Streams, TextOf, Stream, Recoded16
<1> QED
  BY <1>2, <1>3, <1>4 DEF StreamsInv, Underway, StreamsWhole

(* What the handler of core_hdb_execute leaves of a failure. *)
LEMMA Handled ==
  ASSUME NEW v, NEW h, NEW s, NEW d, Fails(v, h, s, d)
  PROVE  /\ stmt' = s /\ KeepsKinds(v, var')
         /\ driver' = d \/ driver' = Cancelled(d)
<1>1. PICK f : /\ f = FinalizeIf(s.atExec, v, h.outputs, d.ind)
               /\ \E r \in {Handler(f, h, s, d)} :
                    var' = r.var /\ held' = r.held /\ driver' = r.driver /\ call' = r.call
               /\ stmt' = s
  BY DEF Fails
<1>2. KeepsKinds(v, f.var)
  BY <1>1, FinalizeKeepsKinds
<1>3. var' = f.var /\ stmt' = s /\ driver' = IF f.result = "ok" /\ s.executed THEN Cancelled(d) ELSE d
  BY <1>1 DEF Handler
<1> QED
  BY <1>2, <1>3

LEMMA NoKindChanges == ASSUME NEW v PROVE KeepsKinds(v, v)
BY DEF KeepsKinds

LEMMA CancelledIs ==
  ASSUME NEW d, DOMAIN d = {"bound", "ind", "state", "left", "at", "got", "from", "told"}
  PROVE  /\ Cancelled(d).state = "idle" /\ Cancelled(d).bound = d.bound /\ Cancelled(d).got = d.got
         /\ Cancelled(d).from = d.from /\ Cancelled(d).at = d.at
BY DEF Cancelled

LEMMA FinishKeepsStreams ==
  ASSUME StreamsInv, HeldInv', NEW d, NEW a, Finish(d, a), UNCHANGED <<given, source>>,
         DOMAIN d = DOMAIN driver, d.bound = driver.bound, d.state \in {"results", "end"},
         given # <<>> => DOMAIN driver.bound = P,
         \A p \in Streams(driver) : d.got[p] = Recoded16(p, d.from[p])
  PROVE  StreamsInv'
<1> DEFINE Outcome(s, e, f) ==
             \/ f.result = "throws" /\ Fails(f.var, held, s, e)
             \/ /\ f.result = "dies"
                /\ var' = f.var /\ driver' = e /\ stmt' = s /\ call' = Dies("output") /\ held' = held
             \/ /\ f.result = "ok"
                /\ var' = f.var /\ driver' = e /\ stmt' = s /\ call' = Returns("true")
                /\ held' = Released(held, s.atExec, s.atExec /\ e.state = "end")
<1>0. \E s \in {[stmt EXCEPT !.executed = TRUE, !.pastEnd = FALSE]},
         v \in {IF d.state = "end" THEN Filled(a) ELSE var},
         e \in {IF d.state = "end" THEN [d EXCEPT !.ind = Lengths(a), !.told = a] ELSE d} :
      \E f \in {FinalizeIf(s.atExec /\ e.state = "end", v, held.outputs, e.ind)} : Outcome(s, e, f)
  BY Zenon DEF Finish
<1> HIDE DEF Outcome
<1>1. PICK s, v, e, due, f :
        /\ s = [stmt EXCEPT !.executed = TRUE, !.pastEnd = FALSE]
        /\ v = IF d.state = "end" THEN Filled(a) ELSE var
        /\ e = IF d.state = "end" THEN [d EXCEPT !.ind = Lengths(a), !.told = a] ELSE d
        /\ f = FinalizeIf(due, v, held.outputs, e.ind)
        /\ Outcome(s, e, f)
  BY <1>0, Zenon
<1>2. s.current = stmt.current
  BY <1>1 DEF StreamsInv, HeldInv, Shape
<1>3. /\ DOMAIN e = DOMAIN driver /\ e.bound = driver.bound /\ e.state = d.state
      /\ e.got = d.got /\ e.from = d.from
  BY <1>1 DEF StreamsInv, HeldInv, Shape
<1>4. KeepsKinds(var, v)
  BY <1>1, FilledKeepsKinds, NoKindChanges
<1>5. KeepsKinds(var, f.var)
  BY <1>1, <1>4, FinalizeKeepsKinds, KeepsTransitive
<1>6. stmt' = s /\ KeepsKinds(var, var') /\ (driver' = e \/ driver' = Cancelled(e))
  <2>1. CASE Fails(f.var, held, s, e)
    BY <1>5, <2>1, Handled, KeepsTransitive
  <2>2. CASE var' = f.var /\ driver' = e /\ stmt' = s
    BY <1>5, <2>2
  <2> QED
    BY <1>1, <2>1, <2>2 DEF Outcome
<1>7. /\ driver'.bound = driver.bound /\ driver'.state \in {"results", "end", "idle"}
      /\ driver'.got = d.got /\ driver'.from = d.from
  <2>1. CASE driver' = e
    BY <1>3, <2>1
  <2>2. CASE driver' = Cancelled(e)
    BY <1>3, <2>2, CancelledIs DEF StreamsInv, HeldInv, Shape
  <2> QED
    BY <1>6, <2>1, <2>2
<1> QED
  BY <1>2, <1>6, <1>7, Concluded

----
(* The calls that neither bind nor send. *)
LEMMA InitStreams == Init => StreamsInv
<1> SUFFICES ASSUME Init PROVE StreamsInv
  OBVIOUS
<1>1. PICK s \in Scripts :
        /\ var = [p \in DOMAIN s |-> s[p].v]
        /\ source = [p \in DOMAIN s |-> [text |-> s[p].v.s, read |-> 0, eof |-> FALSE]]
  BY DEF Init
<1>2. \A p \in DOMAIN s : IsValue(s[p].v)
  BY ParamsAssumption
<1>3. P = DOMAIN s
  BY <1>1 DEF P
<1>4. Sources
  <2>1. ASSUME NEW p \in P PROVE SourceOK(source[p])
    <3>1. source[p] = [text |-> s[p].v.s, read |-> 0, eof |-> FALSE] /\ IsText(s[p].v.s)
      BY <1>1, <1>2, <1>3 DEF IsValue
    <3>2. 0 \in 0 .. Len(s[p].v.s)
      BY <3>1 DEF IsText
    <3> QED
      BY <3>1, <3>2 DEF SourceOK
  <2>2. stmt.current = 0
    BY DEF Init
  <2> QED
    BY <1>1, <1>3, <2>1, <2>2 DEF Sources
<1>5. driver.state = "idle" /\ DOMAIN driver.bound = {}
  BY DEF Init
<1>6. Kinds
  BY <1>1, <1>2, <1>3, <1>5 DEF Kinds, IsValue, Fields
<1> QED
  BY <1>4, <1>5, <1>6, InitInv DEF StreamsInv, Underway, StreamsWhole

LEMMA ExecuteStreams == ASSUME StreamsInv, Execute PROVE StreamsInv'
<1>1. UNCHANGED <<given, var, held, stmt, source, driver>> /\ call.phase # "dead"
  BY DEF Execute
<1>2. HeldInv' /\ KeepsKinds(var, var')
  BY <1>1, ExecuteInv, NoKindChanges DEF StreamsInv
<1> QED
  BY <1>1, <1>2, Steady

LEMMA FlushStreams == ASSUME StreamsInv, Flush PROVE StreamsInv'
<1>1. HeldInv' /\ call.phase # "dead" /\ UNCHANGED <<given, source>>
  BY FlushInv DEF StreamsInv, Flush
<1>2. stmt'.current = stmt.current
  BY DEF Flush, StreamsInv, HeldInv, Shape
<1>3. KeepsKinds(var, var')
  <2>1. var' = var \/ \E a \in AllAnswers : var' = Filled(a)
    BY DEF Flush
  <2> QED
    BY <2>1, FilledKeepsKinds, NoKindChanges
<1>4. /\ driver'.bound = driver.bound /\ driver'.got = driver.got /\ driver'.from = driver.from
      /\ driver'.at = driver.at
      /\ driver'.state = driver.state \/ (driver.state = "results" /\ driver'.state = "end")
  <2>1. \/ driver' = driver
        \/ driver' = [driver EXCEPT !.left = @ - 1]
        \/ driver.state = "results" /\ driver' = [driver EXCEPT !.state = "end", !.left = 0]
    BY DEF Flush
  <2> QED
    BY <2>1 DEF StreamsInv, HeldInv, Shape
<1> QED
  BY <1>1, <1>2, <1>3, <1>4, Steady

LEMMA FreeStreams == ASSUME StreamsInv, Free PROVE StreamsInv'
<1>1. UNCHANGED <<given, var, source, driver>> /\ call.phase # "dead"
  BY DEF Free
<1>2. HeldInv' /\ KeepsKinds(var, var')
  BY <1>1, FreeInv, NoKindChanges DEF StreamsInv
<1>3. stmt'.current = stmt.current
  BY DEF Free, StreamsInv, HeldInv, Shape
<1> QED
  BY <1>1, <1>2, <1>3, Steady

LEMMA CancelStreams == ASSUME StreamsInv, Cancel PROVE StreamsInv'
<1>1. UNCHANGED <<given, var, held, stmt, source>> /\ call.phase # "dead" /\ driver' = Cancelled(driver)
  BY DEF Cancel
<1>2. HeldInv' /\ KeepsKinds(var, var')
  BY <1>1, CancelInv, NoKindChanges DEF StreamsInv
<1>3. /\ driver'.state = "idle" /\ driver'.bound = driver.bound /\ driver'.got = driver.got
      /\ driver'.from = driver.from /\ driver'.at = driver.at
  BY <1>1, CancelledIs DEF StreamsInv, HeldInv, Shape
<1> QED
  BY <1>1, <1>2, <1>3, Steady

LEMMA NextResultStreams == ASSUME StreamsInv, NextResult PROVE StreamsInv'
<1> DEFINE last == driver.state = "results"
           AtEnd(a) == IF last THEN [driver EXCEPT !.ind = Lengths(a), !.told = a, !.state = "end", !.left = 0]
                       ELSE driver
           Outcome(d, f) ==
             /\ var' = f.var
             /\ driver' = IF f.result = "throws" THEN Cancelled(d) ELSE d
             /\ held' = IF f.result = "ok" THEN [held EXCEPT !.outputs = <<>>] ELSE held
             /\ stmt' = IF f.result = "ok" THEN [stmt EXCEPT !.pastEnd = TRUE] ELSE stmt
             /\ call' = CASE f.result = "ok" -> Returns("null")
                          [] f.result = "throws" -> Returns("false")
                          [] OTHER -> Dies("output")
<1>1. HeldInv' /\ call.phase # "dead" /\ UNCHANGED <<given, source>>
  BY NextResultInv DEF StreamsInv, NextResult
<1>2. \/ driver' = Cancelled(driver) /\ UNCHANGED <<var, stmt>>
      \/ driver' = [driver EXCEPT !.left = @ - 1] /\ UNCHANGED <<var, stmt>>
      \/ \E a \in IF last THEN AllAnswers ELSE {driver.told} :
           \E d \in {AtEnd(a)} :
           \E f \in {Finalize(IF last THEN Filled(a) ELSE var, held.outputs, d.ind)} : Outcome(d, f)
  BY Zenon DEF NextResult
<1> HIDE DEF Outcome, last
<1>3. CASE driver' = Cancelled(driver) /\ UNCHANGED <<var, stmt>>
  <2>1. /\ driver'.state = "idle" /\ driver'.bound = driver.bound /\ driver'.got = driver.got
        /\ driver'.from = driver.from /\ driver'.at = driver.at
    BY <1>3, CancelledIs DEF StreamsInv, HeldInv, Shape
  <2> QED
    BY <1>1, <1>3, <2>1, Steady, NoKindChanges
<1>4. CASE driver' = [driver EXCEPT !.left = @ - 1] /\ UNCHANGED <<var, stmt>>
  <2>1. /\ driver'.state = driver.state /\ driver'.bound = driver.bound /\ driver'.got = driver.got
        /\ driver'.from = driver.from /\ driver'.at = driver.at
    BY <1>4 DEF StreamsInv, HeldInv, Shape
  <2> QED
    BY <1>1, <1>4, <2>1, Steady, NoKindChanges
<1>5. CASE \E a \in IF last THEN AllAnswers ELSE {driver.told} :
             \E d \in {AtEnd(a)} :
             \E f \in {Finalize(IF last THEN Filled(a) ELSE var, held.outputs, d.ind)} : Outcome(d, f)
  <2> HIDE DEF AtEnd
  <2>1. PICK a, d, v, f : /\ d = AtEnd(a) /\ v = (IF last THEN Filled(a) ELSE var)
                          /\ f = Finalize(v, held.outputs, d.ind) /\ Outcome(d, f)
    BY <1>5, Zenon
  <2>2. KeepsKinds(var, f.var)
    <3>1. KeepsKinds(var, v)
      BY <2>1, FilledKeepsKinds, NoKindChanges
    <3>2. f = FinalizeIf(TRUE, v, held.outputs, d.ind)
      BY <2>1 DEF FinalizeIf
    <3> QED
      BY <3>1, <3>2, FinalizeKeepsKinds, KeepsTransitive
  <2>3. /\ DOMAIN d = DOMAIN driver /\ d.bound = driver.bound /\ d.got = driver.got /\ d.from = driver.from
        /\ d.at = driver.at
        /\ d.state = driver.state \/ (driver.state = "results" /\ d.state = "end")
    <3>1. CASE last
      BY <2>1, <3>1 DEF AtEnd, StreamsInv, HeldInv, Shape, last
    <3>2. CASE ~last
      BY <2>1, <3>2 DEF AtEnd
    <3> QED
      BY <3>1, <3>2
  <2>4. var' = f.var /\ stmt'.current = stmt.current /\ (driver' = d \/ driver' = Cancelled(d))
    BY <2>1 DEF Outcome, StreamsInv, HeldInv, Shape
  <2>5. /\ driver'.bound = driver.bound /\ driver'.got = driver.got /\ driver'.from = driver.from
        /\ driver'.at = driver.at
        /\ driver'.state \in {driver.state, "idle"} \/ (driver.state = "results" /\ driver'.state = "end")
    <3>1. /\ Cancelled(d).bound = d.bound /\ Cancelled(d).got = d.got /\ Cancelled(d).from = d.from
          /\ Cancelled(d).at = d.at /\ Cancelled(d).state = "idle"
      BY <2>3, CancelledIs DEF StreamsInv, HeldInv, Shape
    <3>2. CASE driver' = d
      BY <2>3, <3>2
    <3>3. CASE driver' = Cancelled(d)
      <4>1. driver'.state = "idle"
        BY <3>1, <3>3
      <4>2. /\ driver'.bound = d.bound /\ driver'.got = d.got /\ driver'.from = d.from /\ driver'.at = d.at
        BY <3>1, <3>3
      <4> QED
        BY <2>3, <4>1, <4>2
    <3> QED
      BY <2>4, <3>2, <3>3
  <2> QED
    BY <1>1, <2>2, <2>4, <2>5, Steady
<1> QED
  BY <1>2, <1>3, <1>4, <1>5


----
(* Binding: an execution binds as a stream only what the last one bound so. *)
LEMMA ParsedEncoding ==
  ASSUME NEW p, Parse(p).error = None
  PROVE  Parse(p).enc = EncodingOf(given[p])
<1> DEFINE u == given[p]
           dir == IF u.dir = None THEN "in" ELSE u.dir
           want(v) == T!Wanted(u, v, dir, ConnEncoding, FALSE)
<1>1. want(var[p]).enc = want(NullValue).enc
  BY DEF T!Wanted, T!PhpType
<1> HIDE DEF want
<1>2. CASE ~u.array
  BY <1>2, Zenon DEF Parse, EncodingOf, T!Parsed
<1>3. CASE u.array
  <2>1. Parse(p) = T!parse_param_array(u, var[p], ConnEncoding, FALSE)
    BY <1>3, Zenon DEF Parse
  <2>2. \/ \E why : why # None /\ Parse(p) = T!Refuse(why)
        \/ Parse(p).enc = want(var[p]).enc
    <3> DEFINE r == want(var[p])
               q == T!determine_column_size_or_precision(u.sql)
               e1 == T!DirectionError(u)
               e2 == T!SqlTypeError(u)
    <3>1. Parse(p) =
            CASE e1 # None -> T!Refuse(e1)
              [] u.php.type # None /\ ~T!is_valid_hdb_phptype(u.php) -> T!Refuse("phptype")
              [] e2 # None -> T!Refuse(e2)
              [] dir = "out" /\ r.type \in {"NULL", "DATETIME", "STREAM"} -> T!Refuse("output type")
              [] OTHER -> IF u.sql.type = None THEN T!Parsed(dir, r.type, r.enc, None, 0, 0)
                          ELSE T!Parsed(dir, r.type, r.enc, u.sql.type, q.size, q.digits)
      BY <2>1 DEF T!parse_param_array, want, None, T!None
    <3> HIDE DEF r, q, e1, e2
    <3>2. "phptype" # None /\ "output type" # None
      BY DEF None
    <3>3. (\E why : why # None /\ Parse(p) = T!Refuse(why)) \/ Parse(p).enc = r.enc
      <4> HIDE DEF dir, u
      <4>1. \/ e1 # None /\ Parse(p) = T!Refuse(e1)
            \/ Parse(p) = T!Refuse("phptype")
            \/ e2 # None /\ Parse(p) = T!Refuse(e2)
            \/ Parse(p) = T!Refuse("output type")
            \/ Parse(p) = IF u.sql.type = None THEN T!Parsed(dir, r.type, r.enc, None, 0, 0)
                          ELSE T!Parsed(dir, r.type, r.enc, u.sql.type, q.size, q.digits)
        BY <3>1, Zenon
      <4>2. ASSUME Parse(p) = IF u.sql.type = None THEN T!Parsed(dir, r.type, r.enc, None, 0, 0)
                              ELSE T!Parsed(dir, r.type, r.enc, u.sql.type, q.size, q.digits)
            PROVE  Parse(p).enc = r.enc
        <5>1. \/ Parse(p) = T!Parsed(dir, r.type, r.enc, None, 0, 0)
              \/ Parse(p) = T!Parsed(dir, r.type, r.enc, u.sql.type, q.size, q.digits)
          BY <4>2, Zenon
        <5>2. T!Parsed(dir, r.type, r.enc, None, 0, 0).enc = r.enc
          BY DEF T!Parsed
        <5>3. T!Parsed(dir, r.type, r.enc, u.sql.type, q.size, q.digits).enc = r.enc
          BY DEF T!Parsed
        <5> QED
          BY <5>1, <5>2, <5>3
      <4> QED
        BY <3>2, <4>1, <4>2, Zenon
    <3> QED
      BY <3>3 DEF r
  <2>3. ASSUME NEW why, why # None PROVE T!Refuse(why).error # None
    BY <2>3 DEF T!Refuse, T!Parsed
  <2>4. Parse(p).enc = want(NullValue).enc
    BY <1>1, <2>2, <2>3, Zenon
  <2> QED
    BY <1>3, <2>4, Zenon DEF EncodingOf, want
<1> QED
  BY <1>2, <1>3

LEMMA CoercedKind ==
  ASSUME NEW q, NEW v, DOMAIN v = Fields
  PROVE  DOMAIN Coerced(q, v) = Fields /\ (Coerced(q, v).t = "stream" => v.t = "stream")
<1>1. DOMAIN Long(v) = Fields /\ (Long(v).t = "stream" => v.t = "stream")
  BY DEF Long, Scalar, Fields
<1>2. DOMAIN Double(v) = Fields /\ (Double(v).t = "stream" => v.t = "stream")
  BY DEF Double, Scalar, Fields
<1>3. DOMAIN Text(v) = Fields /\ (Text(v).t = "stream" => v.t = "stream")
  BY DEF Text, Fields
<1> QED
  BY <1>1, <1>2, <1>3, Zenon DEF Coerced

LEMMA StoredKind ==
  ASSUME NEW q, NEW w, DOMAIN w = Fields
  PROVE  LET v == IF w.t = "bool" THEN Long(w) ELSE Buffer(q, w)
         IN  DOMAIN v = Fields /\ (v.t = "stream" => w.t = "stream")
BY DEF Long, Scalar, Buffer, Fields

LEMMA BindStreams == ASSUME StreamsInv, Bind PROVE StreamsInv'
<1> DEFINE Outcome(p, q, w) ==
             IF q.error # None THEN BindFails(FALSE) /\ UNCHANGED var
             ELSE IF BindDies(q, w) # None
             THEN call' = Dies(BindDies(q, w)) /\ UNCHANGED <<given, var, held, driver>>
             ELSE IF BindError(q, w) # None
             THEN BindFails(TRUE) /\ var' = [var EXCEPT ![p] = w]
             ELSE /\ var' = [var EXCEPT ![p] = IF w.t = "bool" THEN Long(w) ELSE Buffer(q, w)]
                  /\ held' = Kept(held, p, q, var[p], w)
                  /\ driver' = [driver EXCEPT
                       !.bound = With(@, p, [dir |-> q.dir, enc |-> q.enc, t |-> w.t, bool |-> var[p].t = "bool",
                                             sent |-> Sent(q, w)]),
                       !.ind = With(@, p, Length(q, var[p], w))]
                  /\ call' = IF p = Len(given) THEN [call EXCEPT !.phase = "run"] ELSE [call EXCEPT !.next = p + 1]
                  /\ UNCHANGED given
<1>0. \E p \in {call.next} : \E q \in {Parse(p)} : \E w \in {Coerced(q, var[p])} : Outcome(p, q, w)
  BY Zenon DEF Bind
<1> HIDE DEF Outcome
<1>1. PICK p, q, w : p = call.next /\ q = Parse(p) /\ w = Coerced(q, var[p]) /\ Outcome(p, q, w)
  BY <1>0
<1>2. /\ call.phase = "bind" /\ UNCHANGED <<stmt, source>> /\ driver.state \in {"idle", "end"}
      /\ given # <<>> /\ p \in P /\ HeldInv'
  <2>1. call.phase = "bind" /\ UNCHANGED <<stmt, source>> /\ HeldInv'
    BY BindInv DEF Bind, StreamsInv
  <2>2. driver.state \in {"idle", "end"} /\ given # <<>> /\ p \in P
    BY <1>1, <2>1 DEF StreamsInv, HeldInv, Shape, States, Waiting, Busy, Binding, Arrays
  <2> QED
    BY <2>1, <2>2
<1>3. DOMAIN w = Fields /\ (w.t = "stream" => var[p].t = "stream")
  <2>1. DOMAIN var[p] = Fields
    BY <1>2 DEF StreamsInv, Kinds
  <2> QED
    BY <1>1, <2>1, CoercedKind
<1>4. ASSUME NEW freed, BindFails(freed), var' = var \/ var' = [var EXCEPT ![p] = w]
      PROVE  StreamsInv'
  <2>1. P' = P /\ \A x \in P : DOMAIN var'[x] = Fields
    BY <1>3, <1>4 DEF P, StreamsInv, Kinds
  <2>2. Sources'
    BY <1>2, <2>1 DEF StreamsInv, Sources
  <2>3. given' = <<>> /\ driver'.bound = <<>> /\ driver'.state = driver.state
    BY <1>4 DEF BindFails, Reset, StreamsInv, HeldInv, Shape
  <2>4. DOMAIN driver'.bound = {} /\ Streams(driver)' = {}
    BY <2>3 DEF Streams
  <2> QED
    BY <1>2, <2>1, <2>2, <2>3, <2>4 DEF StreamsInv, Kinds, Underway, StreamsWhole
<1>5. CASE q.error # None
  <2>1. BindFails(FALSE) /\ var' = var
    BY <1>1, <1>5, Zenon DEF Outcome
  <2> QED
    BY <1>4, <2>1
<1>6. CASE q.error = None /\ BindDies(q, w) # None
  <2>1. UNCHANGED <<given, var, held, driver>>
    BY <1>1, <1>6 DEF Outcome
  <2> QED
    BY <1>2, <2>1, Steady, NoKindChanges
<1>7. CASE q.error = None /\ BindDies(q, w) = None /\ BindError(q, w) # None
  <2>1. BindFails(TRUE) /\ var' = [var EXCEPT ![p] = w]
    BY <1>1, <1>7, Zenon DEF Outcome
  <2> QED
    BY <1>4, <2>1
<1>8. CASE q.error = None /\ BindDies(q, w) = None /\ BindError(q, w) = None
  <2> DEFINE b == [dir |-> q.dir, enc |-> q.enc, t |-> w.t, bool |-> var[p].t = "bool", sent |-> Sent(q, w)]
             bound == With(driver.bound, p, b)
             v == IF w.t = "bool" THEN Long(w) ELSE Buffer(q, w)
  <2>1. /\ var' = [var EXCEPT ![p] = v] /\ given' = given
        /\ driver' = [driver EXCEPT !.bound = bound, !.ind = With(driver.ind, p, Length(q, var[p], w))]
    BY <1>1, <1>8 DEF Outcome, StreamsInv, HeldInv, Shape
  <2>2. /\ b.enc = q.enc /\ b.t = w.t /\ DOMAIN bound = DOMAIN driver.bound \cup {p}
        /\ \A x \in DOMAIN bound : bound[x] = IF x = p THEN b ELSE driver.bound[x]
    BY DEF With
  <2>3. DOMAIN v = Fields /\ (v.t = "stream" => w.t = "stream")
    BY <1>3, StoredKind
  <2> HIDE DEF b, bound, v
  <2>4. driver'.bound = bound /\ driver'.state = driver.state /\ driver'.got = driver.got /\ driver'.from = driver.from
    BY <2>1 DEF StreamsInv, HeldInv, Shape
  <2>5. /\ P' = P /\ DOMAIN var' = DOMAIN var
        /\ \A x \in P : var'[x] = IF x = p THEN v ELSE var[x]
    BY <2>1 DEF P
  <2>6. q.enc = EncodingOf(given[p])
    BY <1>1, <1>8, ParsedEncoding
  <2>7. Sources'
    BY <1>2, <2>5 DEF StreamsInv, Sources
  <2>8. KindOK(b, v, given[p])
    BY <2>2, <2>3, <2>6 DEF KindOK
  <2>9. Kinds'
    <3>1. \A x \in P' : DOMAIN var'[x] = Fields
      BY <2>3, <2>5 DEF StreamsInv, Kinds
    <3>2. ASSUME NEW x \in DOMAIN bound PROVE KindOK(bound[x], var'[x], given[x])
      <4>1. CASE x = p
        BY <1>2, <2>2, <2>5, <2>8, <4>1
      <4>2. CASE x # p
        <5>1. x \in DOMAIN driver.bound /\ x \in P
          BY <2>2, <4>2 DEF StreamsInv, HeldInv, Arrays
        <5> QED
          BY <2>2, <2>5, <4>2, <5>1 DEF StreamsInv, Kinds
      <4> QED
        BY <4>1, <4>2
    <3>3. driver'.state # "idle" => DOMAIN bound = P'
      BY <1>2, <2>2, <2>4, <2>5 DEF StreamsInv, Kinds
    <3> QED
      BY <2>1, <2>4, <3>1, <3>2, <3>3 DEF Kinds
  <2>10. StreamsWhole'
    <3> SUFFICES ASSUME driver.state = "end", NEW x \in Streams(driver)'
                 PROVE  driver'.got[x] = Recoded16(x, driver.from[x])'
      BY <1>2, <2>4 DEF StreamsWhole
    <3>1. x \in DOMAIN bound /\ bound[x].t = "stream"
      BY <2>4 DEF Streams
    <3>2. x \in Streams(driver) /\ bound[x].enc = driver.bound[x].enc
      <4>1. CASE x = p
        <5>1. p \in DOMAIN driver.bound
          BY <1>2 DEF StreamsInv, Kinds
        <5>2. var[p].t = "stream" /\ bound[p] = b
          BY <1>3, <2>2, <3>1, <4>1
        <5>3. driver.bound[p].t = "stream" /\ driver.bound[p].enc = EncodingOf(given[p])
          BY <5>1, <5>2 DEF StreamsInv, Kinds, KindOK
        <5> QED
          BY <2>2, <2>6, <4>1, <5>1, <5>2, <5>3 DEF Streams
      <4>2. CASE x # p
        BY <2>2, <3>1, <4>2 DEF Streams
      <4> QED
        BY <4>1, <4>2
    <3>3. driver.got[x] = Recoded16(x, driver.from[x])
      BY <3>2 DEF StreamsInv, StreamsWhole
    <3>4. Recoded16(x, driver.from[x])' = Recoded16(x, driver.from[x])
      BY <1>2, <2>4, <3>2 DEF Recoded16, TextOf, Stream
    <3> QED
      BY <2>4, <3>3, <3>4
  <2>11. Underway'
    BY <1>2, <2>4 DEF Underway
  <2> QED
    BY <1>2, <2>7, <2>9, <2>10, <2>11 DEF StreamsInv
<1> QED
  BY <1>5, <1>6, <1>7, <1>8

(* The execution begins with every stream where it stands.                  *)
LEMMA NothingSent ==
  ASSUME NEW x, SourceOK(x)
  PROVE  SubSeq(x.text, x.read + 1, x.read) = <<>>
<1>1. PICK S : x.text \in Seq(S)
  BY TextIsSeq DEF SourceOK
<1>2. x.read \in Nat /\ x.read <= Len(x.text)
  BY <1>1, LenProperties DEF SourceOK
<1>3. SubSeq(x.text, x.read + 1, x.read) \in Seq(S) /\ Len(SubSeq(x.text, x.read + 1, x.read)) = 0
  BY <1>1, <1>2, PartIsSeq
<1> QED
  BY <1>3, EmptySeq

LEMMA RunStreams == ASSUME StreamsInv, Run PROVE StreamsInv'
<1> DEFINE d == [driver EXCEPT !.got = [p \in Streams(driver) |-> <<>>], !.told = <<>>,
                               !.from = [p \in Streams(driver) |-> source[p].read]]
<1>1. HeldInv' /\ UNCHANGED <<given, source>> /\ call.phase = "run"
  BY RunInv DEF Run, StreamsInv
<1>2. /\ DOMAIN d = DOMAIN driver /\ d.bound = driver.bound /\ d.got = [p \in Streams(driver) |-> <<>>]
      /\ d.from = [p \in Streams(driver) |-> source[p].read]
  BY DEF StreamsInv, HeldInv, Shape
<1>3. \/ Fails(var, held, stmt, [d EXCEPT !.state = "idle"])
      \/ /\ DOMAIN driver.bound = P /\ Streams(d) = {}
         /\ \E n \in 0 .. MaxResults : \E a \in AllAnswers : Finish(Ran(d, n), a)
      \/ /\ DOMAIN driver.bound = P /\ driver' = [d EXCEPT !.state = "need", !.at = 0] /\ UNCHANGED <<var, held>>
         /\ \/ call' = [call EXCEPT !.phase = "send"] /\ UNCHANGED stmt
            \/ call' = Returns("true") /\ stmt' = [stmt EXCEPT !.executed = TRUE, !.pastEnd = FALSE]
  BY Zenon DEF Run
<1> HIDE DEF d
<1>4. ASSUME KeepsKinds(var, var'), stmt'.current = stmt.current PROVE Sources'
  BY <1>1, <1>4 DEF StreamsInv, Sources, KeepsKinds, P
<1>5. CASE Fails(var, held, stmt, [d EXCEPT !.state = "idle"])
  <2> DEFINE e == [d EXCEPT !.state = "idle"]
  <2>1. DOMAIN e = DOMAIN driver /\ e.bound = driver.bound /\ e.state = "idle"
    BY <1>2 DEF StreamsInv, HeldInv, Shape
  <2>2. Fails(var, held, stmt, e)
    BY <1>5
  <2> HIDE DEF e
  <2>3. stmt' = stmt /\ KeepsKinds(var, var') /\ (driver' = e \/ driver' = Cancelled(e))
    BY <2>2, Handled
  <2>4. driver'.state = "idle" /\ driver'.bound = driver.bound
    BY <2>1, <2>3, CancelledIs DEF StreamsInv, HeldInv, Shape
  <2> QED
    BY <1>1, <1>4, <2>3, <2>4, Quiet
<1>6. CASE /\ DOMAIN driver.bound = P /\ Streams(d) = {}
           /\ \E n \in 0 .. MaxResults : \E a \in AllAnswers : Finish(Ran(d, n), a)
  <2>1. PICK n \in Nat : \E a \in AllAnswers : Finish(Ran(d, n), a)
    BY <1>6, ParamsAssumption
  <2>2. PICK a \in AllAnswers : Finish(Ran(d, n), a)
    BY <2>1
  <2> DEFINE e == Ran(d, n)
  <2>3. DOMAIN e = DOMAIN driver /\ e.bound = driver.bound /\ e.state \in {"results", "end"}
    BY <1>2, RanState DEF StreamsInv, HeldInv, Shape
  <2>4. Finish(e, a)
    BY <2>2
  <2> HIDE DEF e
  <2>5. Streams(driver) = {}
    BY <1>2, <1>6 DEF Streams
  <2> QED
    BY <1>1, <1>6, <2>3, <2>4, <2>5, FinishKeepsStreams
<1>7. CASE /\ DOMAIN driver.bound = P /\ driver' = [d EXCEPT !.state = "need", !.at = 0] /\ UNCHANGED <<var, held>>
           /\ \/ call' = [call EXCEPT !.phase = "send"] /\ UNCHANGED stmt
              \/ call' = Returns("true") /\ stmt' = [stmt EXCEPT !.executed = TRUE, !.pastEnd = FALSE]
  <2>1. /\ driver'.bound = driver.bound /\ driver'.state = "need" /\ driver'.at = 0
        /\ driver'.got = d.got /\ driver'.from = d.from
    BY <1>2, <1>7 DEF StreamsInv, HeldInv, Shape
  <2>2. Sources'
    <3>1. stmt'.current = stmt.current
      BY <1>7 DEF StreamsInv, HeldInv, Shape
    <3> QED
      BY <1>4, <1>7, <3>1, NoKindChanges
  <2>3. Kinds'
    BY <1>1, <1>7, <2>1 DEF StreamsInv, Kinds, P
  <2>4. Streams(driver)' = Streams(driver)
    BY <2>1 DEF Streams
  <2>5. ASSUME NEW p \in Streams(driver)
        PROVE  /\ driver'.from[p] \in 0 .. source[p].read /\ Conveyed(p)'
               /\ ~(p <= 0)
    <3>1. p \in P /\ p \in Nat \ {0} /\ SourceOK(source[p])
      BY StreamsArePlaces DEF StreamsInv, Sources
    <3>2. driver'.from[p] = source[p].read /\ driver'.got[p] = <<>>
      BY <1>2, <2>1
    <3>3. source[p].read \in Nat
      BY <3>1 DEF SourceOK
    <3>4. SubSeq(source'[p].text, driver'.from[p] + 1, source'[p].read) = <<>>
      BY <1>1, <3>1, <3>2, NothingSent
    <3>5. Conveyed(p)'
      BY <3>2, <3>4, EmptyConverted DEF Conveyed, SentAs, TextOf
    <3> QED
      BY <3>1, <3>2, <3>3, <3>5
  <2>6. Underway'
    BY <1>1, <1>2, <2>1, <2>4, <2>5 DEF Underway
  <2>7. StreamsWhole'
    BY <2>1 DEF StreamsWhole
  <2> QED
    BY <1>1, <2>2, <2>3, <2>6, <2>7 DEF StreamsInv
<1> QED
  BY <1>3, <1>5, <1>6, <1>7


----
(* Sending.  A failure lets go of everything that is bound. *)
LEMMA SendFailsStreams ==
  ASSUME StreamsInv, HeldInv', SendFails, given' = given,
         DOMAIN source' = DOMAIN source, \A x \in P : SourceOK(source'[x])
  PROVE  StreamsInv'
<1> DEFINE s == [stmt EXCEPT !.current = 0, !.read = 0]
           d == Cancelled(Reset(driver))
<1>1. s.current = 0 /\ d.bound = <<>> /\ d.state = "idle" /\ DOMAIN d = DOMAIN driver
  BY DEF StreamsInv, HeldInv, Shape, Cancelled, Reset
<1>2. Fails(var, NoHeld, s, d) \/ (driver' = d /\ stmt' = s /\ UNCHANGED var)
  BY DEF SendFails
<1> HIDE DEF s, d
<1>3. stmt' = s /\ KeepsKinds(var, var') /\ (driver' = d \/ driver' = Cancelled(d))
  BY <1>2, Handled, NoKindChanges
<1>4. driver'.bound = <<>> /\ driver'.state = "idle"
  BY <1>1, <1>3, CancelledIs DEF StreamsInv, HeldInv, Shape
<1>5. Sources'
  BY <1>1, <1>3 DEF StreamsInv, Sources, KeepsKinds, P
<1> QED
  BY <1>3, <1>4, <1>5, Quiet

LEMMA ParamDataFailsStreams ==
  ASSUME StreamsInv, HeldInv', ParamDataFails, UNCHANGED <<given, source>>, call.phase # "dead"
  PROVE  StreamsInv'
<1>1. CASE call.phase = "send"
  <2> DEFINE d == [driver EXCEPT !.state = "idle"]
  <2>1. /\ DOMAIN d = DOMAIN driver /\ d.bound = driver.bound /\ d.got = driver.got /\ d.from = driver.from
        /\ d.at = driver.at /\ d.state = "idle"
    BY DEF StreamsInv, HeldInv, Shape
  <2>2. Fails(var, held, stmt, d)
    BY <1>1 DEF ParamDataFails
  <2> HIDE DEF d
  <2>3. stmt' = stmt /\ KeepsKinds(var, var') /\ (driver' = d \/ driver' = Cancelled(d))
    BY <2>2, Handled
  <2>4. /\ driver'.bound = driver.bound /\ driver'.got = driver.got /\ driver'.from = driver.from
        /\ driver'.at = driver.at /\ driver'.state = "idle"
    BY <2>1, <2>3, CancelledIs DEF StreamsInv, HeldInv, Shape
  <2> QED
    BY <2>3, <2>4, Steady
<1>2. CASE call.phase # "send"
  <2>1. /\ UNCHANGED <<var, stmt>>
        /\ driver' = driver \/ driver' = [driver EXCEPT !.state = "idle"]
    BY <1>2 DEF ParamDataFails
  <2>2. /\ driver'.bound = driver.bound /\ driver'.got = driver.got /\ driver'.from = driver.from
        /\ driver'.at = driver.at
        /\ driver'.state \in {driver.state, "idle"}
    BY <2>1 DEF StreamsInv, HeldInv, Shape
  <2> QED
    BY <2>1, <2>2, Steady, NoKindChanges
<1> QED
  BY <1>1, <1>2

(* Every stream that the driver does not ask for any more is at its end.    *)
LEMMA AskedForAre ==
  ASSUME StreamsInv, driver.state \in {"need", "put"}, call.phase # "dead", stmt.current = 0,
         NEW p \in Streams(driver), p \notin Rest(driver)
  PROVE  source[p].read = Len(TextOf(p))
<1>1. p \in Nat \ {0}
  BY StreamsArePlaces DEF StreamsInv
<1>2. driver.at \in Nat
  <2>1. driver.at = 0 \/ driver.at \in Streams(driver)
    BY DEF StreamsInv, Underway
  <2> QED
    BY <2>1, StreamsArePlaces DEF StreamsInv
<1>3. p <= driver.at /\ p # stmt.current
  BY <1>1, <1>2 DEF Rest
<1> QED
  BY <1>3 DEF StreamsInv, Underway

LEMMA NextStreamStreams == ASSUME StreamsInv, NextStream PROVE StreamsInv'
<1>1. /\ HeldInv' /\ call.phase \in {"send", "idle"} /\ UNCHANGED <<given, source>> /\ stmt.current = 0
  BY NextStreamInv DEF NextStream, Sending, StreamsInv
<1> DEFINE rest == Rest(driver)
           Asks == /\ driver.state \in {"need", "put"} /\ rest # {}
                   /\ IF Min(rest) \notin held.streams THEN call' = Dies("lost stream") /\ UNCHANGED <<stmt, driver>>
                      ELSE /\ stmt' = [stmt EXCEPT !.current = Min(rest), !.read = 0]
                           /\ driver' = [driver EXCEPT !.state = "put", !.at = Min(rest)]
                           /\ call' = IF call.phase = "send" THEN call ELSE [call EXCEPT !.phase = "packet"]
                   /\ UNCHANGED <<var, held>>
           Ends(n, a) ==
                   IF call.phase = "send" THEN Finish(Ran(driver, n), a)
                   ELSE /\ driver' = [Ran(driver, n) EXCEPT !.ind = IF n = 0 THEN Lengths(a) ELSE @,
                                                            !.told = IF n = 0 THEN a ELSE @]
                        /\ var' = IF n = 0 THEN Filled(a) ELSE var
                        /\ call' = Returns("null")
                        /\ UNCHANGED <<held, stmt>>
<1>2. \/ ParamDataFails
      \/ Asks
      \/ /\ driver.state \in {"need", "put"} /\ rest = {}
         /\ \E n \in 0 .. MaxResults : \E a \in AllAnswers : Ends(n, a)
  BY Zenon DEF NextStream
<1>3. CASE ParamDataFails
  BY <1>1, <1>3, ParamDataFailsStreams
<1>4. CASE Asks
  <2>1. rest # {} /\ driver.state \in {"need", "put"} /\ var' = var /\ Min(rest) \in held.streams
    BY <1>4, NextIsHeld DEF StreamsInv
  <2>2. /\ stmt' = [stmt EXCEPT !.current = Min(rest), !.read = 0]
        /\ driver' = [driver EXCEPT !.state = "put", !.at = Min(rest)]
    BY <1>4, <2>1
  <2>3. rest \subseteq Streams(driver) /\ \A x \in Streams(driver) : x \in P /\ x \in Nat \ {0}
    BY StreamsArePlaces DEF Rest, StreamsInv
  <2>4. Min(rest) \in rest /\ \A y \in rest : Min(rest) <= y
    <3>1. rest \in SUBSET Nat
      BY <2>3
    <3> HIDE DEF rest
    <3> QED
      BY <2>1, <3>1, MinIsLeast
  <2>5. \A x \in Streams(driver) : x \notin rest => source[x].read = Len(TextOf(x))
    BY <1>1, <2>1, AskedForAre
  <2> HIDE DEF rest, Asks, Ends
  <2> DEFINE m == Min(rest)
  <2>6. /\ stmt'.current = m /\ driver'.at = m /\ driver'.state = "put" /\ driver'.bound = driver.bound
        /\ driver'.got = driver.got /\ driver'.from = driver.from
    BY <2>2 DEF StreamsInv, HeldInv, Shape
  <2>7. m \in Streams(driver) /\ m \in P /\ m \in Nat
    BY <2>3, <2>4
  <2>8. \A x \in Streams(driver) : x <= m /\ x # m => source[x].read = Len(TextOf(x))
    <3> SUFFICES ASSUME NEW x \in Streams(driver), x <= m, x # m PROVE x \notin rest
      BY <2>5
    <3>1. x \in Nat
      BY <2>3
    <3> HIDE DEF m
    <3>2. ~(m <= x)
      BY <2>7, <3>1
    <3> QED
      BY <2>4, <3>2 DEF m
  <2> HIDE DEF m
  <2>9. Sources'
    BY <1>1, <2>1, <2>6, <2>7 DEF StreamsInv, Sources, P
  <2>10. Kinds'
    BY <1>1, <2>1, <2>6 DEF StreamsInv, Kinds, P
  <2>11. /\ Streams(driver)' = Streams(driver)
         /\ \A x : Conveyed(x)' = Conveyed(x) /\ TextOf(x)' = TextOf(x)
    BY <1>1, <2>6 DEF Streams, Conveyed, TextOf, Stream
  <2>12. Underway'
    <3>1. /\ DOMAIN driver.got = Streams(driver) /\ DOMAIN driver.from = Streams(driver)
          /\ \A x \in Streams(driver) : driver.from[x] \in 0 .. source[x].read /\ Conveyed(x)
      BY <1>1, <2>1 DEF StreamsInv, Underway
    <3> QED
      BY <1>1, <2>6, <2>7, <2>8, <2>11, <3>1 DEF Underway
  <2>13. StreamsWhole'
    BY <2>6 DEF StreamsWhole
  <2> QED
    BY <1>1, <2>9, <2>10, <2>12, <2>13 DEF StreamsInv
<1>5. CASE /\ driver.state \in {"need", "put"} /\ rest = {}
           /\ \E n \in 0 .. MaxResults : \E a \in AllAnswers : Ends(n, a)
  <2> HIDE DEF Asks, Ends
  <2>1. PICK n \in Nat : \E a \in AllAnswers : Ends(n, a)
    BY <1>5, ParamsAssumption
  <2>2. PICK a \in AllAnswers : Ends(n, a)
    BY <2>1
  <2> DEFINE d == Ran(driver, n)
  <2>3. /\ DOMAIN d = DOMAIN driver /\ d.bound = driver.bound /\ d.state \in {"results", "end"}
        /\ d.got = driver.got /\ d.from = driver.from
    BY RanState DEF StreamsInv, HeldInv, Shape, Ran
  <2>4. given # <<>> => DOMAIN driver.bound = P
    BY <1>5 DEF StreamsInv, Kinds
  <2>5. ASSUME NEW x \in Streams(driver) PROVE d.got[x] = Recoded16(x, d.from[x])
    <3>1. source[x].read = Len(TextOf(x)) /\ Conveyed(x)
      BY <1>1, <1>5, AskedForAre DEF StreamsInv, Underway
    <3>2. driver.got[x] = Recoded16(x, driver.from[x])
      BY <3>1 DEF Conveyed, SentAs, Converted, Recoded16
    <3> QED
      BY <2>3, <3>2
  <2>6. CASE call.phase = "send"
    <3>1. Finish(d, a)
      BY <2>2, <2>6 DEF Ends
    <3> HIDE DEF d
    <3> QED
      BY <1>1, <2>3, <2>4, <2>5, <3>1, FinishKeepsStreams
  <2>7. CASE call.phase = "idle"
    <3>1. /\ driver' = [d EXCEPT !.ind = IF n = 0 THEN Lengths(a) ELSE @, !.told = IF n = 0 THEN a ELSE @]
          /\ var' = (IF n = 0 THEN Filled(a) ELSE var) /\ stmt' = stmt
      BY <2>2, <2>7 DEF Ends
    <3> HIDE DEF d
    <3>2. KeepsKinds(var, var')
      BY <3>1, FilledKeepsKinds, NoKindChanges
    <3>3. /\ driver'.bound = driver.bound /\ driver'.state \in {"results", "end"}
          /\ driver'.got = d.got /\ driver'.from = d.from
      BY <2>3, <3>1 DEF StreamsInv, HeldInv, Shape
    <3>4. \A x \in Streams(driver) : driver'.got[x] = Recoded16(x, driver'.from[x])
      BY <2>5, <3>3
    <3> QED
      BY <1>1, <2>4, <3>1, <3>2, <3>3, <3>4, Concluded
  <2> QED
    BY <1>1, <2>6, <2>7
<1> QED
  BY <1>2, <1>3, <1>4, <1>5


(* The source has moved on, and nothing but what is put has changed.        *)
LEMMA Moved ==
  ASSUME StreamsInv, HeldInv', UNCHANGED <<given, var>>, stmt'.current \in {0, stmt.current},
         DOMAIN source' = DOMAIN source,
         \A x \in P : SourceOK(source'[x]) /\ source'[x].text = source[x].text,
         driver'.bound = driver.bound, driver'.state = driver.state, driver'.from = driver.from,
         driver.state = "put" \/ driver'.got = driver.got, Underway'
  PROVE  StreamsInv'
<1>1. Sources' /\ Kinds'
  BY DEF StreamsInv, Sources, Kinds, P
<1>2. StreamsWhole'
  <2> SUFFICES ASSUME driver.state \in {"results", "end"}, NEW x \in Streams(driver)
               PROVE  driver'.got[x] = Recoded16(x, driver.from[x])'
    BY DEF StreamsWhole, Streams
  <2>1. x \in P /\ driver'.got = driver.got /\ driver.got[x] = Recoded16(x, driver.from[x])
    BY StreamsArePlaces DEF StreamsInv, StreamsWhole
  <2>2. Recoded16(x, driver.from[x])' = Recoded16(x, driver.from[x])
    BY <2>1 DEF Recoded16, TextOf, Stream
  <2> QED
    BY <2>1, <2>2
<1> QED
  BY <1>1, <1>2 DEF StreamsInv

(* How many bytes a piece has.                                              *)
LEMMA PieceIsSome ==
  ASSUME NEW left \in Nat, NEW n \in Take(Min({left, PacketSize})), n > 0
  PROVE  n \in Nat \ {0} /\ n <= left
<1>1. {left, PacketSize} \in SUBSET Nat /\ {left, PacketSize} # {}
  BY ParamsAssumption
<1>2. Min({left, PacketSize}) \in Nat /\ Min({left, PacketSize}) <= left
  BY <1>1, MinIsLeast
<1>3. n \in Nat /\ n <= Min({left, PacketSize})
  BY <1>2, ParamsAssumption DEF Take
<1> QED
  BY <1>2, <1>3

(* Put behind what the driver has of the stream, a packet that converts is  *)
(* what has been read of it.                                                *)
LEMMA PacketExtends ==
  ASSUME NEW text, IsText(text), NEW enc, NEW from \in Nat, NEW at \in Nat, NEW n \in Nat, NEW k, NEW got, NEW more,
         from <= at, k.ok, Carried(text, enc, at, n, k), more = at + n + k.more,
         SentAs(enc, SubSeq(text, from + 1, at), got)
  PROVE  SentAs(enc, SubSeq(text, from + 1, more), got \o k.data)
<1>1. PICK S : text \in Seq(S)
  BY TextIsSeq
<1> DEFINE x == SubSeq(text, from + 1, at)
           y == SubSeq(text, at + 1, more)
           z == SubSeq(text, from + 1, more)
<1>2. k.more \in Nat /\ more \in Nat /\ at <= more /\ more <= Len(text) /\ at <= Len(text)
  BY <1>1, LenProperties DEF Carried
<1>3. x \o y = z
  <2>1. ASSUME NEW a \in Nat, NEW b \in Nat, NEW c \in Nat, a <= b, b <= c, c <= Len(text)
        PROVE  SubSeq(text, a + 1, b) \o SubSeq(text, b + 1, c) = SubSeq(text, a + 1, c)
    BY <1>1, <2>1, PartsJoin
  <2> QED
    BY <1>2, <2>1
<1>4. x \in Seq(S) /\ y \in Seq(S)
  BY <1>1, <1>2, PartIsSeq
<1>5. SentAs(enc, y, k.data) /\ SentAs(enc, x, got)
  BY DEF Carried
<1> SUFFICES SentAs(enc, z, got \o k.data)
  OBVIOUS
<1> HIDE DEF x, y, z
<1>6. CASE enc = "UTF8"
  <2>1. Converted(x \o y, got \o k.data)
    BY <1>4, <1>5, <1>6, ConvertedConcat DEF SentAs
  <2> QED
    BY <1>3, <1>6, <2>1 DEF SentAs
<1>7. CASE enc # "UTF8"
  BY <1>3, <1>5, <1>7 DEF SentAs
<1> QED
  BY <1>6, <1>7

LEMMA PutDataStreams ==
  ASSUME StreamsInv, HeldInv', given' = given, call.phase # "dead", stmt.current # 0,
         NEW n \in Nat \ {0}, source[stmt.current].read + n <= Len(TextOf(stmt.current)), NEW eof,
         PutData(stmt.current, n, eof)
  PROVE  StreamsInv'
<1> DEFINE p == stmt.current
<1>1. PICK k \in Packet(p, n) :
        /\ source' = [source EXCEPT ![p].read = @ + n + k.more, ![p].eof = eof /\ AtEof(p, n + k.more)]
        /\ \/ ~k.ok /\ SendFails
           \/ ~k.ok /\ Overrun(n, k.more) /\ call' = Dies("overrun") /\ UNCHANGED <<var, held, driver, stmt>>
           \/ k.ok /\ driver.state # "put" /\ SendFails
           \/ /\ k.ok /\ driver.state = "put"
              /\ driver' = [driver EXCEPT !.got[p] = @ \o k.data]
              /\ stmt' = [stmt EXCEPT !.read = @ + n]
              /\ call' = Goes
              /\ UNCHANGED <<var, held>>
  BY Zenon DEF PutData
<1>2. p \in P /\ SourceOK(source[p]) /\ DOMAIN source = P
  BY DEF StreamsInv, Sources
<1>3. Carried(TextOf(p), Stream(p).enc, source[p].read, n, k)
  BY <1>2, PacketCarries
<1>4. /\ k.more \in Nat /\ source[p].read \in Nat /\ source[p].read + n + k.more <= Len(source[p].text)
      /\ IsText(source[p].text)
  BY <1>2, <1>3 DEF Carried, SourceOK, TextOf
<1>5. /\ DOMAIN source' = DOMAIN source
      /\ source'[p].text = source[p].text /\ source'[p].read = source[p].read + n + k.more
      /\ source'[p].eof = (eof /\ AtEof(p, n + k.more)) /\ DOMAIN source'[p] = DOMAIN source[p]
      /\ \A x \in P : x # p => source'[x] = source[x]
  BY <1>1, <1>2 DEF SourceOK
<1>6. \A x \in P : SourceOK(source'[x]) /\ source'[x].text = source[x].text
  <2> SUFFICES ASSUME NEW x \in P PROVE SourceOK(source'[x]) /\ source'[x].text = source[x].text
    OBVIOUS
  <2>1. CASE x = p
    <3>1. source'[p].read \in 0 .. Len(source[p].text)
      BY <1>4, <1>5 DEF IsText
    <3>2. source'[p].eof => source'[p].read = Len(source[p].text)
      <4> SUFFICES ASSUME source'[p].eof PROVE source'[p].read = Len(source[p].text)
        OBVIOUS
      <4>1. AtEof(p, n + k.more)
        BY <1>5, Zenon
      <4> QED
        BY <1>4, <1>5, <4>1 DEF AtEof, TextOf
    <3> QED
      BY <1>2, <1>4, <1>5, <2>1, <3>1, <3>2 DEF SourceOK
  <2>2. CASE x # p
    BY <1>5, <2>2 DEF StreamsInv, Sources
  <2> QED
    BY <2>1, <2>2
<1> HIDE DEF p
<1>7. CASE SendFails
  BY <1>5, <1>6, <1>7, SendFailsStreams
<1>8. CASE call' = Dies("overrun") /\ UNCHANGED <<var, held, driver, stmt>>
  <2>1. call'.phase = "dead"
    BY <1>8 DEF Dies, StreamsInv, HeldInv, Shape
  <2>2. Underway'
    BY <2>1 DEF Underway
  <2> QED
    BY <1>5, <1>6, <1>8, <2>2, Moved
<1>9. CASE /\ k.ok /\ driver.state = "put"
           /\ driver' = [driver EXCEPT !.got[p] = @ \o k.data]
           /\ stmt' = [stmt EXCEPT !.read = @ + n]
           /\ UNCHANGED <<var, held>>
  <2>1. /\ p = driver.at /\ p \in Streams(driver)
        /\ DOMAIN driver.got = Streams(driver) /\ DOMAIN driver.from = Streams(driver)
        /\ \A x \in Streams(driver) : driver.from[x] \in 0 .. source[x].read /\ Conveyed(x)
        /\ \A x \in Streams(driver) : x <= driver.at /\ x # p => source[x].read = Len(TextOf(x))
    BY <1>9 DEF StreamsInv, Underway, p
  <2>2. /\ stmt'.current = p /\ driver'.bound = driver.bound /\ driver'.state = "put" /\ driver'.from = driver.from
        /\ driver'.at = driver.at /\ driver'.got = [driver.got EXCEPT ![p] = @ \o k.data]
    BY <1>9 DEF StreamsInv, HeldInv, Shape, p
  <2>3. Streams(driver)' = Streams(driver) /\ \A x : Stream(x)' = Stream(x)
    BY <2>2 DEF Streams, Stream
  <2>4. \A x \in Streams(driver) : x \in P
    BY StreamsArePlaces DEF StreamsInv
  <2>5. ASSUME NEW x \in Streams(driver)
        PROVE  driver.from[x] \in 0 .. source'[x].read /\ Conveyed(x)'
    <3>1. CASE x # p
      BY <1>5, <2>1, <2>2, <2>3, <2>4, <3>1 DEF Conveyed, TextOf
    <3>2. CASE x = p
      <4> DEFINE from == driver.from[p]
                 at == source[p].read
                 text == source[p].text
      <4>1. from \in 0 .. at
        BY <2>1
      <4>2. from \in 0 .. source'[p].read
        BY <1>4, <1>5, <4>1
      <4>3. SentAs(Stream(p).enc, SubSeq(text, from + 1, at), driver.got[p])
        BY <2>1 DEF Conveyed, TextOf
      <4>4. SentAs(Stream(p).enc, SubSeq(text, from + 1, source'[p].read), driver.got[p] \o k.data)
        <5>1. Carried(text, Stream(p).enc, at, n, k) /\ source'[p].read = at + n + k.more
          BY <1>3, <1>5 DEF TextOf
        <5>2. from \in Nat /\ at \in Nat /\ from <= at /\ IsText(text)
          BY <1>4, <4>1
        <5> HIDE DEF from, at, text
        <5> QED
          BY <1>9, <4>3, <5>1, <5>2, PacketExtends
      <4>5. driver'.got[p] = driver.got[p] \o k.data
        BY <2>1, <2>2
      <4>6. Conveyed(x)'
        BY <1>5, <2>2, <2>3, <3>2, <4>4, <4>5 DEF Conveyed, TextOf
      <4> QED
        BY <3>2, <4>2, <4>6
    <3> QED
      BY <3>1, <3>2
  <2>6. ASSUME NEW x \in Streams(driver), x <= driver.at, x # p PROVE source'[x].read = Len(TextOf(x)')
    BY <1>5, <2>1, <2>4, <2>6 DEF TextOf
  <2>7. Underway'
    BY <2>1, <2>2, <2>3, <2>5, <2>6 DEF Underway
  <2>8. stmt'.current = stmt.current
    BY <2>2 DEF p
  <2> QED
    BY <1>5, <1>6, <1>9, <2>2, <2>7, <2>8, Moved
<1> QED
  BY <1>1, <1>7, <1>8, <1>9

LEMMA SendPacketStreams == ASSUME StreamsInv, SendPacket PROVE StreamsInv'
<1> DEFINE p == stmt.current
           left == Len(TextOf(p)) - source[p].read
<1>1. HeldInv' /\ given' = given /\ call.phase # "dead" /\ p # 0
  BY SendPacketInv DEF SendPacket, Sending, StreamsInv
<1>2. /\ p \in P /\ SourceOK(source[p]) /\ DOMAIN source = P /\ \A x \in P : SourceOK(source[x])
  BY <1>1 DEF StreamsInv, Sources
<1>3. /\ left \in Nat /\ source[p].read \in Nat /\ (source[p].eof => source[p].read = Len(TextOf(p)))
      /\ Len(TextOf(p)) \in Nat
  BY <1>2 DEF SourceOK, TextOf, IsText
<1>4. \/ SendFails /\ source' = source
      \/ /\ source[p].eof /\ stmt' = [stmt EXCEPT !.current = 0, !.read = 0] /\ UNCHANGED <<var, held, driver, source>>
      \/ /\ left = 0 /\ source' = [source EXCEPT ![p].eof = TRUE] /\ UNCHANGED <<var, held, driver, stmt>>
      \/ \E n \in Take(Min({left, PacketSize})), eof \in BOOLEAN : n > 0 /\ PutData(p, n, eof)
  BY Zenon DEF SendPacket
<1>5. CASE SendFails /\ source' = source
  BY <1>1, <1>2, <1>5, SendFailsStreams
<1>6. CASE /\ source[p].eof /\ stmt' = [stmt EXCEPT !.current = 0, !.read = 0] /\ UNCHANGED <<var, held, driver, source>>
  <2>1. stmt'.current = 0
    BY <1>6 DEF StreamsInv, HeldInv, Shape
  <2>2. /\ Streams(driver)' = Streams(driver)
        /\ \A x : Conveyed(x)' = Conveyed(x) /\ TextOf(x)' = TextOf(x)
    BY <1>6 DEF Streams, Conveyed, TextOf, Stream
  <2>3. Underway'
    BY <1>1, <1>3, <1>6, <2>1, <2>2 DEF StreamsInv, Underway
  <2> QED
    BY <1>1, <1>2, <1>6, <2>1, <2>3, Moved
<1>7. CASE /\ left = 0 /\ source' = [source EXCEPT ![p].eof = TRUE] /\ UNCHANGED <<var, held, driver, stmt>>
  <2>1. /\ DOMAIN source' = DOMAIN source
        /\ \A x \in P : source'[x].text = source[x].text /\ source'[x].read = source[x].read /\ SourceOK(source'[x])
    <3>1. source[p].read = Len(source[p].text)
      BY <1>3, <1>7 DEF TextOf
    <3> QED
      BY <1>2, <1>7, <3>1 DEF SourceOK
  <2>2. \A x \in Streams(driver) : x \in P
    BY StreamsArePlaces DEF StreamsInv
  <2>3. /\ Streams(driver)' = Streams(driver)
        /\ \A x \in P : Conveyed(x)' = Conveyed(x) /\ TextOf(x)' = TextOf(x)
    BY <1>7, <2>1 DEF Streams, Conveyed, TextOf, Stream
  <2>4. Underway'
    BY <1>1, <1>7, <2>1, <2>2, <2>3 DEF StreamsInv, Underway
  <2> QED
    BY <1>1, <1>7, <2>1, <2>4, Moved
<1>8. CASE \E n \in Take(Min({left, PacketSize})), eof \in BOOLEAN : n > 0 /\ PutData(p, n, eof)
  <2>1. PICK n \in Take(Min({left, PacketSize})), eof \in BOOLEAN : n > 0 /\ PutData(p, n, eof)
    BY <1>8
  <2>2. n \in Nat \ {0} /\ n <= left
    <3> HIDE DEF left
    <3> QED
      BY <1>3, <2>1, PieceIsSome
  <2>3. source[p].read + n <= Len(TextOf(p))
    BY <1>3, <2>2
  <2> QED
    BY <1>1, <2>1, <2>2, <2>3, PutDataStreams
<1> QED
  BY <1>4, <1>5, <1>6, <1>7, <1>8

LEMMA StreamsInvariance == Spec => []StreamsInv
<1>1. StreamsInv /\ [Next]_vars => StreamsInv'
  <2> SUFFICES ASSUME StreamsInv, [Next]_vars PROVE StreamsInv'
    OBVIOUS
  <2>1. CASE Next
    BY <2>1, ExecuteStreams, FlushStreams, FreeStreams, BindStreams, RunStreams, NextStreamStreams,
       SendPacketStreams, NextResultStreams, CancelStreams DEF Next
  <2>2. CASE UNCHANGED vars
    <3>1. HeldInv' /\ Sources' /\ Kinds'
      BY <2>2 DEF vars, StreamsInv, HeldInv, Shape, Arrays, Waiting, Busy, Binding, Covered, BuffersHeld,
                  NoStreamLost, P, Sources, Kinds
    <3>2. /\ Streams(driver)' = Streams(driver)
          /\ \A x : Conveyed(x)' = Conveyed(x) /\ TextOf(x)' = TextOf(x)
          /\ \A x, f : Recoded16(x, f)' = Recoded16(x, f)
      BY <2>2 DEF vars, Streams, Conveyed, Stream, TextOf, Recoded16
    <3>3. Underway' /\ StreamsWhole'
      BY <2>2, <3>2 DEF vars, StreamsInv, Underway, StreamsWhole
    <3> QED
      BY <3>1, <3>3 DEF StreamsInv
  <2> QED
    BY <2>1, <2>2
<1> QED
  BY <1>1, InitStreams, PTL DEF Spec

(* Once the driver has executed the statement it has received each stream   *)
(* parameter whole, from where the stream stood: whatever the pieces that   *)
(* streams deliver and the size of a packet, core_hdb_send_stream_packet    *)
(* reads the rest of a character that is cut at the end of a piece, and     *)
(* check_for_next_stream_parameter lets go of no stream before its end.     *)
THEOREM StreamsArriveWhole == Spec => []StreamsWhole
BY StreamsInvariance, PTL DEF StreamsInv
====
