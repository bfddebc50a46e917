---------------------------- MODULE ReplayProofs ----------------------------
(***************************************************************************)
(* The facade's promises, for any setups, inputs, arguments and width of   *)
(* the clock.  Every step of the facade is a step of the engine or none,   *)
(* so whatever is proved of the engine holds behind it.                    *)
(***************************************************************************)
EXTENDS Replay, EngineOrderProofs

-----------------------------------------------------------------------------
(* The facade implements the engine.                                       *)

LEMMA ToI64Fits ==
  ASSUME NEW n \in Int
  PROVE  ToI64(n) \in I64 /\ (n \in I64 => ToI64(n) = n)
<1> DEFINE m == MaxTs - MinTs + 1
           x == n - MinTs
<1>1. MinTs \in Int /\ MaxTs \in Int /\ x \in Int /\ m \in Int /\ m > 0
  BY I64Assumption
<1>2. m = MaxTs - MinTs + 1 /\ x = n - MinTs /\ ToI64(n) = MinTs + (x % m)
  BY DEF ToI64
<1> HIDE DEF m, x
<1>3. x % m \in 0 .. (m - 1)
  BY <1>1
<1>4. x \in 0 .. (m - 1) => x % m = x
  BY <1>1
<1> QED
  BY <1>1, <1>2, <1>3, <1>4 DEF I64

LEMMA FacadeStep == [ReplayNext]_replayVars => [Next]_vars
<1>1. ASSUME NEW d \in Durations, Advance(d) PROVE [Next]_vars
  <2>1. ToI64(d) \in DurationArgs
    BY ToI64Fits, NanosecondsAssumption
  <2> QED
    BY <1>1, <2>1 DEF Advance, Finish, Invoke, Next, Strategy
<1>2. ASSUME NEW a \in AssetArgs, NEW id \in OrderIds, NEW side \in SideArgs, NEW tif \in TifArgs,
             NEW px \in PriceArgs, NEW qty \in QtyArgs, SubmitOrder(a, id, side, px, qty, tif)
      PROVE  [Next]_vars
  BY <1>2 DEF SubmitOrder, Finish, Invoke, Next, Strategy
<1>3. ASSUME NEW a \in AssetArgs, NEW id \in OrderIds, NEW n \in Timeouts,
             WaitOrderResponse(a, id, n)
      PROVE  [Next]_vars
  <2>1. ToI64(n) \in TimeoutArgs /\ <<a, id>> \in AssetArgs \X OrderIds
    BY ToI64Fits, NanosecondsAssumption
  <2> QED
    BY <1>3, <2>1 DEF WaitOrderResponse, Finish, Invoke, Next, Strategy
<1>4. Open \/ Return \/ Close \/ UseClosed \/ (\E k \in Assets \X OrderIds : LookAtOrder(k))
        => UNCHANGED vars
  BY DEF Open, Return, Close, UseClosed, LookAtOrder, Finish
<1>5. UNCHANGED replayVars => UNCHANGED vars
  BY DEF replayVars
<1> QED
  BY <1>1, <1>2, <1>3, <1>4, <1>5 DEF ReplayNext, Next

\* Behind the facade runs the engine of Engine: every behaviour of the Python
\* object is one of the native engine, for any arguments of any size.
THEOREM FacadeImplementsEngine == ReplaySpec => Spec
<1>1. ReplayInit => Init
  BY DEF ReplayInit
<1> QED
  BY <1>1, FacadeStep, PTL DEF ReplaySpec, Spec

\* What the proofs of the engine establish.
Sound == Typed /\ Clock /\ OrderLifeCycle /\ Waiting

LEMMA AlwaysSound == ReplaySpec => []Sound
  BY FacadeImplementsEngine, AlwaysWaiting, PTL DEF Sound
-----------------------------------------------------------------------------
(* The life of the handle.                                                 *)

Methods == {"open", "advance", "submit_order", "wait_order_response", "order", "close"}

LEMMA LeastOf ==
  ASSUME NEW S, S \subseteq Nat, S # {}
  PROVE  Min(S) \in S /\ \A m \in S : Min(S) <= m
  BY LeastOne DEF Min

\* Candidate i exists and none before it does.
FirstFound(i) == /\ i \in DOMAIN Candidates /\ Candidates[i] \in setup.present
                 /\ \A j \in DOMAIN Candidates : j < i => Candidates[j] \notin setup.present

\* What is opened is a file that was found, or nothing; without an override, the
\* first of the candidates that exist.
LEMMA OpensResolved ==
  /\ Resolved \in Range(Candidates) \cup {setup.explicit, setup.environ, NoPath}
  /\ Resolved # NoPath => Resolved \in setup.present
  /\ setup.explicit = NoPath /\ setup.environ = NoPath /\ Resolved # NoPath =>
       \E i : FirstFound(i) /\ Resolved = Candidates[i]
<1>1. FirstPresent # NoPath => \E i : FirstFound(i) /\ FirstPresent = Candidates[i]
  <2> DEFINE found == {i \in DOMAIN Candidates : Candidates[i] \in setup.present}
  <2>1. SUFFICES ASSUME found # {}
                 PROVE  FirstFound(Min(found)) /\ FirstPresent = Candidates[Min(found)]
    BY DEF FirstPresent
  <2>2. found \subseteq Nat
    BY CandidatesAssumption
  <2>3. Min(found) \in found /\ \A m \in found : Min(found) <= m
    <3> HIDE DEF found
    <3> QED
      BY <2>1, <2>2, LeastOf
  <2>4. FirstPresent = Candidates[Min(found)]
    BY <2>1 DEF FirstPresent
  <2>5. ASSUME NEW j \in DOMAIN Candidates, j < Min(found) PROVE j \notin found
    <3>1. Min(found) \in Nat /\ j \in Nat
      BY <2>2, <2>3, CandidatesAssumption
    <3> HIDE DEF found
    <3> QED
      BY <2>3, <2>5, <3>1
  <2> QED
    BY <2>3, <2>4, <2>5 DEF FirstFound
<1>2. \A i : FirstFound(i) => Candidates[i] \in Range(Candidates) \cap setup.present
  BY DEF FirstFound, Range
<1> QED
  BY <1>1, <1>2 DEF Resolved, Required

\* A method that runs a native operation has begun.
Asks(name, n) ==
  /\ Begin(name, n) /\ handle
  /\ result' = "running"
  /\ UNCHANGED <<native, handle, shown>>

AsksAdvance(d) == /\ d >= 0 /\ Asks("advance", d)
                  /\ Elapse(ToI64(d)) \/ ElapseRefused(ToI64(d))
AsksSubmit(a, id, side, px, qty, tif) ==
  /\ ValidOrder(a, side, tif) /\ Asks("submit_order", 0)
  /\ Submit(a, id, side, px, qty, tif) \/ SubmitRejected(a, id, side, tif)
AsksWait(a, id, n) == /\ n >= 0 /\ Asks("wait_order_response", n)
                      /\ WaitAnswered(<<a, id>>) \/ WaitResponse(<<a, id>>, ToI64(n))

AsksEngine ==
  \/ \E d \in Durations : AsksAdvance(d)
  \/ \E a \in AssetArgs, id \in OrderIds, side \in SideArgs, px \in PriceArgs,
        qty \in QtyArgs, tif \in TifArgs : AsksSubmit(a, id, side, px, qty, tif)
  \/ \E a \in AssetArgs, id \in OrderIds, n \in Timeouts : AsksWait(a, id, n)

ShowsOrder == \E k \in Assets \X OrderIds :
                 Showable(k) /\ shown' = [shown EXCEPT ![k] = orders[k]]

Ends == \E name \in Methods, n \in Int, r \in {"raised", "view", "None"} :
           Finish(name, n, r) /\ (UNCHANGED shown \/ ShowsOrder)

\* What a step of the facade is.
LEMMA FacadeSteps ==
  ASSUME [ReplayNext]_replayVars
  PROVE  \/ Open \/ AsksEngine \/ Ends \/ (ProcessThrough /\ UNCHANGED python)
         \/ Return \/ Close \/ UNCHANGED replayVars
<1>1. ASSUME NEW d \in Durations, Advance(d) PROVE AsksEngine \/ Ends
  <2>1. d \in Int
    BY NanosecondsAssumption
  <2>2. CASE d < 0 /\ Finish("advance", d, "raised") /\ UNCHANGED shown
    BY <2>1, <2>2 DEF Ends, Methods
  <2>3. CASE d >= 0 /\ Invoke("advance", d, Elapse(ToI64(d)) \/ ElapseRefused(ToI64(d)))
    <3>1. AsksAdvance(d)
      BY <2>3 DEF Invoke, AsksAdvance, Asks
    <3> QED
      BY <3>1 DEF AsksEngine
  <2> QED
    BY <1>1, <2>2, <2>3 DEF Advance
<1>2. ASSUME NEW a \in AssetArgs, NEW id \in OrderIds, NEW side \in SideArgs, NEW tif \in TifArgs,
             NEW px \in PriceArgs, NEW qty \in QtyArgs, SubmitOrder(a, id, side, px, qty, tif)
      PROVE  AsksEngine \/ Ends
  <2>1. CASE Finish("submit_order", 0, "raised") /\ UNCHANGED shown
    BY <2>1 DEF Ends, Methods
  <2>2. CASE ValidOrder(a, side, tif)
             /\ Invoke("submit_order", 0, Submit(a, id, side, px, qty, tif)
                                          \/ SubmitRejected(a, id, side, tif))
    <3>1. AsksSubmit(a, id, side, px, qty, tif)
      BY <2>2 DEF Invoke, AsksSubmit, Asks
    <3> QED
      BY <3>1 DEF AsksEngine
  <2> QED
    BY <1>2, <2>1, <2>2 DEF SubmitOrder
<1>3. ASSUME NEW a \in AssetArgs, NEW id \in OrderIds, NEW n \in Timeouts,
             WaitOrderResponse(a, id, n)
      PROVE  AsksEngine \/ Ends
  <2>1. n \in Int
    BY NanosecondsAssumption
  <2>2. CASE Finish("wait_order_response", n, "raised") /\ UNCHANGED shown
    BY <2>1, <2>2 DEF Ends, Methods
  <2>3. CASE n >= 0 /\ Invoke("wait_order_response", n, WaitAnswered(<<a, id>>)
                                                   \/ WaitResponse(<<a, id>>, ToI64(n)))
    <3>1. AsksWait(a, id, n)
      BY <2>3 DEF Invoke, AsksWait, Asks
    <3> QED
      BY <3>1 DEF AsksEngine
  <2> QED
    BY <1>3, <2>2, <2>3 DEF WaitOrderResponse
<1>4. ASSUME NEW k \in Assets \X OrderIds, LookAtOrder(k) PROVE Ends
  <2>1. CASE Finish("order", 0, "view") /\ Showable(k) /\ shown' = [shown EXCEPT ![k] = orders[k]]
    <3>1. ShowsOrder
      BY <2>1 DEF ShowsOrder
    <3> QED
      BY <2>1, <3>1 DEF Ends, Methods
  <2>2. CASE Finish("order", 0, "None") /\ UNCHANGED shown
    BY <2>2 DEF Ends, Methods
  <2> QED
    BY <1>4, <2>1, <2>2 DEF LookAtOrder
<1>5. ASSUME UseClosed PROVE Ends
  BY <1>5 DEF UseClosed, Ends, Methods
<1> QED
  BY <1>1, <1>2, <1>3, <1>4, <1>5 DEF ReplayNext

\* Only a step of the loop runs while the native engine runs, and the methods
\* that do not ask the engine leave it alone.
LEMMA LoopRuns == ProcessThrough => Running
  BY DEF ProcessThrough, ProcessLocalData, ProcessExchData, ProcessRequest, ProcessResponse,
         ReturnFromLoop, Picks

LEMMA EngineLeftAlone ==
  ASSUME Open \/ Ends \/ Return \/ Close \/ UNCHANGED replayVars
  PROVE  UNCHANGED vars
  BY DEF Open, Ends, Finish, Return, Close, replayVars

Results == {"opening", "running", "done", "True", "False", "None", "view", "raised"}
MethodTyped == method \in [name : Methods, n : Int, since : I64]
ShownTyped  == shown \in [Assets \X OrderIds -> Order \cup {NoView}]

LEMMA BeginTyped ==
  ASSUME Typed, NEW name \in Methods, NEW n \in Int, Begin(name, n)
  PROVE  MethodTyped'
<1>1. current_ts \in I64
  BY TypeOKParts DEF Typed, Control
<1> QED
  BY <1>1 DEF Begin, Call, MethodTyped

\* Who changes what, on the Python side.
LEMMA PythonFrame ==
  ASSUME [ReplayNext]_replayVars
  PROVE  /\ UNCHANGED setup
         /\ UNCHANGED method \/ \E name \in Methods, n \in Int : Begin(name, n)
         /\ UNCHANGED <<library, native>> \/ Open \/ Close
         /\ UNCHANGED shown \/ ShowsOrder
<1>1. CASE Open
  BY <1>1 DEF Open
<1>2. CASE AsksEngine
  <2>1. PICK name \in Methods, n \in Int : Asks(name, n)
    <3>1. ASSUME NEW d \in Durations, AsksAdvance(d)
          PROVE  \E name \in Methods, n \in Int : Asks(name, n)
      BY <3>1, NanosecondsAssumption DEF AsksAdvance, Methods
    <3>2. ASSUME NEW a, NEW id, NEW side, NEW px, NEW qty, NEW tif,
                 AsksSubmit(a, id, side, px, qty, tif)
          PROVE  \E name \in Methods, n \in Int : Asks(name, n)
      BY <3>2 DEF AsksSubmit, Methods
    <3>3. ASSUME NEW a, NEW id, NEW n \in Timeouts, AsksWait(a, id, n)
          PROVE  \E name \in Methods, m \in Int : Asks(name, m)
      BY <3>3, NanosecondsAssumption DEF AsksWait, Methods
    <3> QED
      BY <1>2, <3>1, <3>2, <3>3 DEF AsksEngine
  <2> QED
    BY <2>1 DEF Asks, Begin, opened
<1>3. CASE Ends
  <2>1. PICK name \in Methods, n \in Int, r \in {"raised", "view", "None"} :
           Finish(name, n, r) /\ (UNCHANGED shown \/ ShowsOrder)
    BY <1>3 DEF Ends
  <2> QED
    BY <2>1 DEF Finish, Begin, opened
<1>4. CASE ProcessThrough /\ UNCHANGED python
  BY <1>4 DEF python, opened
<1>5. CASE Return
  BY <1>5 DEF Return, opened
<1>6. CASE Close
  <2>1. "close" \in Methods /\ 0 \in Int
    BY DEF Methods
  <2> QED
    BY <1>6, <2>1 DEF Close, Begin, opened
<1>7. CASE UNCHANGED replayVars
  BY <1>7 DEF replayVars, python, opened
<1> QED
  BY <1>1, <1>2, <1>3, <1>4, <1>5, <1>6, <1>7, FacadeSteps

Life == ReplayTypeOK /\ HandleOwnsEngine /\ OpenedAsAsked

LEMMA LifeInit == ReplayInit => Life
<1> SUFFICES ASSUME ReplayInit PROVE Life
  OBVIOUS
<1>1. Typed /\ current_ts \in I64 /\ Init
  BY TypedInit, TypeOKParts DEF ReplayInit, Typed, Control
<1>2. ~Running /\ DOMAIN orders = {}
  BY <1>1 DEF Init, NoCall, Running
<1>3. MethodTyped
  BY <1>1 DEF ReplayInit, Call, MethodTyped, Methods
<1>4. method.since = current_ts
  BY DEF ReplayInit, Call
<1>5. ReplayTypeOK
  BY <1>2, <1>3 DEF ReplayInit, ReplayTypeOK, MethodTyped, Methods
<1> QED
  BY <1>2, <1>4, <1>5 DEF Life, HandleOwnsEngine, OpenedAsAsked, ReplayInit

LEMMA ReplayTypesNext ==
  ASSUME Typed, Typed', Life, [ReplayNext]_replayVars
  PROVE  ReplayTypeOK'
<1>1. /\ setup \in Setups
      /\ library \in Range(Candidates) \cup {setup.explicit, setup.environ, NoPath}
      /\ native \in {"none", "live", "freed"} /\ handle \in BOOLEAN
      /\ MethodTyped /\ result \in Results /\ ShownTyped /\ (Running => result = "running")
  BY DEF Life, ReplayTypeOK, MethodTyped, Methods, Results, ShownTyped
<1>2. setup' \in Setups
  BY <1>1, PythonFrame
<1>3. MethodTyped'
  <2>1. CASE UNCHANGED method
    BY <1>1, <2>1 DEF MethodTyped
  <2> QED
    BY <2>1, PythonFrame, BeginTyped
<1>4. library' \in Range(Candidates) \cup {setup'.explicit, setup'.environ, NoPath}
  <2>1. CASE Open
    BY <1>1, <2>1, OpensResolved DEF Open
  <2>2. CASE UNCHANGED library
    BY <1>1, <2>2, PythonFrame
  <2> QED
    BY <2>1, <2>2, PythonFrame DEF Close, Begin, opened
<1>5. ShownTyped'
  <2>1. CASE UNCHANGED shown
    BY <1>1, <2>1 DEF ShownTyped
  <2>2. CASE ShowsOrder
    <3>1. PICK k \in Assets \X OrderIds :
             Showable(k) /\ shown' = [shown EXCEPT ![k] = orders[k]]
      BY <2>2 DEF ShowsOrder
    <3>2. orders[k] \in Order
      BY <3>1, TypeOKParts DEF Typed, OrdersTyped, Showable
    <3> HIDE DEF Order
    <3> QED
      BY <1>1, <3>1, <3>2 DEF ShownTyped
  <2> QED
    BY <2>1, <2>2, PythonFrame
<1>6. /\ native' \in {"none", "live", "freed"} /\ handle' \in BOOLEAN
      /\ result' \in Results /\ (Running' => result' = "running")
  <2>1. CASE Open
    BY <1>1, <2>1, EngineLeftAlone DEF Open, Results, Running, vars
  <2>2. CASE AsksEngine
    BY <1>1, <2>2 DEF AsksEngine, AsksAdvance, AsksSubmit, AsksWait, Asks, Results
  <2>3. CASE Ends
    <3>1. UNCHANGED vars
      BY <2>3, EngineLeftAlone
    <3>2. UNCHANGED <<native, handle>> /\ result' \in {"raised", "view", "None"}
          /\ result # "running"
      BY <2>3 DEF Ends, Finish, Begin
    <3> QED
      BY <1>1, <3>1, <3>2 DEF Results, Running, vars
  <2>4. CASE ProcessThrough /\ UNCHANGED python
    BY <1>1, <2>4, LoopRuns DEF python
  <2>5. CASE Return
    BY <1>1, <2>5, EngineLeftAlone DEF Return, Returned, ResultOf, Results, Running, vars
  <2>6. CASE Close
    BY <1>1, <2>6, EngineLeftAlone DEF Close, Freed, Begin, Results, Running, vars
  <2>7. CASE UNCHANGED replayVars
    BY <1>1, <2>7, EngineLeftAlone DEF replayVars, python, Running, vars
  <2> QED
    BY <2>1, <2>2, <2>3, <2>4, <2>5, <2>6, <2>7, FacadeSteps
<1> QED
  BY <1>2, <1>3, <1>4, <1>5, <1>6 DEF ReplayTypeOK, MethodTyped, Methods, Results, ShownTyped

LEMMA HandleNext ==
  ASSUME Life, [ReplayNext]_replayVars
  PROVE  HandleOwnsEngine'
<1>1. /\ handle <=> native = "live"
      /\ result = "running" => native = "live"
      /\ native = "none" => current_ts = method.since /\ DOMAIN orders = {}
      /\ Running => result = "running"
      /\ native \in {"none", "live", "freed"} /\ handle \in BOOLEAN
  BY DEF Life, HandleOwnsEngine, ReplayTypeOK
<1>2. CASE Open
  BY <1>1, <1>2, EngineLeftAlone DEF Open, HandleOwnsEngine, vars, trading
<1>3. CASE AsksEngine
  BY <1>1, <1>3 DEF AsksEngine, AsksAdvance, AsksSubmit, AsksWait, Asks, Begin, HandleOwnsEngine
<1>4. CASE Ends
  BY <1>1, <1>4 DEF Ends, Finish, Begin, HandleOwnsEngine
<1>5. CASE ProcessThrough /\ UNCHANGED python
  BY <1>1, <1>5, LoopRuns DEF python, HandleOwnsEngine
<1>6. CASE Return
  BY <1>1, <1>6, EngineLeftAlone
     DEF Return, Returned, ResultOf, HandleOwnsEngine, vars, trading
<1>7. CASE Close
  BY <1>1, <1>7 DEF Close, Freed, Begin, HandleOwnsEngine
<1>8. CASE UNCHANGED replayVars
  BY <1>1, <1>8 DEF replayVars, python, HandleOwnsEngine, vars, trading
<1> QED
  BY <1>2, <1>3, <1>4, <1>5, <1>6, <1>7, <1>8, FacadeSteps

LEMMA OpenedNext ==
  ASSUME Life, [ReplayNext]_replayVars
  PROVE  OpenedAsAsked'
<1>1. OpenedAsAsked /\ UNCHANGED setup
  BY PythonFrame DEF Life
<1>2. CASE Open
  <2>1. CASE UNCHANGED <<library, native>>
    BY <1>1, <2>1 DEF OpenedAsAsked
  <2>2. CASE Loads(Resolved) /\ (\A a \in Assets : Readable(setup.data[a]))
             /\ library' = Resolved
    <3>1. Resolved \in setup.present /\ setup.abi[Resolved] = NATIVE_ABI_VERSION
      BY <2>2, OpensResolved DEF Loads
    <3>2. /\ setup.explicit # NoPath => Resolved = setup.explicit
          /\ setup.explicit = NoPath /\ setup.environ # NoPath => Resolved = setup.environ
      BY <2>2 DEF Loads, Resolved, Required
    <3>3. setup.explicit = NoPath /\ setup.environ = NoPath =>
            \E i : FirstFound(i) /\ Resolved = Candidates[i]
      BY <2>2, OpensResolved DEF Loads
    <3> QED
      BY <1>1, <2>2, <3>1, <3>2, <3>3 DEF OpenedAsAsked, Readable, FirstFound
  <2> QED
    BY <1>2, <2>1, <2>2 DEF Open
<1>3. CASE Close
  BY <1>1, <1>3 DEF Close, Begin, opened, OpenedAsAsked
<1> QED
  BY <1>1, <1>2, <1>3, PythonFrame DEF OpenedAsAsked

LEMMA AlwaysLife == ReplaySpec => [](Sound /\ Life)
<1>1. Sound /\ Sound' /\ Life /\ [ReplayNext]_replayVars => Life'
  BY ReplayTypesNext, HandleNext, OpenedNext DEF Sound, Life
<1> QED
  BY <1>1, LifeInit, AlwaysSound, PTL DEF ReplaySpec

\* The facade's variables keep their types, and the native engine runs only for
\* a method that waits for it.
THEOREM FacadeTypes == ReplaySpec => []ReplayTypeOK
<1>1. Life => ReplayTypeOK
  BY DEF Life
<1> QED
  BY <1>1, AlwaysLife, PTL

\* The native engine lives exactly as long as the handle, whatever opening found.
THEOREM FacadeOwnsEngine == ReplaySpec => []HandleOwnsEngine
<1>1. Life => HandleOwnsEngine
  BY DEF Life
<1> QED
  BY <1>1, AlwaysLife, PTL

\* No engine runs on a library or a partition other than the ones asked for, for
\* any files, overrides and ABI versions: without an override the library is the
\* first candidate that exists (binding.py:92-135).
THEOREM FacadeOpensAsAsked == ReplaySpec => []OpenedAsAsked
<1>1. Life => OpenedAsAsked
  BY DEF Life
<1> QED
  BY <1>1, AlwaysLife, PTL
-----------------------------------------------------------------------------
(* What order() shows.                                                     *)

\* Nothing in flight concerns an order that is visible.
LEMMA FinalNext ==
  ASSUME Typed, OrderLifeCycle, [Next]_vars, NEW k, Visible(k)
  PROVE  k \in DOMAIN orders' /\ orders'[k] = orders[k]
<1>1. k \in DOMAIN orders /\ orders[k].response_visible
  BY DEF Visible
<1>2. EventsOf(k) = {}
  BY <1>1 DEF OrderLifeCycle, RequestSent, ResponseSent, Answered
<1>3. \A p \in pending : KeyOf(p) # k
  BY <1>2, EventsOfKey
<1>4. CASE Submits
  <2>1. PICK a \in Assets, id \in OrderIds, side \in {BUY, SELL},
             px \in PriceArgs, qty \in QtyArgs, tif \in {TIF_FOK, TIF_IOC} :
             Submit(a, id, side, px, qty, tif)
    BY <1>4 DEF Submits
  <2> QED
    BY <1>1, <2>1 DEF Submit, Duplicate
<1>5. ASSUME NEW p \in pending, ProcessRequest(p)
      PROVE  k \in DOMAIN orders' /\ orders'[k] = orders[k]
  <2>1. PICK o : orders' = [orders EXCEPT ![KeyOf(p)] = o]
    BY <1>5, RequestEffect DEF KeyOf
  <2> QED
    BY <1>1, <1>3, <2>1
<1>6. ASSUME NEW p \in pending, ProcessResponse(p)
      PROVE  k \in DOMAIN orders' /\ orders'[k] = orders[k]
  <2>1. PICK o : orders' = [orders EXCEPT ![KeyOf(p)] = o]
    BY <1>6, ResponseEffect DEF KeyOf
  <2> QED
    BY <1>1, <1>3, <2>1
<1> QED
  BY <1>1, <1>4, <1>5, <1>6, Frame

Final == \A k \in Assets \X OrderIds :
            shown[k] # NoView => Visible(k) /\ shown[k] = orders[k]

LEMMA FinalInit == ReplayInit => Final
  BY DEF ReplayInit, Final

LEMMA FinalKept ==
  ASSUME Sound, Life, Final, [ReplayNext]_replayVars
  PROVE  Final'
<1>1. [Next]_vars /\ ShownTyped
  BY FacadeStep DEF Life, ReplayTypeOK, ShownTyped
<1>2. SUFFICES ASSUME NEW k \in Assets \X OrderIds, shown'[k] # NoView
               PROVE  Visible(k)' /\ shown'[k] = orders'[k]
  BY DEF Final
<1>3. Visible(k) /\ shown'[k] = orders[k]
  <2>1. CASE UNCHANGED shown
    BY <1>2, <2>1 DEF Final
  <2>2. CASE ShowsOrder
    <3>1. PICK j \in Assets \X OrderIds :
             Showable(j) /\ shown' = [shown EXCEPT ![j] = orders[j]]
      BY <2>2 DEF ShowsOrder
    <3> QED
      BY <1>1, <1>2, <3>1 DEF ShownTyped, Final, Showable, Visible
  <2> QED
    BY <2>1, <2>2, PythonFrame
<1>4. k \in DOMAIN orders' /\ orders'[k] = orders[k]
  BY <1>1, <1>3, FinalNext DEF Sound
<1> QED
  BY <1>3, <1>4 DEF Visible

\* No view is given before its response, and none is ever outdated: for any
\* latencies and any sequence of calls.
THEOREM FacadeShowsFinalOrders == ReplaySpec => []ShownOrdersAreFinal
<1>1. Sound /\ Life /\ Final /\ [ReplayNext]_replayVars => Final'
  BY FinalKept
<1>2. Sound /\ Final => ShownOrdersAreFinal
  BY DEF Sound, Waiting, Final, ShownOrdersAreFinal, Visible
<1> QED
  BY <1>1, <1>2, AlwaysLife, FinalInit, PTL DEF ReplaySpec
-----------------------------------------------------------------------------
(* What advance() and wait_order_response() report.                        *)

LEMMA SameLast == UNCHANGED <<inputs, local, exch, trading>> => LastTimes' = LastTimes
  BY DEF inputs, local, exch, trading, LastTimes, LocalTs, LocalTsOf, ExchTs, HasLocal, HasExch

\* What a step of the loop does to the call.
LEMMA LoopKeeps ==
  ASSUME Typed, ProcessThrough
  PROVE  \/ UNCHANGED call
         \/ /\ call.pc = "wait" /\ call'.pc = "drain" /\ call'.rc = call.rc
            /\ call'.op = call.op /\ call'.key = call.key
         \/ /\ current_ts' = call.target /\ UNCHANGED orders
            /\ call'.pc = "idle" /\ call'.rc = IF call.pc = "wait" THEN 1 ELSE 0
            /\ call'.op = call.op /\ call'.key = call.key
<1>1. call \in Calls
  BY TypeOKParts DEF Typed, Control
<1>2. ASSUME NEW a \in Assets, ProcessLocalData(a) \/ ProcessExchData(a) PROVE UNCHANGED call
  BY <1>2 DEF ProcessLocalData, ProcessExchData
<1>3. ASSUME NEW p \in pending, ProcessRequest(p) PROVE UNCHANGED call
  BY <1>3 DEF ProcessRequest
<1>4. ASSUME NEW p \in pending, ProcessResponse(p)
      PROVE  \/ UNCHANGED call
             \/ /\ call.pc = "wait" /\ call'.pc = "drain" /\ call'.rc = call.rc
                /\ call'.op = call.op /\ call'.key = call.key
  BY <1>1, <1>4 DEF ProcessResponse, DrainAfter, Calls
<1>5. ASSUME ReturnFromLoop
      PROVE  /\ current_ts' = call.target /\ UNCHANGED orders
             /\ call'.pc = "idle" /\ call'.rc = IF call.pc = "wait" THEN 1 ELSE 0
             /\ call'.op = call.op /\ call'.key = call.key
  BY <1>1, <1>5 DEF ReturnFromLoop, Calls, trading
<1> QED
  BY <1>2, <1>3, <1>4, <1>5 DEF ProcessThrough

Reported == {"running", "True", "False"}

Target == SatAdd(method.since, method.n)

AdvanceWord ==
  method.name = "advance" /\ result \in Reported =>
    /\ call.pc \in {"idle", "elapse"} /\ call.rc \in {0, 1}
    /\ method.n <= MaxTs =>
         /\ Running => call.target = Target
         /\ ~Running /\ call.rc = 0 => current_ts = Target
         /\ ~Running /\ call.rc = 1 => current_ts = method.since /\ BeyondLast(Target)

WaitWord ==
  method.name = "wait_order_response" /\ result \in Reported =>
    /\ call.pc \in {"idle", "wait", "drain"} /\ call.rc \in {0, 1}
    /\ ~Running /\ call.rc = 0 => Visible(call.key)
    /\ method.n <= MaxTs =>
         /\ call.pc = "wait" => call.target = Target
         /\ ~Running /\ call.rc = 1 => current_ts = Target

SubmitWord ==
  method.name = "submit_order" /\ result = "running" => ~Running /\ call.rc \in {0, -2}

Verdict ==
  /\ result = "True" => ~Running /\ call.rc = 0
  /\ result = "False" => ~Running /\ call.rc = 1
  /\ result = "running" =>
       method.name \in {"advance", "submit_order", "wait_order_response"}

Word == AdvanceWord /\ WaitWord /\ SubmitWord /\ Verdict

LEMMA WordInit == ReplayInit => Word
  BY DEF ReplayInit, Word, AdvanceWord, WaitWord, SubmitWord, Verdict, Reported

\* The nanoseconds that reach the engine are the ones asked for.
LEMMA SameTarget ==
  ASSUME NEW n \in Int, n >= 0, n <= MaxTs
  PROVE  AtLeastZero(ToI64(n)) = n
<1>1. n \in I64
  BY I64Assumption DEF I64
<1> QED
  BY <1>1, ToI64Fits DEF AtLeastZero

LEMMA WordAtCall ==
  ASSUME Sound, AsksEngine
  PROVE  Word'
<1>1. current_ts \in I64 /\ MaxTs \in Int /\ Durations \subseteq Int /\ Timeouts \subseteq Int
  BY TypeOKParts, I64Assumption, NanosecondsAssumption DEF Sound, Typed, Control
<1>2. ASSUME NEW d \in Durations, AsksAdvance(d) PROVE Word'
  <2>1. /\ method' = [name |-> "advance", n |-> d, since |-> current_ts]
        /\ result' = "running" /\ d >= 0 /\ d \in Int
    BY <1>1, <1>2 DEF AsksAdvance, Asks, Begin, Call
  <2>2. /\ method'.name = "advance" /\ method'.n = d /\ method'.since = current_ts
    BY <2>1
  <2>3. d <= MaxTs => AtLeastZero(ToI64(d)) = d
    BY <2>1, SameTarget
  <2>4. CASE Elapse(ToI64(d))
    <3>1. call'.pc = "elapse" /\ call'.rc = 0
          /\ call'.target = SatAdd(current_ts, AtLeastZero(ToI64(d)))
      BY <2>4 DEF Elapse
    <3> QED
      BY <2>1, <2>2, <2>3, <3>1
         DEF Word, AdvanceWord, WaitWord, SubmitWord, Verdict, Running, Target
  <2>5. CASE ElapseRefused(ToI64(d))
    <3>1. /\ call'.pc = "idle" /\ call'.rc = 1 /\ current_ts' = current_ts
          /\ BeyondLast(SatAdd(current_ts, AtLeastZero(ToI64(d))))
          /\ UNCHANGED <<inputs, local, exch, trading>>
      BY <2>5 DEF ElapseRefused, ReturnAtOnce
    <3>2. LastTimes' = LastTimes
      BY <3>1, SameLast
    <3>3. d <= MaxTs => BeyondLast(Target)'
      BY <2>2, <2>3, <3>1, <3>2 DEF BeyondLast, Target
    <3> QED
      BY <2>1, <2>2, <3>1, <3>3
         DEF Word, AdvanceWord, WaitWord, SubmitWord, Verdict, Running
  <2> QED
    BY <1>2, <2>4, <2>5 DEF AsksAdvance
<1>3. ASSUME NEW a \in AssetArgs, NEW id \in OrderIds, NEW side \in SideArgs, NEW px \in PriceArgs,
             NEW qty \in QtyArgs, NEW tif \in TifArgs, AsksSubmit(a, id, side, px, qty, tif)
      PROVE  Word'
  <2>1. method'.name = "submit_order" /\ result' = "running"
    BY <1>3 DEF AsksSubmit, Asks, Begin, Call
  <2>2. call'.pc = "idle" /\ call'.rc \in {0, -2}
    BY <1>3 DEF AsksSubmit, Submit, SubmitRejected, ReturnAtOnce, ValidOrder, BadOrder
  <2> QED
    BY <2>1, <2>2 DEF Word, AdvanceWord, WaitWord, SubmitWord, Verdict, Running
<1>4. ASSUME NEW a \in AssetArgs, NEW id \in OrderIds, NEW n \in Timeouts, AsksWait(a, id, n)
      PROVE  Word'
  <2>1. /\ method' = [name |-> "wait_order_response", n |-> n, since |-> current_ts]
        /\ result' = "running" /\ n >= 0 /\ n \in Int
    BY <1>1, <1>4 DEF AsksWait, Asks, Begin, Call
  <2>2. method'.name = "wait_order_response" /\ method'.n = n /\ method'.since = current_ts
    BY <2>1
  <2>3. n <= MaxTs => AtLeastZero(ToI64(n)) = n
    BY <2>1, SameTarget
  <2>4. CASE WaitAnswered(<<a, id>>)
    <3>1. call'.pc = "idle" /\ call'.rc = 0 /\ Visible(call.key)'
      BY <2>4 DEF WaitAnswered, ReturnAtOnce, trading, Visible
    <3> QED
      BY <2>1, <2>2, <3>1 DEF Word, AdvanceWord, WaitWord, SubmitWord, Verdict, Running
  <2>5. CASE WaitResponse(<<a, id>>, ToI64(n))
    <3>1. call'.pc = "wait" /\ call'.rc = 0
          /\ call'.target = SatAdd(current_ts, AtLeastZero(ToI64(n)))
      BY <2>5 DEF WaitResponse
    <3> QED
      BY <2>1, <2>2, <2>3, <3>1
         DEF Word, AdvanceWord, WaitWord, SubmitWord, Verdict, Running, Target
  <2> QED
    BY <1>4, <2>4, <2>5 DEF AsksWait
<1> QED
  BY <1>2, <1>3, <1>4 DEF AsksEngine

LEMMA WordInLoop ==
  ASSUME Sound, Life, Word, ProcessThrough, UNCHANGED python
  PROVE  Word'
<1>1. Running /\ result = "running" /\ Typed /\ Waiting
  BY LoopRuns DEF Life, ReplayTypeOK, Sound
<1>2. /\ UNCHANGED <<method, result>>
      /\ method.name \in {"advance", "wait_order_response"}
  BY <1>1 DEF python, Word, SubmitWord, Verdict
<1>3. CASE UNCHANGED call
  BY <1>1, <1>2, <1>3 DEF Word, AdvanceWord, WaitWord, SubmitWord, Verdict, Running, Target
<1>4. CASE call.pc = "wait" /\ call'.pc = "drain" /\ call'.rc = call.rc
  BY <1>1, <1>2, <1>4
     DEF Word, AdvanceWord, WaitWord, SubmitWord, Verdict, Running, Reported
<1>5. CASE /\ current_ts' = call.target /\ UNCHANGED orders
           /\ call'.pc = "idle" /\ call'.rc = IF call.pc = "wait" THEN 1 ELSE 0
           /\ call'.op = call.op /\ call'.key = call.key
  <2>1. CASE method.name = "advance"
    BY <1>1, <1>2, <1>5, <2>1
       DEF Word, AdvanceWord, WaitWord, SubmitWord, Verdict, Running, Reported, Target
  <2>2. CASE method.name = "wait_order_response"
    <3>1. call.pc # "wait" => Visible(call.key)'
      BY <1>1, <1>2, <1>5, <2>2 DEF Word, WaitWord, Waiting, Running, Reported, Visible
    <3> QED
      BY <1>1, <1>2, <1>5, <2>2, <3>1
         DEF Word, AdvanceWord, WaitWord, SubmitWord, Verdict, Running, Reported, Target
  <2> QED
    BY <1>2, <2>1, <2>2
<1> QED
  BY <1>1, <1>3, <1>4, <1>5, LoopKeeps

LEMMA WordNext ==
  ASSUME Sound, Life, Word, [ReplayNext]_replayVars
  PROVE  Word'
<1>1. ASSUME result' \notin Reported PROVE Word'
  BY <1>1 DEF Word, AdvanceWord, WaitWord, SubmitWord, Verdict, Reported
<1>2. CASE Open \/ Ends \/ Close
  BY <1>1, <1>2 DEF Open, Ends, Finish, Close, Reported
<1>3. ASSUME UNCHANGED vars, UNCHANGED method, result' = result \/ Return PROVE Word'
  <2>1. /\ UNCHANGED <<call, current_ts, orders>> /\ LastTimes' = LastTimes
    BY <1>3, SameLast DEF vars, trading
  <2>2. /\ Target' = Target /\ BeyondLast(Target)' = BeyondLast(Target)
        /\ Visible(call.key)' = Visible(call.key) /\ Running' = Running
    BY <1>3, <2>1 DEF Target, BeyondLast, Visible, Running
  <2>3. result' \in Reported => result \in Reported
    BY <1>3 DEF Return, Returned, ResultOf, Reported
  <2>4. AdvanceWord' /\ WaitWord'
    BY <1>3, <2>1, <2>2, <2>3 DEF Word, AdvanceWord, WaitWord
  <2>5. CASE result' = result
    BY <1>3, <2>1, <2>2, <2>4, <2>5 DEF Word, SubmitWord, Verdict
  <2>6. CASE Return
    BY <1>3, <2>1, <2>2, <2>4, <2>6 DEF Return, Returned, ResultOf, Word, SubmitWord, Verdict
  <2> QED
    BY <1>3, <2>5, <2>6
<1>4. CASE Return
  BY <1>3, <1>4, EngineLeftAlone DEF Return
<1>5. CASE UNCHANGED replayVars
  BY <1>3, <1>5 DEF replayVars, python
<1> QED
  BY <1>2, <1>4, <1>5, FacadeSteps, WordAtCall, WordInLoop

LEMMA AlwaysWord == ReplaySpec => [](Sound /\ Life /\ Word)
<1>1. Sound /\ Life /\ Word /\ [ReplayNext]_replayVars => Word'
  BY WordNext
<1> QED
  BY <1>1, WordInit, AlwaysLife, PTL DEF ReplaySpec

\* What advance() reports of the clock and of the end of data is true, for every
\* duration that int64_t holds.
THEOREM FacadeAdvances == ReplaySpec => []AdvanceKeepsItsWord
<1>1. Word => AdvanceKeepsItsWord
  BY DEF Word, AdvanceWord, Verdict, Reported, Target, AdvanceKeepsItsWord
<1> QED
  BY <1>1, AlwaysWord, PTL

\* What wait_order_response() reports is true as well.
THEOREM FacadeWaits == ReplaySpec => []WaitKeepsItsWord
<1>1. Word => WaitKeepsItsWord
  BY DEF Word, WaitWord, Verdict, Reported, Target, WaitKeepsItsWord, Visible
<1> QED
  BY <1>1, AlwaysWord, PTL

\* Behind the facade's validation the engine refuses nothing but a duplicate.
THEOREM FacadeRefusesDuplicates == ReplaySpec => OnlyDuplicatesAreRefused
<1> DEFINE D == result = "running" /\ result' = "raised" =>
                  method.name = "submit_order" /\ call.rc = -2
<1>1. Life /\ Word /\ [ReplayNext]_replayVars => [D]_replayVars
  <2> SUFFICES ASSUME Life, Word, [ReplayNext]_replayVars, result = "running", result' = "raised"
               PROVE  method.name = "submit_order" /\ call.rc = -2
    OBVIOUS
  <2>1. Return
    <3>1. ~Open /\ ~AsksEngine /\ ~Ends /\ ~Close
      BY DEF Open, AsksEngine, AsksAdvance, AsksSubmit, AsksWait, Asks, Ends, Finish, Close, Begin
    <3>2. ~(UNCHANGED result)
      OBVIOUS
    <3> QED
      BY <3>1, <3>2, FacadeSteps DEF python, replayVars
  <2>2. call.rc \notin {0, 1}
    BY <2>1 DEF Return, Returned, ResultOf
  <2> QED
    BY <2>2 DEF Word, AdvanceWord, WaitWord, SubmitWord, Verdict, Reported
<1> QED
  BY <1>1, AlwaysWord, PTL DEF ReplaySpec, OnlyDuplicatesAreRefused
=============================================================================
