------------------------------- MODULE Replay -------------------------------
(***************************************************************************)
(* The Python facade SlimEngine of replay.py over the native engine: the   *)
(* choice of the native library and of the partitions it is opened on,     *)
(* argument validation, the ctypes conversion of nanoseconds to int64_t,   *)
(* the entry points of ffi.rs, the translation of return codes into        *)
(* results and exceptions, and the life of the handle.                     *)
(*                                                                         *)
(* A method that runs the native loop is two actions, its entry and its    *)
(* return, with the steps of ProcessThrough between them; the others are   *)
(* one.  The Python caller has one thread.  depth and the latency lookups  *)
(* change nothing and return the engine's variables of those names, which  *)
(* keep the values hbt_slim_create gives them until a method is called.    *)
(***************************************************************************)
EXTENDS EngineProps

CONSTANTS
  Durations, Timeouts,   \* Python integers of any size
  Setups,                \* what opening an engine may find, see Setup
  Candidates,            \* the packaged libraries, then the development one
  NoView, NoPath

ASSUME NanosecondsAssumption ==
  /\ Durations \subseteq Int /\ Timeouts \subseteq Int
  /\ I64 \subseteq DurationArgs /\ I64 \subseteq TimeoutArgs  \* the C ABI takes them all
ASSUME CandidatesAssumption == DOMAIN Candidates \subseteq Nat  \* they are tried in order

Partition == [bbo_v1 : BOOLEAN, version : {"bbo_v1", "none", "other"},
              adjustment : {"integer", "none", "invalid"}]
\* The library paths asked for, the files that exist, the ABI version each
\* exports (0 when it cannot be loaded or exports none) and the partitions.
Setup(files) == [explicit : files \cup {NoPath}, environ : files \cup {NoPath},
                 present : SUBSET files, abi : [files -> Nat], data : [Assets -> Partition]]

VARIABLES
  setup,    \* what opening finds
  library,  \* library_path, the file loaded, or NoPath
  native,   \* the native engine: "none" yet, "live" or "freed"
  handle,   \* whether _handle is set
  method,   \* the running or last method: name, nanoseconds, clock at its call
  result,   \* "opening", "running", or how the method ended
  shown     \* per order, what order() returned last, or NoView

opened     == <<setup, library>>
python     == <<opened, native, handle, method, result, shown>>
replayVars == <<vars, python>>

Call(name, n) == [name |-> name, n |-> n, since |-> current_ts]

ReplayInit ==
  /\ Init
  /\ setup \in Setups
  /\ \A a \in Assets : setup.data[a].adjustment = "none" => config[a].local_adjustment = 0
  /\ library = NoPath /\ native = "none" /\ handle = FALSE
  /\ method = Call("open", 0)
  /\ result = "opening"
  /\ shown = [k \in Assets \X OrderIds |-> NoView]
-----------------------------------------------------------------------------
(* Opening: NativeBinding, read_rows and hbt_slim_create.                  *)

Required(file) == IF file \in setup.present THEN file ELSE NoPath
FirstPresent ==
  LET found == {i \in DOMAIN Candidates : Candidates[i] \in setup.present}
  IN  IF found = {} THEN NoPath ELSE Candidates[Min(found)]

MutResolved ==                                           \* a bad override falls through
  IF Required(setup.explicit) # NoPath THEN setup.explicit
  ELSE IF Required(setup.environ) # NoPath THEN setup.environ ELSE FirstPresent
Resolved ==
  IF setup.explicit # NoPath THEN Required(setup.explicit)
  ELSE IF setup.environ # NoPath THEN Required(setup.environ)
  ELSE FirstPresent

NATIVE_ABI_VERSION == 1
Loads(file) == file # NoPath /\ setup.abi[file] = NATIVE_ABI_VERSION

\* A missing version is taken for bbo_v1; a missing adjustment for 0, see ReplayInit.
Readable(p) == p.bbo_v1 /\ p.version # "other" /\ p.adjustment # "invalid"

\* A constructor that raises leaves no object to call.
Open ==
  /\ result = "opening"
  /\ IF Loads(Resolved) /\ \A a \in Assets : Readable(setup.data[a])
     THEN library' = Resolved /\ native' = "live" /\ handle' = TRUE /\ result' = "done"
     ELSE result' = "raised" /\ UNCHANGED <<library, native, handle>>
  /\ UNCHANGED <<vars, setup, method, shown>>
-----------------------------------------------------------------------------
Begin(name, n) ==
  /\ native # "none" /\ result # "running"
  /\ method' = Call(name, n)
  /\ UNCHANGED opened

\* A method that ends before it reaches the engine, or only reads it.
Finish(name, n, r) ==
  /\ Begin(name, n)
  /\ result' = r
  /\ UNCHANGED <<vars, native, handle>>

MutInvoke(name, n, op) ==                                \* handle read unchecked
  Begin(name, n) /\ op /\ result' = "running" /\ UNCHANGED <<native, handle, shown>>
\* A method that calls the native operation op with the handle.
Invoke(name, n, op) ==
  /\ Begin(name, n)
  /\ handle
  /\ op
  /\ result' = "running"
  /\ UNCHANGED <<native, handle, shown>>
-----------------------------------------------------------------------------
(* validation.py and the argument types of binding.py.                     *)
MutValidOrder(a, side, tif) == a \in Assets              \* enums not checked
ValidOrder(a, side, tif) == a \in Assets /\ side \in {BUY, SELL} /\ tif \in {TIF_FOK, TIF_IOC}

\* ctypes keeps the low bits of an integer that does not fit c_int64.
ToI64(n) == MinTs + ((n - MinTs) % (MaxTs - MinTs + 1))

Advance(d) ==
  \/ d < 0 /\ Finish("advance", d, "raised") /\ UNCHANGED shown
  \/ d >= 0 /\ Invoke("advance", d, Elapse(ToI64(d)) \/ ElapseRefused(ToI64(d)))

SubmitOrder(a, id, side, px, qty, tif) ==
  \/ /\ ~ValidOrder(a, side, tif)
     /\ Finish("submit_order", 0, "raised") /\ UNCHANGED shown
  \/ /\ ValidOrder(a, side, tif)
     /\ Invoke("submit_order", 0, Submit(a, id, side, px, qty, tif)
                                  \/ SubmitRejected(a, id, side, tif))

WaitOrderResponse(a, id, n) ==
  \/ /\ a \notin Assets \/ n < 0
     /\ Finish("wait_order_response", n, "raised") /\ UNCHANGED shown
  \/ /\ a \in Assets /\ n >= 0
     /\ Invoke("wait_order_response", n, WaitAnswered(<<a, id>>)
                                         \/ WaitResponse(<<a, id>>, ToI64(n)))

\* The native call has returned: rc 0 and 1 are results, the rest exceptions.
ResultOf(rc) == IF rc = 0 THEN "True" ELSE IF rc = 1 THEN "False" ELSE "raised"

MutReturned(rc) == ResultOf(IF rc = 1 THEN 0 ELSE rc)     \* end of data not told
Returned(rc) == ResultOf(rc)

Return ==
  /\ result = "running"
  /\ ~Running
  /\ result' = Returned(call.rc)
  /\ UNCHANGED <<vars, opened, native, handle, method, shown>>

MutShowable(k) == k \in DOMAIN orders                     \* response_visible unchecked
Showable(k) == k \in DOMAIN orders /\ orders[k].response_visible

\* order(): the response-visible OrderView, or None.
LookAtOrder(k) ==
  /\ handle
  /\ \/ /\ Showable(k)
        /\ Finish("order", 0, "view")
        /\ shown' = [shown EXCEPT ![k] = orders[k]]
     \/ ~Showable(k) /\ Finish("order", 0, "None") /\ UNCHANGED shown

MutFreed == IF native = "live" THEN "freed" ELSE "double free"
Freed == IF handle THEN "freed" ELSE native

\* close(), __exit__ and __del__: the handle is dropped before the engine is
\* freed, and closing again does nothing.
Close ==
  /\ Begin("close", 0)
  /\ native' = Freed
  /\ handle' = FALSE
  /\ result' = "done"
  /\ UNCHANGED <<vars, shown>>

\* Every other method of a closed engine raises EngineClosedError.
UseClosed ==
  /\ ~handle
  /\ \E name \in {"advance", "submit_order", "wait_order_response", "order"} :
       Finish(name, 0, "raised")
  /\ UNCHANGED shown

ReplayNext ==
  \/ Open
  \/ \E d \in Durations : Advance(d)
  \/ \E a \in AssetArgs, id \in OrderIds, side \in SideArgs, tif \in TifArgs,
        px \in PriceArgs, qty \in QtyArgs : SubmitOrder(a, id, side, px, qty, tif)
  \/ \E a \in AssetArgs, id \in OrderIds, n \in Timeouts : WaitOrderResponse(a, id, n)
  \/ ProcessThrough /\ UNCHANGED python
  \/ Return
  \/ \E k \in Assets \X OrderIds : LookAtOrder(k)
  \/ Close \/ UseClosed

ReplaySpec == ReplayInit /\ [][ReplayNext]_replayVars
-----------------------------------------------------------------------------
(* Properties.                                                             *)

\* Types of the facade's own variables; the native engine runs only for a method
\* that waits for it.
ReplayTypeOK ==
  /\ setup \in Setups /\ library \in Range(Candidates) \cup {setup.explicit, setup.environ, NoPath}
  /\ native \in {"none", "live", "freed"} /\ handle \in BOOLEAN
  /\ method \in [name : {"open", "advance", "submit_order", "wait_order_response",
                         "order", "close"}, n : Int, since : I64]
  /\ result \in {"opening", "running", "done", "True", "False", "None", "view", "raised"}
  /\ shown \in [Assets \X OrderIds -> Order \cup {NoView}]
  /\ Running => result = "running"

\* The native engine is alive exactly while the facade holds its handle: it is
\* freed once, by whichever of close, __exit__ and __del__ comes first, no native
\* call runs before it is made or after it is freed, and a constructor that raises
\* leaves none behind (replay.py:57-66, 246-266).
HandleOwnsEngine ==
  /\ handle <=> native = "live"
  /\ result = "running" => native = "live"
  /\ native = "none" => current_ts = method.since /\ DOMAIN orders = {}

\* binding.py:108-110: a library path that is given is the one that is loaded, or
\* nothing is; without one it is the first candidate that exists, never a later
\* one because the first is of another ABI; and every engine runs on the ABI and
\* the partitions it was written for.
OpenedAsAsked ==
  native # "none" =>
    /\ library \in setup.present /\ setup.abi[library] = NATIVE_ABI_VERSION
    /\ setup.explicit # NoPath => library = setup.explicit
    /\ setup.explicit = NoPath /\ setup.environ # NoPath => library = setup.environ
    /\ setup.explicit = NoPath /\ setup.environ = NoPath =>
         \E i \in DOMAIN Candidates :
           /\ library = Candidates[i]
           /\ \A j \in DOMAIN Candidates : j < i => Candidates[j] \notin setup.present
    /\ \A a \in Assets : setup.data[a].bbo_v1 /\ setup.data[a].version # "other"

\* With a duration that int64_t holds, advance() that returns True has moved the
\* clock by exactly the duration, up to its saturated end; one that returns False
\* has left it, and all that was to come is over before the requested step ends
\* (README_en.md:85-86).
AdvanceKeepsItsWord ==
  method.name = "advance" /\ method.n <= MaxTs =>
    LET target == SatAdd(method.since, method.n)
    IN  /\ result = "True"  => current_ts = target
        /\ result = "False" => current_ts = method.since /\ BeyondLast(target)

\* README_en.md:85-86: advance() returns False when the step extends beyond the
\* remaining events.
EndOfDataIsTold ==
  [][result # "running" /\ result' = "running" /\ method'.name = "advance"
     /\ BeyondLast(SatAdd(current_ts, method'.n)) => ~Running' /\ call'.rc = 1]_replayVars

\* wait_order_response() that returns True leaves an order that order() will
\* show; one that returns False has let the whole timeout pass, if int64_t holds it.
WaitKeepsItsWord ==
  method.name = "wait_order_response" =>
    /\ result = "True"  => call.key \in DOMAIN orders /\ orders[call.key].response_visible
    /\ result = "False" /\ method.n <= MaxTs => current_ts = SatAdd(method.since, method.n)

\* What order() showed once is what it shows ever after: no view is returned
\* before its response has come, and nothing changes the order afterwards.
ShownOrdersAreFinal ==
  \A k \in Assets \X OrderIds : shown[k] # NoView =>
    /\ shown[k] = orders[k]
    /\ shown[k].response_visible /\ shown[k].resp_local_ts <= current_ts

\* The only call the engine itself refuses is a second submission of an order:
\* the facade's validation leaves it no other argument to reject, and nothing
\* is refused once the engine has begun to act on it.
OnlyDuplicatesAreRefused ==
  [][result = "running" /\ result' = "raised" =>
       method.name = "submit_order" /\ call.rc = -2]_replayVars
=============================================================================
