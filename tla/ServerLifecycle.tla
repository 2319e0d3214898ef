--------------------------- MODULE ServerLifecycle ---------------------------
(***************************************************************************)
(* One server process (cmd/cache-server/main.go) and the Puts it serves:   *)
(* start-up, the signal, the graceful stop with its timeout of 30 seconds, *)
(* and the end of the process, which every goroutine dies with.            *)
(*                                                                         *)
(* GracefulStop and Stop belong to the gRPC library: the first accepts no  *)
(* new calls and waits for the handlers of the open ones, the second ends  *)
(* their contexts and waits for nothing.                                   *)
(***************************************************************************)
EXTENDS PutStream

VARIABLES
    server,     \* where main is
    accepted    \* the calls the server has accepted

lifeVars == <<bucket, request, cancelled, handler, pump, errChan, received,
              written, pending, stored, result, server, accepted>>

(* stopped: main returned after a graceful stop; killed: the process ended  *)
(* any other way.                                                           *)
ServerState ==
    {"starting", "serving", "announced", "draining", "forced", "stopped", "killed"}
Running == server \notin {"stopped", "killed"}
Open == {u \in accepted : handler[u] # "done"}

LInit ==
    /\ Init
    /\ server = "starting"
    /\ accepted = {}

-----------------------------------------------------------------------------
(* The listener is bound and Serve runs in its goroutine; the health        *)
(* service has said SERVING since before.                                   *)
Serve ==
    /\ server = "starting"
    /\ server' = "serving"
    /\ UNCHANGED <<vars, accepted>>

(* A call reaches the server, until GracefulStop closes the listener: the   *)
(* health status alone keeps no call out.                                   *)
OpenCall(u) ==
    /\ server \in {"serving", "announced"} /\ u \notin accepted
    /\ accepted' = accepted \cup {u}
    /\ UNCHANGED <<vars, server>>

(* SIGINT or SIGTERM: the health status becomes NOT_SERVING.                *)
Signal ==
    /\ server = "serving"
    /\ server' = "announced"
    /\ UNCHANGED <<vars, accepted>>

GracefulStop ==
    /\ server = "announced"
    /\ server' = "draining"
    /\ UNCHANGED <<vars, accepted>>

(* What ends with the process: handlers that had not returned, and pumps,   *)
(* also those that a returned handler left behind.                          *)
ProcessEnds(how) ==
    /\ server' = how
    /\ handler' = [u \in Upload |-> IF u \in accepted THEN "done" ELSE handler[u]]
    /\ result' = [u \in Upload |-> IF u \in Open THEN "crashed" ELSE result[u]]
    /\ pump' = [u \in Upload |-> IF u \in accepted THEN "exited" ELSE pump[u]]
    /\ cancelled' = cancelled \cup accepted
    /\ UNCHANGED <<bucket, request, errChan, received, written, pending,
                   stored, accepted>>

(* Mutant: main does not wait for the goroutine that stops the server.      *)
DrainedAtOnce ==
    /\ server = "draining"
    /\ ProcessEnds("stopped")

(* GracefulStop returned, done is closed, main returns.                     *)
Drained ==
    /\ server = "draining" /\ Open = {}
    /\ ProcessEnds("stopped")

(* Mutant: main returns on the timeout and leaves the calls alone.          *)
TimeoutWithoutStop ==
    /\ server = "draining"
    /\ server' = "forced"
    /\ UNCHANGED <<vars, accepted>>

(* Mutant: the select has no second case.                                   *)
NoTimeout ==
    /\ server = "draining" /\ Open = {}
    /\ server' = "forced"
    /\ cancelled' = cancelled \cup Open
    /\ UNCHANGED <<bucket, request, handler, pump, errChan, received, written,
                   pending, stored, result, accepted>>

(* 30 seconds are over: Stop ends the contexts of the open calls.           *)
Timeout ==
    /\ server = "draining"
    /\ server' = "forced"
    /\ cancelled' = cancelled \cup Open
    /\ UNCHANGED <<bucket, request, handler, pump, errChan, received, written,
                   pending, stored, result, accepted>>

(* Stop returned and main returns, with handlers still on their way.        *)
ForcedExit ==
    /\ server = "forced"
    /\ ProcessEnds("killed")

(* The process ends without main: logger.Fatal when the port is taken or    *)
(* Serve fails, a panic (the pruner's selection), SIGKILL.                  *)
Killed ==
    /\ Running
    /\ ProcessEnds("killed")

-----------------------------------------------------------------------------
(* Mutant: calls are served that the server never accepted.                 *)
CallStepUnopened(u) ==
    /\ Running
    /\ UploadStep(u)
    /\ UNCHANGED <<server, accepted>>

(* A call makes its steps while the process lives.                          *)
CallStep(u) ==
    /\ Running /\ u \in accepted
    /\ UploadStep(u)
    /\ UNCHANGED <<server, accepted>>

Main == Serve \/ GracefulStop \/ Drained \/ Timeout \/ ForcedExit

LNext ==
    \/ Main \/ Signal \/ Killed
    \/ \E u \in Upload : OpenCall(u) \/ CallStep(u)
    \/ \E u \in Upload : Land(u) /\ UNCHANGED <<server, accepted>>
    \/ \E k \in Key : Evict(k) /\ UNCHANGED <<server, accepted>>

(* main's own steps and its timer are fair, and nothing else: a client may  *)
(* hold its stream open for ever, and no signal need come.                  *)
LSpec == LInit /\ [][LNext]_lifeVars /\ WF_lifeVars(Main)

-----------------------------------------------------------------------------
LTypeOK ==
    /\ TypeOK
    /\ server \in ServerState
    /\ accepted \subseteq Upload
    /\ \A u \in Upload \ accepted : handler[u] = "idle" /\ pump[u] = "off"

(* A graceful stop cuts no call short: the handler of every call that was   *)
(* accepted, even one that came after the signal, ran to its own end.       *)
GracefulStopCutsNothing ==
    server = "stopped" =>
        \A u \in accepted : result[u] \notin {"none", "crashed"}

(* After Stop no call sends a final request any more, although its handler  *)
(* still runs: what becomes visible later was sent before, and a call that  *)
(* is cut short while it receives leaves nothing behind, whole or torn.     *)
NothingSentAfterStop ==
    [][server = "forced" \/ ~Running => pending' \subseteq pending]_lifeVars

(* After the signal the process ends, with whatever calls are stuck.        *)
ShutdownEnds == server = "announced" ~> ~Running
=============================================================================
