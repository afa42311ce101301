----------------------------- MODULE MCAsyncIO -------------------------------
(* Two parts whose liveness is at stake, each under its own fairness: the    *)
(* asynchronous file system and its worker threads, and a session of one     *)
(* simulation and one view.  They share no state, and a behaviour is one of  *)
(* them: `unit` says which.                                                  *)
EXTENDS AsyncIO, SnapshotSession

CONSTANTS Units, e1, v1, p1, p2

VARIABLE unit

MCPools == {{"io", "unpack"}, {}}

MCSubmittable == {<<"read", 1>>, <<"write", 0>>, <<"decompress", 0>>}

MCInit == unit \in Units /\ Init /\ SessionInit

Files(step) == unit = "files" /\ step /\ UNCHANGED <<unit, sessionVars>>

Session(step) == unit = "session" /\ step /\ UNCHANGED <<unit, vars>>

MCNext == Files(Next) \/ Session(SessionNext)

(* Fairness of AsyncIO, and that of SnapshotSession.                         *)
MCSpec ==
  /\ MCInit /\ [][MCNext]_<<unit, vars, sessionVars>>
  /\ WF_vars(Files(MainStep)) /\ SF_vars(Files(EraseServed)) /\ SF_vars(Files(Update))
  /\ \A w \in Worker : WF_vars(Files(WorkerStep(w)))
  /\ WF_sessionVars(Session(DrainAck))
  /\ WF_sessionVars(Session(PublishTick))
  /\ WF_sessionVars(Session(ViewFrame))

(* While the world moves the view applies a block again and again            *)
(* (NeverStuck), in the behaviours that are a session.                       *)
ViewNeverStuck == unit = "session" => NeverStuck
=============================================================================
