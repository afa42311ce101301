--------------------------- MODULE InterestManager ---------------------------
(***************************************************************************)
(* engine/world, InterestManager: the points the world is streamed around. *)
(* One point each follows the camera and the player; others are added,     *)
(* rewritten, removed by their owner and expire.  Where a point is, and    *)
(* what it weighs, are floating point and left out.                        *)
(***************************************************************************)
EXTENDS Integers, FiniteSets, Functions

CONSTANTS
  MaxInterestPoints,   \* maxInterestPoints
  RefreshEvery,        \* frames between two calls of UpdateInterestRegions: 30
  Durations,           \* of points; 0 is for ever
  MaxInterestCalls, MaxInterestFrames   \* bounds

ASSUME InterestAssumption ==
  /\ {MaxInterestPoints, RefreshEvery} \subseteq Nat \ {0} /\ Durations \subseteq Nat
  /\ {MaxInterestCalls, MaxInterestFrames} \subseteq Nat

VARIABLES
  interestRuns,        \* initialized_
  interestPoints,      \* by id
  nextInterestPointId,
  actorPoint,          \* cameraPointId_ and playerPointId_; 0 is none
  cinematicPaths,      \* the ids with a path
  interestRegions,     \* the points they were made of
  lastRegionUpdate, interestFrame,
  erased,              \* by id: the frame its point went in
  interestCalls

interestVars == <<interestRuns, interestPoints, nextInterestPointId, actorPoint, cinematicPaths, interestRegions,
                  lastRegionUpdate, interestFrame, erased, interestCalls>>

Actor == {"camera", "player"}

Live == DOMAIN interestPoints

InterestInit ==
  /\ interestRuns = FALSE /\ interestPoints = <<>> /\ nextInterestPointId = 1
  /\ actorPoint = [a \in Actor |-> 0] /\ cinematicPaths = {} /\ interestRegions = {}
  /\ lastRegionUpdate = 0 /\ interestFrame = 0 /\ erased = <<>> /\ interestCalls = 0

InterestCall == interestCalls < MaxInterestCalls /\ interestCalls' = interestCalls + 1

With(f, id, value) == [i \in DOMAIN f \cup {id} |-> IF i = id THEN value ELSE f[i]]

(* A point's `made` is who asked for it first; rewriting keeps it.         *)
NoRoom == ~interestRuns \/ Cardinality(Live) >= MaxInterestPoints

NewId == IF NoRoom THEN 0 ELSE nextInterestPointId

AddInterestPoint(made, duration) ==
  IF NoRoom THEN UNCHANGED <<interestPoints, nextInterestPointId>>
  ELSE /\ nextInterestPointId' = nextInterestPointId + 1
       /\ interestPoints' = With(interestPoints, nextInterestPointId,
                                 [made |-> made, duration |-> duration, remaining |-> duration])

AddOwnPoint ==
  /\ InterestCall /\ \E d \in Durations : AddInterestPoint("owner", d)
  /\ UNCHANGED <<interestRuns, actorPoint, cinematicPaths, interestRegions, lastRegionUpdate, interestFrame, erased>>

AddCinematicPath ==
  /\ InterestCall /\ \E d \in Durations : AddInterestPoint("cinematic", d)
  /\ cinematicPaths' = cinematicPaths \cup ({NewId} \ {0})
  /\ UNCHANGED <<interestRuns, actorPoint, interestRegions, lastRegionUpdate, interestFrame, erased>>

Erase(ids) ==
  /\ interestPoints' = Restrict(interestPoints, Live \ ids)
  /\ erased' = [i \in DOMAIN erased \cup (ids \cap Live) |-> IF i \in ids \cap Live THEN interestFrame' ELSE erased[i]]

(* The path of a cinematic point that is removed by hand stays.            *)
RemoveInterestPoint ==
  /\ InterestCall /\ UNCHANGED interestFrame
  /\ \E id \in 1 .. nextInterestPointId : Erase({id})
  /\ UNCHANGED <<interestRuns, nextInterestPointId, actorPoint, cinematicPaths, interestRegions, lastRegionUpdate>>

UpdateInterestPoint ==
  /\ InterestCall
  /\ \E id \in Live, d, left \in Durations :
       interestPoints' = [interestPoints EXCEPT ![id] = [@ EXCEPT !.duration = d, !.remaining = left]]
  /\ UNCHANGED <<interestRuns, nextInterestPointId, actorPoint, cinematicPaths, interestRegions, lastRegionUpdate,
                 interestFrame, erased>>

(* SetCameraPosition and SetPlayerPosition.                                *)
SetActorPosition(actor) ==
  IF actorPoint[actor] \in Live
  THEN /\ interestPoints' = [interestPoints EXCEPT ![actorPoint[actor]].duration = 0]
       /\ UNCHANGED <<nextInterestPointId, actorPoint>>
  ELSE AddInterestPoint(actor, 0) /\ actorPoint' = [actorPoint EXCEPT ![actor] = NewId]

SetPosition ==
  /\ InterestCall /\ \E actor \in Actor : SetActorPosition(actor)
  /\ UNCHANGED <<interestRuns, cinematicPaths, interestRegions, lastRegionUpdate, interestFrame, erased>>

(* Update: points age and expire, and the regions are made anew now and then. *)
UpdateInterest ==
  /\ interestRuns /\ interestFrame < MaxInterestFrames /\ interestFrame' = interestFrame + 1
  /\ LET left(id) == interestPoints[id].remaining - 1
         expired == {id \in Live : interestPoints[id].duration > 0 /\ left(id) <= 0}
         kept == Live \ expired
         aged == [id \in kept |-> IF interestPoints[id].duration > 0
                                  THEN [interestPoints[id] EXCEPT !.remaining = left(id)] ELSE interestPoints[id]]
         refresh == interestRegions = {} \/ interestFrame' - lastRegionUpdate >= RefreshEvery
     IN  /\ interestPoints' = aged
         /\ erased' = [i \in DOMAIN erased \cup expired |-> IF i \in expired THEN interestFrame' ELSE erased[i]]
         /\ actorPoint' = [a \in Actor |-> IF actorPoint[a] \in expired THEN 0 ELSE actorPoint[a]]
         /\ cinematicPaths' = cinematicPaths \ expired
         /\ interestRegions' = IF refresh THEN kept ELSE interestRegions
         /\ lastRegionUpdate' = IF refresh THEN interestFrame' ELSE lastRegionUpdate
  /\ UNCHANGED <<interestRuns, nextInterestPointId, interestCalls>>

InitializeInterest ==
  /\ InterestCall /\ interestRuns' = TRUE
  /\ UNCHANGED <<interestPoints, nextInterestPointId, actorPoint, cinematicPaths, interestRegions, lastRegionUpdate,
                 interestFrame, erased>>

(* The ids of the two actors' points outlive it.                           *)
ShutdownInterest ==
  /\ interestRuns /\ interestRuns' = FALSE /\ UNCHANGED interestFrame
  /\ Erase(Live) /\ cinematicPaths' = {} /\ interestRegions' = {}
  /\ UNCHANGED <<nextInterestPointId, actorPoint, lastRegionUpdate, interestCalls>>

InterestNext ==
  \/ InitializeInterest \/ ShutdownInterest \/ UpdateInterest \/ SetPosition
  \/ AddOwnPoint \/ AddCinematicPath \/ RemoveInterestPoint \/ UpdateInterestPoint

-----------------------------------------------------------------------------
(* The camera and the player have one point each at most, whoever rewrote  *)
(* or removed it, through expiry and restarts, and it is the one that will *)
(* be moved; every cinematic point has its path; and the world is never    *)
(* streamed around a point that went RefreshEvery frames ago               *)
(* (SetCameraPosition, RemoveExpiredPoints, Update).                       *)
PointsKept ==
  /\ \A actor \in Actor, id \in Live : interestPoints[id].made = actor => actorPoint[actor] = id
  /\ \A id \in Live : interestPoints[id].made = "cinematic" => id \in cinematicPaths
  /\ Cardinality(Live) <= MaxInterestPoints
  /\ \A id \in interestRegions \ Live : interestFrame - erased[id] < RefreshEvery
=============================================================================
