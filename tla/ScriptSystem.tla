---------------------------- MODULE ScriptSystem -----------------------------
(***************************************************************************)
(* engine/script: LuaVM keeps scripts, each with an environment table that *)
(* the Lua registry holds for it, and ScriptSystem keeps the components    *)
(* that put scripts on entities and calls their callbacks.  A script can   *)
(* call nothing of the engine but logging, so each operation is one step,  *)
(* and so is each visit of a loop over the components; what a script's     *)
(* text does when it is loaded or called is left open.                     *)
(*                                                                         *)
(* The build with Lua.  Parameters, statistics and time limits, which the  *)
(* code never enforces, are left out, and so is ScriptSystemManager.       *)
(***************************************************************************)
EXTENDS Integers, Sequences, SequencesExt, FiniteSets

CONSTANTS
  ScriptEntity, ScriptPath,
  ScriptConfigs,   \* [enabled, autoStart, updateInterval] of a component, in frames
  Released,        \* a slot of the registry that holds no table
  MaxScripts       \* bound: the numbers given to scripts

Table == [script : Nat, ran : SUBSET {"OnStart", "OnUpdate"}]

ASSUME ScriptAssumption ==
  /\ MaxScripts \in Nat /\ Released \notin Table
  /\ \A config \in ScriptConfigs :
       config.enabled \in BOOLEAN /\ config.autoStart \in BOOLEAN /\ config.updateInterval \in Nat

VARIABLES
  lua,      \* LuaVM: scripts_, nextScriptID_, and the registry of the Lua state
  hosted,   \* ScriptSystem: entityScripts_ as `of`, allScripts_ as `order`
  visits    \* the loops of Initialize and Update: the components still to start, to update

scriptVars == <<lua, hosted, visits>>

ScriptKeys == ScriptEntity \X ScriptPath

NoVisits == [starting |-> <<>>, updating |-> <<>>]

(* staleRef: history, a reload failed and its script kept a released slot. *)
ScriptInit ==
  /\ lua = [scripts |-> <<>>, next |-> 1, registry |-> <<>>, unused |-> <<>>, staleRef |-> FALSE]
  /\ hosted = [of |-> <<>>, order |-> <<>>]
  /\ visits = NoVisits

-----------------------------------------------------------------------------
(* luaL_ref takes the slot of the registry given back last, or a new one.  *)
Prepared(vm, id, reloaded) ==
  LET fresh == vm.unused = <<>>
      slot == IF fresh THEN Len(vm.registry) + 1 ELSE Head(vm.unused)
      table == [script |-> id, ran |-> {}]
      info == [environmentRef |-> slot, failed |-> FALSE, reloaded |-> reloaded]
  IN  [vm EXCEPT !.registry = IF fresh THEN Append(@, table) ELSE [@ EXCEPT ![slot] = table],
                 !.unused = IF fresh THEN @ ELSE Tail(@),
                 !.scripts = [other \in DOMAIN @ \cup {id} |-> IF other = id THEN info ELSE @[other]]]

LuaUnref(vm, slot) ==
  [vm EXCEPT !.registry = [@ EXCEPT ![slot] = Released], !.unused = <<slot>> \o @]

(* A text that does not compile, or fails when it is run, leaves no script,*)
(* but its number is spent.                                                *)
LoadedScript(vm, text) ==
  LET known == [vm EXCEPT !.next = @ + 1]
  IN  IF text = "bad" THEN known ELSE Prepared(known, vm.next, FALSE)

Unloaded(vm, id) ==
  [LuaUnref(vm, vm.scripts[id].environmentRef) EXCEPT !.scripts = [other \in DOMAIN @ \ {id} |-> @[other]]]

(* The old environment goes first.  When the new text is bad the entry of  *)
(* the script is left as it was: with a slot that is no longer its own.    *)
(* (What happens when such a slot is then released again, which breaks     *)
(* Lua's own list of free slots, is not followed.)                         *)
Reloaded(vm, id, text) ==
  LET without == LuaUnref(vm, vm.scripts[id].environmentRef)
  IN  IF text = "bad" THEN [without EXCEPT !.staleRef = TRUE] ELSE Prepared(without, id, TRUE)

Idle == visits = NoVisits

ReloadScript(id) ==
  /\ Idle /\ id \in DOMAIN lua.scripts
  /\ lua.registry[lua.scripts[id].environmentRef] # Released
  /\ \E text \in {"good", "bad"} : lua' = Reloaded(lua, id, text)
  /\ UNCHANGED <<hosted, visits>>

(* CallScriptFunction: whether it is answered with true, and what it does. *)
(* `end` says how the function ends, if there is one: it may raise.  `ran` *)
(* is history: which of OnStart and OnUpdate the environment has seen.     *)
Answers(vm, id, end) ==
  /\ id \in DOMAIN vm.scripts
  /\ ~vm.scripts[id].failed
  /\ vm.registry[vm.scripts[id].environmentRef] # Released
  /\ end = "returns"

CalledFunction(vm, id, function, end) ==
  LET slot == vm.scripts[id].environmentRef
      seen == [vm.registry[slot] EXCEPT !.ran = @ \cup ({function} \cap {"OnStart", "OnUpdate"})]
      broken == [vm.scripts[id] EXCEPT !.failed = TRUE]
  IN  IF Answers(vm, id, end) THEN [vm EXCEPT !.registry = [@ EXCEPT ![slot] = seen]]
      ELSE IF id \in DOMAIN vm.scripts THEN [vm EXCEPT !.scripts = [@ EXCEPT ![id] = broken]]
      ELSE vm

-----------------------------------------------------------------------------
(* ScriptSystem: a state s is [vm, of].                                    *)
Now == [vm |-> lua, of |-> hosted.of]

Becomes(s) == lua' = s.vm /\ hosted' = [hosted EXCEPT !.of = s.of]

SetComponent(s, key, component) == [s EXCEPT !.of = [@ EXCEPT ![key] = component]]

CallScriptCallback(s, key, callback, end) ==
  LET script == s.of[key]
      kept == callback = "OnDestroy" \/ Answers(s.vm, script.scriptID, end)
  IN  [vm |-> CalledFunction(s.vm, script.scriptID, callback, end),
       of |-> [s.of EXCEPT ![key] = [script EXCEPT !.isEnabled = @ /\ kept]]]

StartScript(s, key, end) ==
  LET called == CallScriptCallback(s, key, "OnStart", end)
  IN  IF s.of[key].isStarted \/ ~s.of[key].isEnabled THEN s
      ELSE SetComponent(called, key, [called.of[key] EXCEPT !.isStarted = Answers(s.vm, s.of[key].scriptID, end)])

UpdateComponent(s, key, ends) ==
  LET starts == s.of[key].config.autoStart /\ ~s.of[key].isStarted
      ready == IF starts THEN StartScript(s, key, ends.start) ELSE s
      script == ready.of[key]
      since == script.timeSinceLastUpdate + 1
      Waited(frames) == SetComponent(ready, key, [script EXCEPT !.timeSinceLastUpdate = frames])
  IN  IF ~s.of[key].isEnabled THEN s
      ELSE IF starts /\ ~(script.isEnabled /\ script.isStarted) THEN ready
      ELSE IF since < script.config.updateInterval THEN Waited(since)
      ELSE CallScriptCallback(Waited(0), key, "OnUpdate", ends.update)

Ends == {"returns", "raises"}

(* The components are visited in the order they were added, and nothing    *)
(* else happens before the last was.                                       *)
UpdateScripts ==
  /\ Idle /\ visits' = [NoVisits EXCEPT !.updating = hosted.order]
  /\ UNCHANGED <<lua, hosted>>

VisitToUpdate ==
  /\ visits.updating # <<>>
  /\ \E ends \in [start : Ends, update : Ends] : Becomes(UpdateComponent(Now, Head(visits.updating), ends))
  /\ visits' = [visits EXCEPT !.updating = Tail(@)]

InitializeScripts ==
  /\ Idle /\ visits' = [NoVisits EXCEPT !.starting = hosted.order]
  /\ UNCHANGED <<lua, hosted>>

VisitToStart ==
  LET key == Head(visits.starting) IN
  /\ visits.starting # <<>>
  /\ \E end \in Ends : Becomes(IF hosted.of[key].config.autoStart THEN StartScript(Now, key, end) ELSE Now)
  /\ visits' = [visits EXCEPT !.starting = Tail(@)]

Component(config) ==
  [scriptID |-> lua.next, config |-> config, isEnabled |-> config.enabled,
   isStarted |-> FALSE, timeSinceLastUpdate |-> 0]

\* Mutant: a script the entity has already is loaded again.
AddAgain(key) ==
  /\ Idle /\ lua.next <= MaxScripts
  /\ \E config \in ScriptConfigs, text \in {"good", "bad"} :
       /\ lua' = LoadedScript(lua, text)
       /\ hosted' = IF text = "bad" THEN hosted
                    ELSE [of |-> [k \in DOMAIN hosted.of \cup {key} |-> IF k = key THEN Component(config) ELSE hosted.of[k]],
                          order |-> IF key \in DOMAIN hosted.of THEN hosted.order ELSE Append(hosted.order, key)]
  /\ UNCHANGED visits

AddScriptComponent(key) ==
  /\ Idle /\ key \notin DOMAIN hosted.of /\ lua.next <= MaxScripts
  /\ \E config \in ScriptConfigs, text \in {"good", "bad"} :
       /\ lua' = LoadedScript(lua, text)
       /\ hosted' = IF text = "bad" THEN hosted
                    ELSE [of |-> [k \in DOMAIN hosted.of \cup {key} |-> IF k = key THEN Component(config) ELSE hosted.of[k]],
                          order |-> Append(hosted.order, key)]
  /\ UNCHANGED visits

RemoveScriptComponent(key) ==
  /\ Idle /\ key \in DOMAIN hosted.of
  /\ lua.registry[lua.scripts[hosted.of[key].scriptID].environmentRef] # Released
  /\ \E end \in Ends :
       LET s == CallScriptCallback(Now, key, "OnDestroy", end) IN
       /\ lua' = Unloaded(s.vm, s.of[key].scriptID)
       /\ hosted' = [of |-> [k \in DOMAIN s.of \ {key} |-> s.of[k]], order |-> RemoveFirst(hosted.order, key)]
  /\ UNCHANGED visits

(* EnableScript and DisableScript.                                         *)
SwitchScript(key, on) ==
  /\ Idle /\ key \in DOMAIN hosted.of
  /\ \E end \in Ends :
       Becomes(CallScriptCallback(SetComponent(Now, key, [hosted.of[key] EXCEPT !.isEnabled = on]), key,
                                  IF on THEN "OnEnable" ELSE "OnDisable", end))
  /\ UNCHANGED visits

(* ScriptComponent::CallFunction: when it fails the component stays enabled*)
(* until the next callback.                                                *)
CallFunction(key) ==
  /\ Idle /\ key \in DOMAIN hosted.of /\ hosted.of[key].isEnabled
  /\ \E end \in Ends : lua' = CalledFunction(lua, hosted.of[key].scriptID, "other", end)
  /\ UNCHANGED <<hosted, visits>>

ScriptNext ==
  \/ UpdateScripts \/ VisitToUpdate \/ InitializeScripts \/ VisitToStart
  \/ \E id \in DOMAIN lua.scripts : ReloadScript(id)
  \/ \E key \in ScriptKeys :
       \/ AddScriptComponent(key) \/ RemoveScriptComponent(key) \/ CallFunction(key)
       \/ \E on \in BOOLEAN : SwitchScript(key, on)

ScriptSpec == ScriptInit /\ [][ScriptNext]_scriptVars

-----------------------------------------------------------------------------
TableOf(id) == lua.registry[lua.scripts[id].environmentRef]

(* However components are added, started, failed, disabled and removed     *)
(* (AddScriptComponent's early return, LoadScript and UnloadScript): each  *)
(* script loaded is on one entity, once in the order of updates; as long as*)
(* no reload failed, its environment is its own and no slot is leaked; and *)
(* OnUpdate is never called in an environment where OnStart has not been,  *)
(* when the component starts by itself and was not reloaded.               *)
ScriptsSound ==
  /\ ToSet(hosted.order) = DOMAIN hosted.of /\ IsInjective(hosted.order)
  /\ DOMAIN lua.scripts = {hosted.of[key].scriptID : key \in DOMAIN hosted.of}
  /\ Cardinality(DOMAIN lua.scripts) = Cardinality(DOMAIN hosted.of)
  /\ ~lua.staleRef =>
       /\ \A id \in DOMAIN lua.scripts : TableOf(id) # Released /\ TableOf(id).script = id
       /\ {slot \in DOMAIN lua.registry : lua.registry[slot] # Released} =
            {lua.scripts[id].environmentRef : id \in DOMAIN lua.scripts}
       /\ \A key \in DOMAIN hosted.of :
            LET id == hosted.of[key].scriptID IN
            (hosted.of[key].config.autoStart /\ ~lua.scripts[id].reloaded /\ "OnUpdate" \in TableOf(id).ran)
              => "OnStart" \in TableOf(id).ran
=============================================================================
