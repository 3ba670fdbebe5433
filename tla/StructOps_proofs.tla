--------------------------- MODULE StructOps_proofs ---------------------------
(***************************************************************************)
(* Proofs about StructOps: for any policies, threads and failing steps, a  *)
(* hook never runs a program of a policy that is freed, the registered     *)
(* policy is the one the kernel takes for registered, and nothing is left  *)
(* in a module that is gone.                                               *)
(***************************************************************************)
EXTENDS StructOps, TLAPS

(* A hook that runs a program holds its policy: the policy is not freed,   *)
(* and if it was dropped its grace period waits for the hook.              *)
Protected ==
  \A t \in Thread : reader[t].pc = "calling" =>
    /\ map[reader[t].ops] # "none"
    /\ map[reader[t].ops] = "dropped" => t \in waiting[reader[t].ops]

PolicyInv == TypeOK /\ OneRegistered /\ Protected

-----------------------------------------------------------------------------
(* Every initial state satisfies the invariant.                            *)
LEMMA PolicyInit == Init => PolicyInv
  BY StructOpsAssumption DEF Init, PolicyInv, TypeOK, OneRegistered, Protected, no_reader, Hooks

(* The types are kept by every step.                                       *)
LEMMA TypeStep == TypeOK /\ [Next]_vars => TypeOK'
<1> SUFFICES ASSUME TypeOK, [Next]_vars PROVE TypeOK'
  OBVIOUS
<1> USE StructOpsAssumption DEF TypeOK, policies
<1>1. ASSUME NEW i \in Instance, PolicyStep(i) PROVE TypeOK'
  <2>1. CASE CreateMap(i) \/ Delete(i) \/ FreeMap(i)
    BY <2>1 DEF CreateMap, Delete, FreeMap
  <2>2. CASE Register(i)
    BY <2>2 DEF Register, reg
  <2>3. CASE Unregister(i)
    BY <2>3 DEF Unregister, unreg
  <2>4. CASE DropMap(i)
    BY <2>4 DEF DropMap, in_section
  <2> QED BY <1>1, <2>1, <2>2, <2>3, <2>4 DEF PolicyStep
<1>2. ASSUME NEW t \in Thread, HookStep(t) PROVE TypeOK'
  <2>1. CASE Dereference(t)
    BY <2>1 DEF Dereference, dereference
  <2>2. CASE Callback(t)
    BY <2>2 DEF Callback
  <2>3. CASE Leave(t)
    BY <2>3 DEF Leave, no_reader
  <2> QED BY <1>2, <2>1, <2>2, <2>3 DEF HookStep
<1>3. ASSUME NEW t \in Thread, NEW hook \in Hooks, CallHook(t, hook) PROVE TypeOK'
  BY <1>3 DEF CallHook
<1>4. CASE LoaderStep
  <2>1. CASE Load \/ Loaded \/ Unload
    BY <2>1 DEF Load, Loaded, Unload
  <2>2. CASE InitStep
    <3>1. last \in {3, 7} /\ step \in 1 .. 7 /\ current \in Steps
      BY <2>2 DEF InitStep, last, current, Steps
    <3> QED BY <2>2, <3>1 DEF InitStep
  <2>3. CASE InitFails
    BY <2>3 DEF InitFails
  <2>4. CASE InitTolerates
    BY <2>4 DEF InitTolerates, last
  <2>5. CASE StructOpsExit \/ Exit
    BY <2>5 DEF StructOpsExit, Exit
  <2> QED BY <1>4, <2>1, <2>2, <2>3, <2>4, <2>5 DEF LoaderStep
<1>5. CASE UNCHANGED vars
  BY <1>5 DEF vars
<1> QED BY <1>1, <1>2, <1>3, <1>4, <1>5 DEF Next

(* The pointer and the states of the maps stay in step: only reg and unreg *)
(* change the pointer, and the map changes with it.                        *)
LEMMA RegisteredStep == TypeOK /\ OneRegistered /\ [Next]_vars => OneRegistered'
<1> SUFFICES ASSUME TypeOK, OneRegistered, [Next]_vars PROVE OneRegistered'
  OBVIOUS
<1> USE StructOpsAssumption DEF OneRegistered, policies
<1>1. ASSUME NEW i \in Instance, PolicyStep(i) PROVE OneRegistered'
  <2>1. CASE CreateMap(i) \/ FreeMap(i)
    BY <2>1 DEF CreateMap, FreeMap, TypeOK
  <2>2. CASE Register(i)
    BY <2>2 DEF Register, reg, TypeOK
  <2>3. CASE Delete(i) \/ DropMap(i)
    BY <2>3 DEF Delete, DropMap, TypeOK
  <2>4. CASE Unregister(i)
    BY <2>4 DEF Unregister, unreg, TypeOK
  <2> QED BY <1>1, <2>1, <2>2, <2>3, <2>4 DEF PolicyStep
<1>2. CASE UNCHANGED <<ops, map>>
  BY <1>2
<1>3. ASSUME NEW t \in Thread, HookStep(t) PROVE OneRegistered'
  BY <1>2, <1>3 DEF HookStep, Dereference, Callback, Leave
<1>4. ASSUME NEW t \in Thread, NEW hook \in Hooks, CallHook(t, hook) PROVE OneRegistered'
  BY <1>2, <1>4 DEF CallHook
<1>5. CASE LoaderStep
  BY <1>2, <1>5 DEF LoaderStep, Load, InitStep, InitFails, InitTolerates, Loaded, Unload, StructOpsExit, Exit
<1>6. CASE UNCHANGED vars
  BY <1>2, <1>6 DEF vars
<1> QED BY <1>1, <1>3, <1>4, <1>5, <1>6 DEF Next

(* A hook takes hold of a policy only while it is registered, and a policy *)
(* that is dropped waits for every hook in its section.                    *)
LEMMA ProtectedStep == PolicyInv /\ [Next]_vars => Protected'
<1> SUFFICES ASSUME PolicyInv, [Next]_vars, NEW t \in Thread, reader'[t].pc = "calling"
             PROVE  /\ map'[reader'[t].ops] # "none"
                    /\ map'[reader'[t].ops] = "dropped" => t \in waiting'[reader'[t].ops]
  BY DEF Protected
<1> DEFINE j == reader[t].ops
<1> USE StructOpsAssumption DEF policies
<1>0. CASE UNCHANGED <<map, waiting, reader>>
  BY <1>0 DEF PolicyInv, Protected
<1>1. ASSUME NEW i \in Instance, PolicyStep(i)
      PROVE  /\ map'[reader'[t].ops] # "none"
             /\ map'[reader'[t].ops] = "dropped" => t \in waiting'[reader'[t].ops]
  <2>1. /\ reader' = reader /\ reader[t].pc = "calling" /\ j \in Instance
        /\ map[j] # "none" /\ (map[j] = "dropped" => t \in waiting[j])
    BY <1>1 DEF PolicyStep, CreateMap, Register, Delete, Unregister, DropMap, FreeMap, PolicyInv, Protected, TypeOK
  <2>2. CASE CreateMap(i) \/ Delete(i)
    BY <2>1, <2>2 DEF CreateMap, Delete, PolicyInv, TypeOK
  <2>3. CASE Register(i)
    BY <2>1, <2>3 DEF Register, reg, PolicyInv, TypeOK
  <2>4. CASE Unregister(i)
    BY <2>1, <2>4 DEF Unregister, PolicyInv, TypeOK
  <2>5. CASE DropMap(i)
    BY <2>1, <2>5 DEF DropMap, in_section, PolicyInv, TypeOK
  <2>6. CASE FreeMap(i)
    BY <2>1, <2>6 DEF FreeMap, PolicyInv, TypeOK
  <2> QED BY <1>1, <2>2, <2>3, <2>4, <2>5, <2>6 DEF PolicyStep
<1>2. ASSUME NEW u \in Thread, HookStep(u)
      PROVE  /\ map'[reader'[t].ops] # "none"
             /\ map'[reader'[t].ops] = "dropped" => t \in waiting'[reader'[t].ops]
  <2>1. CASE Dereference(u)
    <3>1. CASE u # t
      BY <2>1, <3>1 DEF Dereference, PolicyInv, TypeOK, Protected
    <3>2. CASE u = t
      <4>1. reader'[t].ops = ops /\ ops \in Instance
        BY <2>1, <3>2 DEF Dereference, dereference, PolicyInv, TypeOK
      <4> QED BY <2>1, <4>1 DEF Dereference, PolicyInv, OneRegistered
    <3> QED BY <3>1, <3>2
  <2>2. CASE Callback(u)
    BY <2>2 DEF Callback, PolicyInv, TypeOK, Protected
  <2>3. CASE Leave(u)
    <3>1. u # t /\ reader'[t] = reader[t]
      BY <2>3 DEF Leave, no_reader, PolicyInv, TypeOK
    <3> QED BY <2>3, <3>1 DEF Leave, PolicyInv, TypeOK, Protected
  <2> QED BY <1>2, <2>1, <2>2, <2>3 DEF HookStep
<1>3. ASSUME NEW u \in Thread, NEW hook \in Hooks, CallHook(u, hook)
      PROVE  /\ map'[reader'[t].ops] # "none"
             /\ map'[reader'[t].ops] = "dropped" => t \in waiting'[reader'[t].ops]
  <2>1. u # t /\ reader'[t] = reader[t]
    BY <1>3 DEF CallHook, PolicyInv, TypeOK
  <2> QED BY <1>3, <2>1 DEF CallHook, PolicyInv, Protected
<1>4. CASE LoaderStep
  BY <1>0, <1>4 DEF LoaderStep, Load, InitStep, InitFails, InitTolerates, Loaded, Unload, StructOpsExit, Exit
<1>5. CASE UNCHANGED vars
  BY <1>0, <1>5 DEF vars
<1> QED BY <1>1, <1>2, <1>3, <1>4, <1>5 DEF Next

-----------------------------------------------------------------------------
(* In every behaviour the invariant holds.                                 *)
LEMMA PolicyInvariant == Spec => []PolicyInv
<1>1. PolicyInv /\ [Next]_vars => PolicyInv'
  BY TypeStep, RegisteredStep, ProtectedStep DEF PolicyInv
<1> QED BY <1>1, PolicyInit, PTL DEF Spec

(* The variables of StructOps keep their types, and a hook that calls a    *)
(* program has a policy: the pointer rcu_dereference returned is checked   *)
(* before it is used.                                                      *)
THEOREM TypeCorrect == Spec => []TypeOK
<1>1. PolicyInv => TypeOK
  BY DEF PolicyInv
<1> QED BY <1>1, PolicyInvariant, PTL

(* Whatever is registered, unregistered, dropped and freed, and however    *)
(* the hooks interleave with it, the program a hook runs exists.           *)
THEOREM CalledExists == Spec => []CalledPolicyExists
<1>1. PolicyInv => CalledPolicyExists
  BY DEF PolicyInv, Protected, CalledPolicyExists
<1> QED BY <1>1, PolicyInvariant, PTL

(* uvm_ops and nv_gpu_sched_bpf_ops name the one registered policy, for    *)
(* any number of policies that register and unregister at once.            *)
THEOREM Registered == Spec => []OneRegistered
<1>1. PolicyInv => OneRegistered
  BY DEF PolicyInv
<1> QED BY <1>1, PolicyInvariant, PTL

-----------------------------------------------------------------------------
(* The module and what holds it.                                           *)

(* A hook that runs is one of the hooks.                                   *)
ReadersNamed ==
  \A t \in Thread : IF reader[t].pc = "idle" THEN reader[t].hook = "none" ELSE reader[t].hook \in Hooks

(* Maps and files hold the module, the trigger's writers hold its file.    *)
HoldersLive ==
  /\ \A i \in Instance : map[i] \in {"ready", "registered", "deleting"} => module = "live"
  /\ \A t \in Thread : reader[t].pc # "idle" =>
       IF reader[t].hook = "gpu_test_trigger" THEN "trigger" \in setup \/ module = "exiting"
       ELSE module = "live"

(* The trigger is set up last, and is there until the exit begins.         *)
SetupLive ==
  /\ "trigger" \in setup =>
       /\ driver = "nvidia-uvm"
       /\ module \in {"live", "going"} \/ (module = "loading" /\ step = 8)
  /\ "struct_ops" \in setup => module # "unloaded"

LoadedInv == TypeOK /\ ReadersNamed /\ HoldersLive /\ SetupLive

(* The names differ.                                                       *)
LEMMA HookNames ==
  /\ "none" \notin Hooks
  /\ \A hook \in Hooks : hook # "gpu_test_trigger" => hook \in UvmHooks \cup SchedHooks
  BY DEF Hooks, UvmHooks, SchedHooks

(* Every initial state satisfies the invariant.                            *)
LEMMA LoadedInit == Init => LoadedInv
<1>1. Init => TypeOK
  BY PolicyInit DEF PolicyInv
<1>2. Init => ReadersNamed /\ HoldersLive /\ SetupLive
  BY DEF Init, ReadersNamed, HoldersLive, SetupLive, no_reader
<1> QED BY <1>1, <1>2 DEF LoadedInv

(* Every step of the loader keeps it: a load that fails has not set up the *)
(* trigger, and an unload waits for maps, files and writers.               *)
LEMMA LoaderKeeps ==
  ASSUME LoadedInv, LoaderStep
  PROVE  ReadersNamed' /\ HoldersLive' /\ SetupLive'
<1>0. UNCHANGED <<driver, ops, map, waiting, reader>>
  BY DEF LoaderStep, Load, InitStep, InitFails, InitTolerates, Loaded, Unload, StructOpsExit, Exit, policies
<1>1. ReadersNamed'
  BY <1>0 DEF LoadedInv, ReadersNamed
<1> SUFFICES HoldersLive' /\ SetupLive'
  BY <1>1
<1>2. CASE Load
  BY <1>0, <1>2 DEF Load, LoadedInv, HoldersLive, SetupLive
<1>3. CASE InitStep
  <2>1. /\ current = "trigger" => driver = "nvidia-uvm" /\ step = 7
        /\ module = "loading" /\ module' = "loading" /\ step' = step + 1 /\ step <= 7
        /\ setup' = setup \cup {current}
    <3>1. CASE driver = "nvidia-uvm"
      BY <1>3, <3>1 DEF InitStep, current, last, UvmSteps, LoadedInv, TypeOK
    <3>2. CASE driver # "nvidia-uvm"
      BY <1>3, <3>2 DEF InitStep, current, last, SchedSteps, LoadedInv, TypeOK
    <3> QED BY <3>1, <3>2
  <2>2. "trigger" \notin setup
    <3>1. CASE driver = "nvidia-uvm"
      BY <1>3, <3>1 DEF InitStep, last, LoadedInv, TypeOK, SetupLive
    <3>2. CASE driver # "nvidia-uvm"
      BY <3>2 DEF LoadedInv, SetupLive
    <3> QED BY <3>1, <3>2
  <2> QED BY <1>0, <2>1, <2>2 DEF LoadedInv, HoldersLive, SetupLive
<1>4. CASE InitFails
  <2>1. "trigger" \notin setup /\ "trigger" \notin setup' /\ "struct_ops" \notin setup'
    BY <1>4 DEF InitFails, last, LoadedInv, TypeOK, SetupLive
  <2> QED BY <1>0, <1>4, <2>1 DEF InitFails, LoadedInv, HoldersLive, SetupLive
<1>5. CASE InitTolerates
  <2>1. "trigger" \notin setup
    <3>1. CASE driver = "nvidia-uvm"
      BY <1>5, <3>1 DEF InitTolerates, last, LoadedInv, TypeOK, SetupLive
    <3>2. CASE driver # "nvidia-uvm"
      BY <3>2 DEF LoadedInv, SetupLive
    <3> QED BY <3>1, <3>2
  <2> QED BY <1>0, <1>5, <2>1 DEF InitTolerates, LoadedInv, HoldersLive, SetupLive
<1>6. CASE Loaded
  BY <1>0, <1>6 DEF Loaded, LoadedInv, HoldersLive, SetupLive
<1>7. CASE Unload
  BY <1>0, <1>7 DEF Unload, held, LoadedInv, HoldersLive, SetupLive
<1>8. CASE StructOpsExit
  BY <1>0, <1>8 DEF StructOpsExit, LoadedInv, HoldersLive, SetupLive
<1>9. CASE Exit
  BY <1>0, <1>9 DEF Exit, LoadedInv, HoldersLive, SetupLive
<1> QED BY <1>2, <1>3, <1>4, <1>5, <1>6, <1>7, <1>8, <1>9 DEF LoaderStep

(* Every other step keeps it: a map is created and a file's hook called    *)
(* only in a live module.                                                  *)
LEMMA LoadedStep == LoadedInv /\ [Next]_vars => LoadedInv'
<1> SUFFICES ASSUME LoadedInv, [Next]_vars PROVE ReadersNamed' /\ HoldersLive' /\ SetupLive'
  BY TypeStep DEF LoadedInv
<1>1. ASSUME NEW i \in Instance, PolicyStep(i) PROVE ReadersNamed' /\ HoldersLive' /\ SetupLive'
  <2>1. UNCHANGED <<driver, module, step, setup, reader>>
    BY <1>1 DEF PolicyStep, CreateMap, Register, Delete, Unregister, DropMap, FreeMap
  <2>2. \A j \in Instance : map'[j] \in {"ready", "registered", "deleting"} =>
          map[j] \in {"ready", "registered", "deleting"} \/ module = "live"
    BY <1>1 DEF PolicyStep, CreateMap, Register, reg, Delete, Unregister, DropMap, FreeMap, LoadedInv, TypeOK
  <2> QED BY <2>1, <2>2 DEF LoadedInv, ReadersNamed, HoldersLive, SetupLive
<1>2. ASSUME NEW t \in Thread, HookStep(t) PROVE ReadersNamed' /\ HoldersLive' /\ SetupLive'
  <2>1. UNCHANGED <<driver, module, step, setup, map>>
    BY <1>2 DEF HookStep, Dereference, Callback, Leave, policies
  <2>2. \A u \in Thread \ {t} : reader'[u] = reader[u]
    BY <1>2 DEF HookStep, Dereference, Callback, Leave, LoadedInv, TypeOK
  <2>3. \/ reader'[t].pc = "idle" /\ reader'[t].hook = "none"
        \/ reader[t].pc # "idle" /\ reader'[t].pc # "idle" /\ reader'[t].hook = reader[t].hook
    <3>1. CASE Dereference(t)
      BY <3>1 DEF Dereference, dereference, LoadedInv, TypeOK
    <3>2. CASE Callback(t)
      BY <3>2 DEF Callback, LoadedInv, TypeOK
    <3>3. CASE Leave(t)
      BY <3>3 DEF Leave, no_reader, LoadedInv, TypeOK
    <3> QED BY <1>2, <3>1, <3>2, <3>3 DEF HookStep
  <2> QED BY <2>1, <2>2, <2>3 DEF LoadedInv, ReadersNamed, HoldersLive, SetupLive
<1>3. ASSUME NEW t \in Thread, NEW hook \in Hooks, CallHook(t, hook)
      PROVE  ReadersNamed' /\ HoldersLive' /\ SetupLive'
  <2>1. UNCHANGED <<driver, module, step, setup, map>>
    BY <1>3 DEF CallHook, policies
  <2>2. /\ \A u \in Thread \ {t} : reader'[u] = reader[u]
        /\ reader'[t].pc = "locked" /\ reader'[t].hook = hook
    BY <1>3 DEF CallHook, LoadedInv, TypeOK
  <2>3. IF hook = "gpu_test_trigger" THEN "trigger" \in setup ELSE module = "live"
    <3>1. CASE hook = "gpu_test_trigger"
      BY <1>3, <3>1 DEF CallHook, callable, UvmHooks, SchedHooks
    <3>2. CASE hook # "gpu_test_trigger"
      BY <1>3, <3>2, HookNames DEF CallHook, callable
    <3> QED BY <3>1, <3>2
  <2> QED BY <2>1, <2>2, <2>3 DEF LoadedInv, ReadersNamed, HoldersLive, SetupLive
<1>4. CASE LoaderStep
  BY <1>4, LoaderKeeps
<1>5. CASE UNCHANGED vars
  BY <1>5 DEF vars, LoadedInv, ReadersNamed, HoldersLive, SetupLive
<1> QED BY <1>1, <1>2, <1>3, <1>4, <1>5 DEF Next

(* Whichever steps of the initialisation fail, and whatever hooks and      *)
(* policies there are when it is unloaded: no hook runs in a module that   *)
(* is gone, no policy is registered with it and nothing can start one.     *)
THEOREM Gone == Spec => []ModuleGone
<1>1. LoadedInv /\ OneRegistered => ModuleGone
  BY DEF LoadedInv, TypeOK, HoldersLive, SetupLive, OneRegistered, ModuleGone
<1>2. Spec => []LoadedInv
  BY LoadedInit, LoadedStep, PTL DEF Spec
<1> QED BY <1>1, <1>2, Registered, PTL
=============================================================================
