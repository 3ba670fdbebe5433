------------------------------ MODULE StructOps ------------------------------
(***************************************************************************)
(* The registration of a policy: the instances of the struct_ops types     *)
(* gpu_mem_ops (nvidia-uvm) and nv_gpu_sched_ops (nvidia), the hooks that   *)
(* call the registered one, and the loading and unloading of the modules   *)
(* that own them.  A policy can be taken away, freed and replaced at any   *)
(* moment of any hook.                                                     *)
(*                                                                         *)
(* The kernel is external: the states of a struct_ops map, its references  *)
(* to the module and the grace period before it is freed, procfs and the   *)
(* module loader.  The module is one of the two, chosen in Init.           *)
(***************************************************************************)
EXTENDS Naturals, FiniteSets

CONSTANTS
  Instance, NoOps,   \* the maps (struct_ops images) of the policies; none
  Implements,        \* the members each instance sets
  Thread,            \* the threads that call hooks
  Faults             \* the steps of the initialisation that may fail

UvmHooks == {"gpu_page_prefetch", "gpu_page_prefetch_iter", "gpu_block_activate",
             "gpu_block_access", "gpu_evict_prepare"}

SchedHooks == {"on_task_init", "on_bind", "on_task_destroy", "on_timeslice_control"}

Hooks == UvmHooks \cup SchedHooks \cup {"gpu_test_trigger"}

(* What the two modules set up, in order; only the steps of the policy     *)
(* interface are modelled of nvidia.                                       *)
UvmSteps == <<"globals", "chardev", "tools", "kfuncs", "kprobe_kfuncs", "struct_ops", "trigger">>

SchedSteps == <<"kfuncs", "preempt_kfuncs", "struct_ops">>

Steps == {UvmSteps[n] : n \in 1 .. 7} \cup {SchedSteps[n] : n \in 1 .. 3}

ASSUME StructOpsAssumption ==
  /\ NoOps \notin Instance
  /\ Implements \in [Instance -> SUBSET Hooks]
  /\ Faults \subseteq Steps

VARIABLES
  driver,    \* "nvidia-uvm" or "nvidia"
  module,    \* "unloaded", "loading", "live", "going" or "exiting"
  step,      \* the step of the initialisation
  setup,     \* what is set up
  ops,       \* uvm_ops or nv_gpu_sched_bpf_ops
  map,       \* the state of each instance
  waiting,   \* the threads the grace period of a dropped map waits for
  reader     \* where each thread is in a hook, and the instance it loaded

vars == <<driver, module, step, setup, ops, map, waiting, reader>>

no_reader == [pc |-> "idle", hook |-> "none", ops |-> NoOps]

TypeOK ==
  /\ driver \in {"nvidia-uvm", "nvidia"}
  /\ module \in {"unloaded", "loading", "live", "going", "exiting"}
  /\ step \in 1 .. 8
  /\ setup \subseteq Steps
  /\ ops \in Instance \cup {NoOps}
  /\ map \in [Instance -> {"none", "ready", "registered", "deleting", "dropped"}]
  /\ waiting \in [Instance -> SUBSET Thread]
  /\ reader \in [Thread -> [pc : {"idle", "locked", "calling", "called"},
                            hook : Hooks \cup {"none"}, ops : Instance \cup {NoOps}]]
  /\ \A t \in Thread : reader[t].pc = "calling" => reader[t].ops # NoOps

Init ==
  /\ driver \in {"nvidia-uvm", "nvidia"}
  /\ module = "unloaded" /\ step = 1 /\ setup = {}
  /\ ops = NoOps
  /\ map = [i \in Instance |-> "none"]
  /\ waiting = [i \in Instance |-> {}]
  /\ reader = [t \in Thread |-> no_reader]

-----------------------------------------------------------------------------
(* The policy's side: maps are created, registered, unregistered, freed.   *)

policies == <<ops, map, waiting>>

(* A struct_ops type is found, and its module held, only once the module   *)
(* is live.                                                                *)
CreateMap(i) ==
  /\ module = "live" /\ "struct_ops" \in setup
  /\ map[i] = "none"
  /\ map' = [map EXCEPT ![i] = "ready"]
  /\ UNCHANGED <<driver, module, step, setup, ops, waiting, reader>>

(* Mutant: the last policy wins.                                           *)
reg_Last(i) ==
  /\ ops' = i
  /\ map' = [map EXCEPT ![i] = "registered"]

(* gpu_mem_ops_reg, nv_gpu_sched_ops_reg: a second policy gets EEXIST and  *)
(* its map stays as it was.                                                *)
reg(i) ==
  IF ops = NoOps THEN ops' = i /\ map' = [map EXCEPT ![i] = "registered"]
  ELSE UNCHANGED <<ops, map>>

Register(i) ==
  /\ map[i] = "ready"
  /\ reg(i)
  /\ UNCHANGED <<driver, module, step, setup, waiting, reader>>

(* The map leaves the state in use before unreg is called.                 *)
Delete(i) ==
  /\ map[i] = "registered"
  /\ map' = [map EXCEPT ![i] = "deleting"]
  /\ UNCHANGED <<driver, module, step, setup, ops, waiting, reader>>

(* gpu_mem_ops_unreg, nv_gpu_sched_ops_unreg.  A map that is registered    *)
(* through links can be registered again.                                  *)
unreg(i) == ops' = IF ops = i THEN NoOps ELSE ops

Unregister(i) ==
  /\ map[i] = "deleting"
  /\ unreg(i)
  /\ map' = [map EXCEPT ![i] = "ready"]
  /\ UNCHANGED <<driver, module, step, setup, waiting, reader>>

(* Mutant: the hook leaves the section before it calls.                    *)
in_section_ToLoad(t) == reader[t].pc \in {"locked", "called"}

(* From rcu_read_lock to rcu_read_unlock.                                  *)
in_section(t) == reader[t].pc \in {"locked", "calling", "called"}

(* The last reference goes; the module is released before the grace period.*)
DropMap(i) ==
  /\ map[i] = "ready"
  /\ map' = [map EXCEPT ![i] = "dropped"]
  /\ waiting' = [waiting EXCEPT ![i] = {t \in Thread : in_section(t)}]
  /\ UNCHANGED <<driver, module, step, setup, ops, reader>>

FreeMap(i) ==
  /\ map[i] = "dropped" /\ waiting[i] = {}
  /\ map' = [map EXCEPT ![i] = "none"]
  /\ UNCHANGED <<driver, module, step, setup, ops, waiting, reader>>

-----------------------------------------------------------------------------
(* The hooks.                                                              *)

(* A hook runs for a file of the module, which holds the module; the       *)
(* trigger is a procfs file, which does not.  Files opened while the       *)
(* module is still loading are left out.                                   *)
callable(hook) ==
  CASE hook \in UvmHooks -> driver = "nvidia-uvm" /\ module = "live"
    [] hook \in SchedHooks -> driver = "nvidia" /\ module = "live"
    [] OTHER -> "trigger" \in setup

CallHook(t, hook) ==
  /\ reader[t].pc = "idle"
  /\ callable(hook)
  /\ reader' = [reader EXCEPT ![t] = [pc |-> "locked", hook |-> hook, ops |-> NoOps]]
  /\ UNCHANGED <<driver, module, step, setup, policies>>

(* Mutant: without a policy the hook returns in the section.               *)
dereference_Returns(hook) ==
  IF ops # NoOps /\ hook \in Implements[ops] THEN [pc |-> "calling", hook |-> hook, ops |-> ops]
  ELSE [pc |-> "locked", hook |-> hook, ops |-> NoOps]

(* rcu_dereference, and the test of the instance and of its member.        *)
dereference(hook) ==
  IF ops # NoOps /\ hook \in Implements[ops] THEN [pc |-> "calling", hook |-> hook, ops |-> ops]
  ELSE [pc |-> "called", hook |-> hook, ops |-> NoOps]

Dereference(t) ==
  /\ reader[t].pc = "locked"
  /\ reader' = [reader EXCEPT ![t] = dereference(reader[t].hook)]
  /\ UNCHANGED <<driver, module, step, setup, policies>>

(* The policy's program returns.                                           *)
Callback(t) ==
  /\ reader[t].pc = "calling"
  /\ reader' = [reader EXCEPT ![t].pc = "called"]
  /\ UNCHANGED <<driver, module, step, setup, policies>>

Leave(t) ==
  /\ reader[t].pc = "called"
  /\ reader' = [reader EXCEPT ![t] = no_reader]
  /\ waiting' = [i \in Instance |-> waiting[i] \ {t}]
  /\ UNCHANGED <<driver, module, step, setup, ops, map>>

-----------------------------------------------------------------------------
(* Loading and unloading.                                                  *)

Load ==
  /\ module = "unloaded"
  /\ module' = "loading" /\ step' = 1
  /\ UNCHANGED <<driver, setup, policies, reader>>

last == IF driver = "nvidia-uvm" THEN 7 ELSE 3

current == IF driver = "nvidia-uvm" THEN UvmSteps[step] ELSE SchedSteps[step]

InitStep ==
  /\ module = "loading" /\ step <= last
  /\ setup' = setup \cup {current}
  /\ step' = step + 1
  /\ UNCHANGED <<driver, module, policies, reader>>

(* uvm_init: a step that fails takes back the globals and the device; the  *)
(* kernel drops the types of a module that fails to load.                  *)
InitFails ==
  /\ module = "loading" /\ driver = "nvidia-uvm" /\ step <= last
  /\ current \in Faults \ {"kprobe_kfuncs"}
  /\ module' = "unloaded" /\ step' = 1
  /\ setup' = setup \ {"globals", "chardev", "kfuncs", "kprobe_kfuncs", "struct_ops"}
  /\ UNCHANGED <<driver, policies, reader>>

(* uvm_bpf_struct_ops_init goes on without kfuncs for kprobes, and nvidia  *)
(* without the steps that are left.                                        *)
InitTolerates ==
  /\ module = "loading" /\ step <= last
  /\ current \in Faults
  /\ \/ current = "kprobe_kfuncs" /\ step' = step + 1
     \/ driver = "nvidia" /\ step' = last + 1
  /\ UNCHANGED <<driver, module, setup, policies, reader>>

Loaded ==
  /\ module = "loading" /\ step = last + 1
  /\ module' = "live"
  /\ UNCHANGED <<driver, step, setup, policies, reader>>

held ==
  \/ \E i \in Instance : map[i] \in {"ready", "registered", "deleting"}
  \/ \E t \in Thread : reader[t].pc # "idle" /\ reader[t].hook # "gpu_test_trigger"

Unload ==
  /\ module = "live" /\ ~held
  /\ module' = "going"
  /\ UNCHANGED <<driver, step, setup, policies, reader>>

(* Mutant: the procfs file is not removed.                                 *)
StructOpsExit_NoRemove ==
  /\ module = "going"
  /\ module' = "exiting"
  /\ UNCHANGED <<driver, step, setup, policies, reader>>

(* uvm_bpf_struct_ops_exit takes the procfs file away, if there is one;    *)
(* nv_gpu_sched_struct_ops_exit does nothing.                              *)
StructOpsExit ==
  /\ module = "going"
  /\ module' = "exiting"
  /\ setup' = setup \ {"trigger"}
  /\ UNCHANGED <<driver, step, policies, reader>>

(* proc_remove has waited for the writers; the rest of uvm_exit.  The      *)
(* kernel drops the types of a module it unloads.                          *)
Exit ==
  /\ module = "exiting"
  /\ \A t \in Thread : reader[t].hook # "gpu_test_trigger"
  /\ module' = "unloaded"
  /\ setup' = setup \ {"tools", "chardev", "globals", "kfuncs", "kprobe_kfuncs", "preempt_kfuncs", "struct_ops"}
  /\ UNCHANGED <<driver, step, policies, reader>>

-----------------------------------------------------------------------------
PolicyStep(i) ==
  CreateMap(i) \/ Register(i) \/ Delete(i) \/ Unregister(i) \/ DropMap(i) \/ FreeMap(i)

HookStep(t) == Dereference(t) \/ Callback(t) \/ Leave(t)

LoaderStep ==
  Load \/ InitStep \/ InitFails \/ InitTolerates \/ Loaded \/ Unload \/ StructOpsExit \/ Exit

Next ==
  \/ \E i \in Instance : PolicyStep(i)
  \/ \E t \in Thread : HookStep(t) \/ \E hook \in Hooks : CallHook(t, hook)
  \/ LoaderStep

Spec == Init /\ [][Next]_vars

(* A hook does not sleep and a verified program returns; a map whose grace *)
(* period is over is freed, and an exit that has begun goes on.  Nobody    *)
(* has to create, register or delete a policy, to call a hook or to unload.*)
Fairness ==
  /\ \A t \in Thread : WF_vars(HookStep(t))
  /\ \A i \in Instance : WF_vars(FreeMap(i))
  /\ WF_vars(StructOpsExit \/ Exit)

FairSpec == Spec /\ Fairness

-----------------------------------------------------------------------------
(* Properties.                                                             *)

(* "Protected by RCU for safe concurrent access": the program a hook runs  *)
(* is one of a policy that is not freed, whatever was unregistered,        *)
(* dropped or registered again between the load of the pointer and the     *)
(* call.                                                                   *)
CalledPolicyExists ==
  \A t \in Thread : reader[t].pc = "calling" => map[reader[t].ops] # "none"

(* "Only one instance at a time": the pointer names the one policy that    *)
(* the kernel takes for registered, until its own unregistration, so that  *)
(* no unregistration is "unexpected" and no policy is lost.                *)
OneRegistered ==
  \A i \in Instance : map[i] \in {"registered", "deleting"} <=> ops = i

(* When the module's text is gone no hook runs in it, no policy is         *)
(* registered with it and nothing can start its trigger or create a policy.*)
ModuleGone ==
  module = "unloaded" =>
    /\ ops = NoOps
    /\ \A t \in Thread : reader[t].pc = "idle"
    /\ setup \cap {"trigger", "struct_ops"} = {}

(* A policy that was dropped is freed, and an unload that has begun ends:  *)
(* no hook holds either for ever.                                          *)
TakenAway ==
  /\ \A i \in Instance : map[i] = "dropped" ~> map[i] = "none"
  /\ module = "going" ~> module = "unloaded"

(* A load that failed leaves nothing behind.  Not so of uvm_init.          *)
FailedLoadUndone == module = "unloaded" => setup = {}
=============================================================================
