----------------------- MODULE OffloadSchedulerProofs -----------------------
(***************************************************************************)
(* Safety of OffloadScheduler for every set of devices and upstreams, every *)
(* table and ring capacity, and every choice of failures and crashes.      *)
(***************************************************************************)
EXTENDS OffloadScheduler, FiniteSetTheorems, TLAPS

(* What an adapter operation leaves of the adapter's types. *)
LEMMA AdapterOpsType ==
    ASSUME AdapterTypeOK
    PROVE  /\ \A i \in Ifaces : bpf_disable_upstream(i) => AdapterTypeOK'
           /\ bpf_disable_global => AdapterTypeOK'
           /\ \A ok \in BOOLEAN : bpf_restore_global(ok) => AdapterTypeOK'
           /\ AdapterReset => AdapterTypeOK'
<1> USE DEF AdapterTypeOK
<1>1. \A S, q : q \in Quota => Written(S, q) \in [Ifaces -> Quota]
  BY DEF Written, Quota
<1>2. ASSUME NEW i \in Ifaces, bpf_disable_upstream(i) PROVE AdapterTypeOK'
  BY <1>1, <1>2 DEF bpf_disable_upstream, disabled_set_add, Quota
<1>3. ASSUME bpf_disable_global PROVE AdapterTypeOK'
  <2>1. PICK w \in WalkOutcomes :
          /\ limit_map' = Written(w.done, "zero")
          /\ disabled' \in disabled_set_add_all(disabled, w.done)
          /\ globally_disabled' = (globally_disabled \/ (w.done # {} /\ ~w.errs))
          /\ overwritten' = overwritten \ w.done
          /\ orphaned' = orphaned \ w.done
          /\ unrecorded' = (unrecorded \cup w.done) \ disabled'
    BY <1>3 DEF bpf_disable_global
  <2>2. w.done \subseteq Ifaces
    BY DEF WalkOutcomes, Entries
  <2>3. disabled' \subseteq Ifaces
    BY <2>1, <2>2 DEF disabled_set_add_all
  <2>4. globally_disabled' \in BOOLEAN
    BY <2>1, Zenon
  <2> QED BY <1>1, <2>1, <2>2, <2>3, <2>4 DEF Quota
<1>4. ASSUME NEW ok \in BOOLEAN, bpf_restore_global(ok) PROVE AdapterTypeOK'
  <2>1. PICK w \in WalkOutcomes :
          /\ limit_map' = Written(w.done, "none")
          /\ disabled' = IF ok THEN {} ELSE disabled \ w.done
          /\ globally_disabled' = (globally_disabled /\ ~ok)
          /\ overwritten' = overwritten \ w.done
          /\ orphaned' = orphaned \ w.done
          /\ unrecorded' = IF ok THEN {} ELSE unrecorded
    BY <1>4 DEF bpf_restore_global
  <2>2. globally_disabled' \in BOOLEAN
    BY <2>1, Zenon
  <2> QED BY <1>1, <2>1, <2>2 DEF Quota
<1>5. ASSUME AdapterReset PROVE AdapterTypeOK'
  BY <1>5 DEF AdapterReset
<1> QED BY <1>2, <1>3, <1>4, <1>5

LEMMA EmptySeqs == <<>> \in Seq(Commands) /\ <<>> \in Seq(Ifaces) /\ Len(<<>>) = 0
OBVIOUS

(* The two triggers the scheduler pulls. *)
LEMMA TriggerType ==
    ASSUME AdapterTypeOK, primary \in Ifaces \cup {0}, upstream \in Ifaces \cup {0}
    PROVE  /\ RefreshedPrimary \in Ifaces \cup {0}
           /\ trigger_adapter_disable(RefreshedPrimary) => AdapterTypeOK'
           /\ hold \subseteq {"forced", "restore_err"} /\ trigger_adapter_restore
                => AdapterTypeOK' /\ hold' \subseteq {"forced", "restore_err"}
<1>1. RefreshedPrimary \in Ifaces \cup {0}
  BY DEF RefreshedPrimary
<1>2. UNCHANGED adapterVars => AdapterTypeOK'
  BY DEF adapterVars, AdapterTypeOK
<1>3. trigger_adapter_disable(RefreshedPrimary) => AdapterTypeOK'
  <2>1. RefreshedPrimary > 0 => RefreshedPrimary \in Ifaces
    BY <1>1, IfacesAssumption
  <2> QED BY <1>2, <2>1, AdapterOpsType DEF trigger_adapter_disable
<1>4. ASSUME hold \subseteq {"forced", "restore_err"}, trigger_adapter_restore
      PROVE  AdapterTypeOK' /\ hold' \subseteq {"forced", "restore_err"}
  BY <1>2, <1>4, AdapterOpsType DEF trigger_adapter_restore
<1> QED BY <1>1, <1>3, <1>4

-----------------------------------------------------------------------------
(* Every step of Next keeps TypeOK. *)
LEMMA TypeStep == TypeOK /\ [Next]_vars => TypeOK'
<1> SUFFICES ASSUME TypeOK, [Next]_vars PROVE TypeOK'
  OBVIOUS
<1>0. AdapterTypeOK /\ GuardTypeOK /\ SchedulerTypeOK
  BY DEF TypeOK
<1>a. UNCHANGED adapterVars => AdapterTypeOK'
  BY <1>0 DEF adapterVars, AdapterTypeOK
<1>g. UNCHANGED guardVars => GuardTypeOK'
  BY <1>0 DEF guardVars, GuardTypeOK
<1>s. hnc_lsm_shutdown => GuardTypeOK'
  BY <1>0, RingSizeAssumption DEF hnc_lsm_shutdown, GuardTypeOK
<1>u. UNCHANGED <<schedVars, histVars, envVars, mpc, wpc, wnow, inbox>> => SchedulerTypeOK'
  BY <1>0 DEF schedVars, histVars, envVars, SchedulerTypeOK, MainStates, Commands
<1> USE DEF MainStates
<1>1. CASE LsmCall
  <2>1. GuardTypeOK'
    BY <1>0, <1>1 DEF LsmCall, hnc_lsm_populate, GuardTypeOK, SchedulerTypeOK
  <2>2. SchedulerTypeOK'
    BY <1>0, <1>1 DEF LsmCall, SchedulerTypeOK, schedVars, histVars, envVars, Commands
  <2> QED BY <1>a, <1>1, <2>1, <2>2 DEF LsmCall, TypeOK
<1>2. CASE LsmAttach
  <2>1. GuardTypeOK'
    BY <1>0, <1>2 DEF LsmAttach, hnc_lsm_attach, GuardTypeOK
  <2>2. SchedulerTypeOK'
    BY <1>0, <1>2 DEF LsmAttach, SchedulerTypeOK, schedVars, histVars, envVars, Commands
  <2> QED BY <1>a, <1>2, <2>1, <2>2 DEF LsmAttach, TypeOK
<1>3. CASE LsmStartConsumer
  <2>1. GuardTypeOK'
    BY <1>0, <1>3, <1>s DEF LsmStartConsumer, hnc_lsm_start_consumer, GuardTypeOK
  <2>2. SchedulerTypeOK'
    BY <1>0, <1>3 DEF LsmStartConsumer, SchedulerTypeOK, schedVars, histVars, envVars, Commands
  <2> QED BY <1>a, <1>3, <2>1, <2>2 DEF LsmStartConsumer, TypeOK
<1>4. CASE rebuild_from_rules
  <2>1. SchedulerTypeOK'
    <3>1. PICK L \in SUBSET rules :
              /\ limited' = L /\ excuse' = RebuildExcuse(L)
              /\ mpc' \in {"rebuild_trigger", "idle"}
      BY <1>4 DEF rebuild_from_rules
    <3>2. excuse' \subseteq Excuses
      BY <3>1 DEF RebuildExcuse, Excuses
    <3> QED BY <1>0, <1>4, <3>1, <3>2 DEF rebuild_from_rules, SchedulerTypeOK, envVars, Commands
  <2> QED BY <1>a, <1>g, <1>4, <2>1 DEF rebuild_from_rules, TypeOK
<1>5. CASE RebuildTrigger
  <2>1. AdapterTypeOK' /\ RefreshedPrimary \in Ifaces \cup {0}
    BY <1>0, <1>5, TriggerType DEF RebuildTrigger, SchedulerTypeOK
  <2>2. SchedulerTypeOK'
    BY <1>0, <1>5, <2>1 DEF RebuildTrigger, SchedulerTypeOK, histVars, envVars, Commands
  <2> QED BY <1>g, <1>5, <2>1, <2>2 DEF RebuildTrigger, TypeOK
<1>6. CASE hnc_scheduler_notify_device_limit_changed
  <2> DEFINE c == Head(inbox)
             L == IF c.flag THEN limited_set_add(limited, c.mac)
                            ELSE limited_set_remove(limited, c.mac)
  <2>1. c \in Commands /\ inbox' \in Seq(Commands)
    BY <1>0, <1>6 DEF hnc_scheduler_notify_device_limit_changed, SchedulerTypeOK
  <2>2. L \subseteq Macs
    BY <1>0, <2>1 DEF SchedulerTypeOK, limited_set_add, limited_set_remove, Commands
  <2>3. ASSUME ~initialized, UNCHANGED <<limited, primary, mpc, hold, excuse>>, UNCHANGED adapterVars
        PROVE  TypeOK'
    <3>1. SchedulerTypeOK'
      BY <1>0, <1>6, <2>1, <2>3
         DEF hnc_scheduler_notify_device_limit_changed, SchedulerTypeOK, envVars
    <3> QED BY <1>a, <1>g, <1>6, <2>3, <3>1 DEF hnc_scheduler_notify_device_limit_changed, TypeOK
  <2>4. ASSUME NotifyFrom(L),
               excuse' = IF c.flag /\ c.mac \notin L THEN excuse \cup {"dropped"} ELSE excuse
        PROVE  TypeOK'
    <3>1. AdapterTypeOK' /\ RefreshedPrimary \in Ifaces \cup {0}
          /\ hold' \subseteq {"forced", "restore_err"}
      BY <1>0, <1>a, <2>4, TriggerType DEF NotifyFrom, SchedulerTypeOK
    <3>2. limited' = L /\ primary' \in Ifaces \cup {0} /\ mpc' \in MainStates
      BY <1>0, <2>4, <3>1 DEF NotifyFrom, SchedulerTypeOK
    <3>3. excuse' \subseteq Excuses
      BY <1>0, <2>4 DEF SchedulerTypeOK, Excuses
    <3>4. SchedulerTypeOK'
      BY <1>0, <1>6, <2>1, <2>2, <3>1, <3>2, <3>3
         DEF hnc_scheduler_notify_device_limit_changed, SchedulerTypeOK, envVars
    <3> QED BY <1>g, <1>6, <3>1, <3>4 DEF hnc_scheduler_notify_device_limit_changed, TypeOK
  <2> HIDE DEF c, L
  <2> QED BY <1>6, <2>3, <2>4 DEF hnc_scheduler_notify_device_limit_changed, c, L
<1>7. CASE RequestAfterNotify
  <2>1. SchedulerTypeOK'
    BY <1>0, <1>7 DEF RequestAfterNotify, SchedulerTypeOK, histVars, envVars, Commands
  <2> QED BY <1>a, <1>g, <1>7, <2>1 DEF RequestAfterNotify, TypeOK
<1>8. CASE ForceRestoreAdapter
  <2>1. AdapterTypeOK' /\ hold' \subseteq {"forced", "restore_err"}
    BY <1>0, <1>8, TriggerType DEF ForceRestoreAdapter, SchedulerTypeOK
  <2>2. SchedulerTypeOK'
    BY <1>0, <1>8, <2>1 DEF ForceRestoreAdapter, SchedulerTypeOK, schedVars, envVars, Commands
  <2> QED BY <1>g, <1>8, <2>1, <2>2 DEF ForceRestoreAdapter, TypeOK
<1>9. ASSUME hnc_lsm_shutdown, ProcessGone, UNCHANGED envVars PROVE TypeOK'
  <2>1. AdapterTypeOK'
    BY <1>0, <1>9, AdapterOpsType DEF ProcessGone
  <2>2. SchedulerTypeOK'
    <3>1. inbox' \in Seq(Commands)
      BY <1>9, EmptySeqs DEF ProcessGone
    <3> QED BY <1>0, <1>9, <3>1 DEF ProcessGone, SchedulerTypeOK, envVars
  <2> QED BY <1>s, <1>9, <2>1, <2>2 DEF TypeOK
<1>10. CASE hnc_scheduler_init
  <2>1. SchedulerTypeOK'
    BY <1>0, <1>10, TriggerType
       DEF hnc_scheduler_init, SchedulerTypeOK, histVars, envVars, Commands
  <2> QED BY <1>a, <1>g, <1>10, <2>1 DEF hnc_scheduler_init, TypeOK
<1>11. CASE hnc_scheduler_request_refresh
  <2>1. SchedulerTypeOK'
    BY <1>0, <1>11 DEF hnc_scheduler_request_refresh, SchedulerTypeOK, histVars, envVars, Commands
  <2> QED BY <1>a, <1>g, <1>11, <2>1 DEF hnc_scheduler_request_refresh, TypeOK
<1>12. CASE hnc_scheduler_force_disable_global
  <2>1. AdapterTypeOK' /\ hold' \subseteq {"forced", "restore_err"}
    BY <1>0, <1>a, <1>12, AdapterOpsType DEF hnc_scheduler_force_disable_global, SchedulerTypeOK
  <2>2. SchedulerTypeOK'
    BY <1>0, <1>12, <2>1
       DEF hnc_scheduler_force_disable_global, SchedulerTypeOK, schedVars, envVars, Commands
  <2> QED BY <1>g, <1>12, <2>1, <2>2 DEF hnc_scheduler_force_disable_global, TypeOK
<1>13. CASE ForceRestoreClear
  <2>1. SchedulerTypeOK'
    BY <1>0, <1>13 DEF ForceRestoreClear, SchedulerTypeOK, envVars, Commands, Excuses
  <2> QED BY <1>a, <1>g, <1>13, <2>1 DEF ForceRestoreClear, TypeOK
<1>14. CASE hnc_scheduler_shutdown
  <2>1. SchedulerTypeOK'
    BY <1>0, <1>14 DEF hnc_scheduler_shutdown, SchedulerTypeOK, histVars, envVars, Commands
  <2> QED BY <1>a, <1>g, <1>14, <2>1 DEF hnc_scheduler_shutdown, TypeOK
<1>15. CASE WorkerStep
  <2>1. CASE WorkerWake
    <3>1. SchedulerTypeOK'
      BY <1>0, <2>1 DEF WorkerWake, SchedulerTypeOK, histVars, envVars, Commands
    <3> QED BY <1>a, <1>g, <2>1, <3>1 DEF WorkerWake, TypeOK
  <2>2. CASE WorkerProbe
    <3>1. AdapterTypeOK' /\ RefreshedPrimary \in Ifaces \cup {0}
      BY <1>0, <1>a, <2>2, TriggerType DEF WorkerProbe, SchedulerTypeOK
    <3>2. SchedulerTypeOK'
      BY <1>0, <2>2, <3>1 DEF WorkerProbe, SchedulerTypeOK, histVars, envVars, Commands
    <3> QED BY <1>g, <2>2, <3>1, <3>2 DEF WorkerProbe, TypeOK
  <2>3. CASE WorkerLsmUpdate
    <3>1. GuardTypeOK'
      BY <1>0, <2>3 DEF WorkerLsmUpdate, hnc_lsm_update_ifindex, GuardTypeOK, SchedulerTypeOK
    <3>2. SchedulerTypeOK'
      BY <1>0, <2>3 DEF WorkerLsmUpdate, SchedulerTypeOK, schedVars, histVars, envVars, Commands
    <3> QED BY <1>a, <2>3, <3>1, <3>2 DEF WorkerLsmUpdate, TypeOK
  <2>4. CASE WorkerRefresh
    <3>1. SchedulerTypeOK'
      BY <1>0, <2>4 DEF WorkerRefresh, SchedulerTypeOK, schedVars, histVars, envVars, Commands
    <3> QED BY <1>a, <1>g, <2>4, <3>1 DEF WorkerRefresh, TypeOK
  <2> QED BY <1>15, <2>1, <2>2, <2>3, <2>4 DEF WorkerStep
<1>16. CASE GuardStep
  <2>1. CASE ringbuf_handle_event
    <3>1. Head(events) \in Ifaces /\ events' \in Seq(Ifaces) /\ Len(events') <= RingSize
      BY <1>0, <2>1, RingSizeAssumption DEF ringbuf_handle_event, GuardTypeOK
    <3>2. AdapterTypeOK'
      BY <1>0, <2>1, <3>1 DEF ringbuf_handle_event, AdapterTypeOK, Written, Quota
    <3>3. GuardTypeOK'
      BY <1>0, <2>1, <3>1 DEF ringbuf_handle_event, GuardTypeOK
    <3> QED BY <1>u, <1>16, <3>2, <3>3 DEF GuardStep, TypeOK
  <2>2. CASE ringbuf_thread_dies
    <3>1. GuardTypeOK'
      BY <1>0, <2>2 DEF ringbuf_thread_dies, GuardTypeOK
    <3> QED BY <1>a, <1>u, <1>16, <2>2, <3>1 DEF GuardStep, ringbuf_thread_dies, TypeOK
  <2> QED BY <1>16, <2>1, <2>2 DEF GuardStep
<1>17. CASE ScriptStep
  <2>0. ASSUME NEW m \in Macs, NEW flag \in BOOLEAN, NEW lost \in BOOLEAN,
               SendNotify(m, flag, lost)
        PROVE  inbox' \in Seq(Commands)
    <3>1. [mac |-> m, flag |-> flag] \in Commands
      BY DEF Commands
    <3> QED BY <1>0, <2>0, <3>1 DEF SendNotify, SchedulerTypeOK
  <2>1. ASSUME NEW m \in Macs, NEW op \in AllOps, ActionNotify(m, op)
        PROVE  TypeOK'
    <3>1. inbox' \in Seq(Commands)
      <4>1. (op \in {"limit", "delay"}) \in BOOLEAN
        OBVIOUS
      <4>2. CASE Notifies(m, op)
        <5>1. PICK lost \in BOOLEAN : SendNotify(m, op \in {"limit", "delay"}, lost)
          BY <2>1, <4>2 DEF ActionNotify
        <5> QED BY <2>0, <4>1, <5>1
      <4>3. CASE ~Notifies(m, op)
        BY <1>0, <2>1, <4>3 DEF ActionNotify, SchedulerTypeOK
      <4> QED BY <4>2, <4>3
    <3>2. script' \subseteq Actions
      BY <2>1 DEF ActionNotify, Actions
    <3>e. excuse' \subseteq Excuses
      BY <1>0, <2>1 DEF ActionNotify, NotifyExcuse, SchedulerTypeOK, Excuses
    <3>3. SchedulerTypeOK'
      BY <1>0, <2>1, <3>1, <3>2, <3>e DEF ActionNotify, SchedulerTypeOK, schedVars
    <3> QED BY <1>a, <1>g, <2>1, <3>3 DEF ActionNotify, TypeOK
  <2>2. CASE ActionWriteRules
    <3>1. PICK a \in script : ActionWriteRules!(a)
      BY <2>2 DEF ActionWriteRules
    <3>2. a.mac \in Macs
      BY <1>0 DEF SchedulerTypeOK, Actions
    <3>3. rules' \subseteq Macs /\ delays' \subseteq Macs
      BY <1>0, <3>1, <3>2 DEF SchedulerTypeOK
    <3>4. SchedulerTypeOK'
      BY <1>0, <3>1, <3>3 DEF SchedulerTypeOK, schedVars, histVars, Commands
    <3> QED BY <1>a, <1>g, <3>1, <3>4 DEF TypeOK
  <2>3. CASE ActionUnwritten
    <3>1. SchedulerTypeOK'
      BY <1>0, <2>3 DEF ActionUnwritten, SchedulerTypeOK, schedVars, Commands, Excuses
    <3> QED BY <1>a, <1>g, <2>3, <3>1 DEF ActionUnwritten, TypeOK
  <2>4. CASE RecoveryScan
    <3>1. SchedulerTypeOK'
      BY <1>0, <2>4 DEF RecoveryScan, SchedulerTypeOK, schedVars, histVars, Commands
    <3> QED BY <1>a, <1>g, <2>4, <3>1 DEF RecoveryScan, TypeOK
  <2>5. ASSUME NEW m \in Macs, RecoveryNotify(m) PROVE TypeOK'
    <3>1. inbox' \in Seq(Commands)
      <4>1. PICK lost \in BOOLEAN : SendNotify(m, TRUE, lost)
        BY <2>5 DEF RecoveryNotify
      <4> QED BY <2>0, <4>1
    <3>2. excuse' \subseteq Excuses
      BY <1>0, <2>5 DEF RecoveryNotify, SchedulerTypeOK, Excuses
    <3>3. /\ UNCHANGED <<upstream, rules, delays, script, sweep, mpc, wpc, wnow, hold, schedVars>>
          /\ recovering' = recovering \ {m}
      BY <2>5 DEF RecoveryNotify
    <3>4. SchedulerTypeOK'
      BY <1>0, <3>1, <3>2, <3>3 DEF SchedulerTypeOK, schedVars
    <3> QED BY <1>a, <1>g, <2>5, <3>4 DEF RecoveryNotify, TypeOK
  <2>6. ASSUME NEW m \in Macs, CleanupClear(m) PROVE TypeOK'
    <3>1. inbox' \in Seq(Commands)
      <4>1. CASE Notifies(m, "clear")
        <5>1. PICK lost \in BOOLEAN : SendNotify(m, FALSE, lost)
          BY <2>6, <4>1 DEF CleanupClear
        <5> QED BY <2>0, <5>1
      <4>2. CASE ~Notifies(m, "clear")
        BY <1>0, <2>6, <4>2 DEF CleanupClear, SchedulerTypeOK
      <4> QED BY <4>1, <4>2
    <3>2. sweep' \subseteq Sweeps
      BY <2>6 DEF CleanupClear, Sweeps
    <3>3. excuse' \subseteq Excuses
      BY <1>0, <2>6 DEF CleanupClear, NotifyExcuse, SchedulerTypeOK, Excuses
    <3>4. SchedulerTypeOK'
      BY <1>0, <2>6, <3>1, <3>2, <3>3 DEF CleanupClear, SchedulerTypeOK, schedVars
    <3> QED BY <1>a, <1>g, <2>6, <3>4 DEF CleanupClear, TypeOK
  <2>7. CASE CleanupWriteRules
    <3>1. PICK a \in sweep : CleanupWriteRules!(a)
      BY <2>7 DEF CleanupWriteRules
    <3>2. a.mac \in Macs
      BY <1>0 DEF SchedulerTypeOK, Sweeps
    <3>3. rules' \subseteq Macs /\ sweep' \subseteq Sweeps
      BY <1>0, <3>1, <3>2 DEF SchedulerTypeOK, Sweeps
    <3>4. SchedulerTypeOK'
      BY <1>0, <3>1, <3>3 DEF SchedulerTypeOK, schedVars, histVars, Commands
    <3> QED BY <1>a, <1>g, <3>1, <3>4 DEF TypeOK
  <2>8. CASE CleanupRemove
    <3>1. PICK a \in sweep : CleanupRemove!(a)
      BY <2>8 DEF CleanupRemove
    <3>2. rules' \subseteq Macs /\ delays' \subseteq Macs /\ excuse' \subseteq Excuses
      BY <1>0, <3>1 DEF SchedulerTypeOK, Excuses
    <3>3. SchedulerTypeOK'
      BY <1>0, <3>1, <3>2 DEF SchedulerTypeOK, schedVars, Commands
    <3> QED BY <1>a, <1>g, <3>1, <3>3 DEF TypeOK
  <2>9. CASE CleanupUnwritten
    <3>1. SchedulerTypeOK'
      BY <1>0, <2>9 DEF CleanupUnwritten, SchedulerTypeOK, schedVars, Commands, Excuses
    <3> QED BY <1>a, <1>g, <2>9, <3>1 DEF CleanupUnwritten, TypeOK
  <2> QED
    BY <1>17, <2>1, <2>2, <2>3, <2>4, <2>5, <2>6, <2>7, <2>8, <2>9 DEF ScriptStep
<1>18. CASE UpstreamChange
  <2>1. SchedulerTypeOK'
    BY <1>0, <1>18 DEF UpstreamChange, SchedulerTypeOK, schedVars, histVars, Commands
  <2> QED BY <1>a, <1>g, <1>18, <2>1 DEF UpstreamChange, TypeOK
<1>19. CASE FrameworkStep
  <2>1. PICK i \in Ifaces : FrameworkEnter(i) \/ FrameworkWrite(i) \/ FrameworkDelete(i)
    BY <1>19 DEF FrameworkStep
  <2>2. AdapterTypeOK'
    BY <1>0, <1>a, <2>1
       DEF FrameworkEnter, FrameworkWrite, FrameworkDelete, AdapterTypeOK, Written, Quota
  <2>3. GuardTypeOK'
    <3>1. CASE FrameworkEnter(i)
      BY <1>0, <3>1, RingSizeAssumption DEF FrameworkEnter, hnc_check_bpf, GuardTypeOK
    <3>2. CASE FrameworkWrite(i)
      BY <1>0, <3>2 DEF FrameworkWrite, GuardTypeOK
    <3>3. CASE FrameworkDelete(i)
      BY <1>g, <3>3 DEF FrameworkDelete
    <3> QED BY <2>1, <3>1, <3>2, <3>3
  <2> QED BY <1>u, <1>19, <2>2, <2>3 DEF FrameworkStep, TypeOK
<1>20. CASE UNCHANGED vars
  BY <1>a, <1>g, <1>u, <1>20 DEF vars, TypeOK
<1> QED
  BY <1>1, <1>2, <1>3, <1>4, <1>5, <1>6, <1>7, <1>8, <1>9, <1>10, <1>11, <1>12, <1>13,
     <1>14, <1>15, <1>16, <1>17, <1>18, <1>19, <1>20
     DEF Next, MainStep, ClientCommand, ShutdownJoin, Crash

LEMMA InitType == Init => TypeOK
<1> SUFFICES ASSUME Init PROVE TypeOK
  OBVIOUS
<1>1. AdapterTypeOK
  BY DEF Init, AdapterInit, AdapterTypeOK, Quota, Entries
<1>2. GuardTypeOK
  BY RingSizeAssumption DEF Init, GuardInit, GuardTypeOK
<1>3. SchedulerTypeOK
  <2>1. inbox \in Seq(Commands)
    BY EmptySeqs DEF Init
  <2> QED BY <2>1 DEF Init, SchedulerTypeOK, MainStates
<1> QED BY <1>1, <1>2, <1>3 DEF TypeOK

(* Type correctness of the composed system: scheduler.c, adapter_bpf.c and the
   guard never leave their state spaces, whatever fails. *)
THEOREM TypeCorrect == Spec => []TypeOK
BY InitType, TypeStep, PTL DEF Spec

-----------------------------------------------------------------------------
(* What the two triggers guarantee, as far as the scheduler relies on it. *)
LEMMA DisableCovers ==
    ASSUME NEW i \in Ifaces, bpf_disable_upstream(i)
    PROVE  i \in disabled' \cup unrecorded'
BY DEF bpf_disable_upstream

LEMMA GlobalDisableGrows ==
    ASSUME bpf_disable_global
    PROVE  disabled \cup unrecorded \subseteq disabled' \cup unrecorded'
BY DEF bpf_disable_global, disabled_set_add_all

LEMMA RestoreClears ==
    ASSUME bpf_restore_global(TRUE)
    PROVE  disabled' = {} /\ ~globally_disabled'
<1>1. disabled' = {}
  BY DEF bpf_restore_global
<1>2. ~globally_disabled'
  BY Zenon DEF bpf_restore_global
<1> QED BY <1>1, <1>2

(* The strengthening that makes NoStrayDisable and PrimaryCovered inductive:
   where the main thread is says whether the limited set is empty, and a null
   or freshly reset adapter has nothing recorded. *)
LimitedByPhase ==
    /\ mpc = "rebuild_trigger" => limited # {}
    /\ mpc \in Startup \cup {"down", "force_restore"} => limited = {}
    /\ mpc = "down" \/ adapter = "null" => disabled = {} /\ ~globally_disabled

SafetyInv == TypeOK /\ LimitedByPhase /\ NoStrayDisable /\ PrimaryCovered

LEMMA SafetyStep == SafetyInv /\ [Next]_vars => SafetyInv'
<1> SUFFICES ASSUME SafetyInv, [Next]_vars PROVE SafetyInv'
  OBVIOUS
<1>t. TypeOK /\ TypeOK'
  BY TypeStep DEF SafetyInv
<1>r. /\ RefreshedPrimary \in Ifaces \cup {0}
      /\ RefreshedPrimary > 0 <=> RefreshedPrimary \in Ifaces
      /\ RefreshedPrimary <= 0 <=> RefreshedPrimary = 0
      /\ primary \in Ifaces \cup {0}
      /\ RefreshedPrimary = 0 => primary = 0
  BY <1>t, IfacesAssumption DEF RefreshedPrimary, TypeOK, SchedulerTypeOK
<1>i. LimitedByPhase /\ NoStrayDisable /\ PrimaryCovered
  BY DEF SafetyInv
<1>d. ASSUME trigger_adapter_disable(RefreshedPrimary), primary' = RefreshedPrimary
      PROVE  /\ adapter = "bpf" /\ primary' # 0 => primary' \in disabled' \cup unrecorded'
             /\ adapter = "null" => disabled' = disabled /\ globally_disabled' = globally_disabled
             /\ adapter = "bpf" \/ adapter = "null"
  BY <1>d, <1>r, DisableCovers DEF trigger_adapter_disable, adapterVars
<1>e. ASSUME trigger_adapter_restore
      PROVE  /\ hold' = {} /\ adapter = "bpf" => disabled' = {} /\ ~globally_disabled'
             /\ adapter = "null" => /\ disabled' = disabled
                                    /\ globally_disabled' = globally_disabled
                                    /\ hold' = hold
             /\ adapter = "bpf" \/ adapter = "null"
  BY <1>e, RestoreClears DEF trigger_adapter_restore, adapterVars
<1> USE DEF LimitedByPhase, NoStrayDisable, PrimaryCovered, Startup
<1>u. ASSUME UNCHANGED <<adapter, limited, primary, hold, mpc>>,
             UNCHANGED <<disabled, globally_disabled, unrecorded>>
      PROVE  LimitedByPhase' /\ NoStrayDisable' /\ PrimaryCovered'
  BY <1>i, <1>u
<1> SUFFICES LimitedByPhase' /\ NoStrayDisable' /\ PrimaryCovered'
  BY <1>t DEF SafetyInv
<1>1. CASE LsmCall
  BY <1>i, <1>1 DEF LsmCall, schedVars, histVars, adapterVars
<1>2. CASE LsmAttach
  BY <1>i, <1>2 DEF LsmAttach, schedVars, histVars, adapterVars
<1>3. CASE LsmStartConsumer
  BY <1>i, <1>3 DEF LsmStartConsumer, schedVars, histVars, adapterVars
<1>4. CASE rebuild_from_rules
  BY <1>i, <1>4 DEF rebuild_from_rules, adapterVars
<1>5. CASE RebuildTrigger
  BY <1>i, <1>5, <1>d DEF RebuildTrigger, histVars
<1>6. CASE hnc_scheduler_notify_device_limit_changed
  <2>1. adapter' = adapter /\ mpc = "idle"
    BY <1>6 DEF hnc_scheduler_notify_device_limit_changed
  <2>2. ASSUME NEW L, NotifyFrom(L) PROVE LimitedByPhase' /\ NoStrayDisable' /\ PrimaryCovered'
    <3>1. CASE limited = {} /\ L # {} /\ primary' = RefreshedPrimary
               /\ trigger_adapter_disable(RefreshedPrimary) /\ mpc' = "request" /\ UNCHANGED hold
      BY <1>i, <1>d, <2>1, <2>2, <3>1 DEF NotifyFrom
    <3>2. CASE limited # {} /\ L = {} /\ trigger_adapter_restore /\ mpc' = "request"
      BY <1>i, <1>e, <2>1, <2>2, <3>2 DEF NotifyFrom
    <3>3. CASE ((limited = {}) <=> (L = {})) /\ UNCHANGED <<primary, mpc, hold>>
               /\ UNCHANGED adapterVars
      BY <1>i, <2>1, <2>2, <3>3 DEF NotifyFrom, adapterVars
    <3> QED BY <2>2, <3>1, <3>2, <3>3 DEF NotifyFrom
  <2>3. CASE UNCHANGED <<limited, primary, mpc, hold, excuse>> /\ UNCHANGED adapterVars
    BY <1>u, <2>1, <2>3 DEF adapterVars
  <2> QED BY <1>6, <2>2, <2>3 DEF hnc_scheduler_notify_device_limit_changed
<1>7. CASE RequestAfterNotify
  BY <1>i, <1>7 DEF RequestAfterNotify, histVars, adapterVars
<1>8. CASE ForceRestoreAdapter
  BY <1>i, <1>e, <1>8 DEF ForceRestoreAdapter, schedVars
<1>9. ASSUME ProcessGone PROVE LimitedByPhase' /\ NoStrayDisable' /\ PrimaryCovered'
  BY <1>9 DEF ProcessGone, AdapterReset
<1>10. CASE hnc_scheduler_init
  BY <1>i, <1>10 DEF hnc_scheduler_init, histVars, adapterVars
<1>11. CASE hnc_scheduler_request_refresh
  BY <1>u, <1>11 DEF hnc_scheduler_request_refresh, histVars, adapterVars
<1>12. CASE hnc_scheduler_force_disable_global
  <2>1. UNCHANGED <<adapter, limited, primary, mpc>> /\ mpc = "idle"
    BY <1>12 DEF hnc_scheduler_force_disable_global, schedVars
  <2>2. CASE adapter = "null" /\ UNCHANGED <<adapterVars, hold>>
    BY <1>u, <2>1, <2>2 DEF adapterVars
  <2>3. CASE adapter = "bpf" /\ bpf_disable_global /\ hold' = hold \cup {"forced"}
    BY <1>i, <2>1, <2>3, GlobalDisableGrows
  <2> QED BY <1>12, <2>2, <2>3 DEF hnc_scheduler_force_disable_global
<1>13. CASE ForceRestoreClear
  BY <1>i, <1>13 DEF ForceRestoreClear, adapterVars
<1>14. CASE hnc_scheduler_shutdown
  BY <1>i, <1>14 DEF hnc_scheduler_shutdown, histVars, adapterVars
<1>15. CASE WorkerStep
  <2>1. CASE WorkerProbe
    <3>1. UNCHANGED <<adapter, limited, hold, mpc>> /\ primary' = RefreshedPrimary
      BY <2>1 DEF WorkerProbe, histVars
    <3>2. CASE NeedRetrigger(primary, RefreshedPrimary) /\ trigger_adapter_disable(RefreshedPrimary)
      BY <1>i, <1>d, <3>1, <3>2 DEF NeedRetrigger
    <3>3. CASE ~NeedRetrigger(primary, RefreshedPrimary) /\ UNCHANGED adapterVars
      BY <1>i, <1>r, <3>1, <3>3 DEF NeedRetrigger, adapterVars
    <3> QED BY <2>1, <3>2, <3>3 DEF WorkerProbe
  <2>2. CASE WorkerWake \/ WorkerLsmUpdate \/ WorkerRefresh
    BY <1>u, <2>2 DEF WorkerWake, WorkerLsmUpdate, WorkerRefresh, schedVars, histVars, adapterVars
  <2> QED BY <1>15, <2>1, <2>2 DEF WorkerStep
<1>16. CASE GuardStep
  BY <1>u, <1>16
     DEF GuardStep, ringbuf_handle_event, ringbuf_thread_dies, schedVars, histVars, adapterVars
<1>17. CASE ScriptStep
  BY <1>u, <1>17 DEF ScriptStep, ActionNotify, ActionWriteRules, ActionUnwritten,
         RecoveryScan, RecoveryNotify, CleanupClear, CleanupWriteRules, CleanupRemove,
         CleanupUnwritten, schedVars, histVars, adapterVars
<1>18. CASE UpstreamChange
  BY <1>u, <1>18 DEF UpstreamChange, schedVars, histVars, adapterVars
<1>19. CASE FrameworkStep
  BY <1>u, <1>19 DEF FrameworkStep, FrameworkEnter, FrameworkWrite, FrameworkDelete,
     schedVars, histVars, adapterVars
<1>20. CASE UNCHANGED vars
  BY <1>u, <1>20 DEF vars, schedVars, histVars, adapterVars
<1> QED
  BY <1>1, <1>2, <1>3, <1>4, <1>5, <1>6, <1>7, <1>8, <1>9, <1>10, <1>11, <1>12, <1>13,
     <1>14, <1>15, <1>16, <1>17, <1>18, <1>19, <1>20
     DEF Next, MainStep, ClientCommand, ShutdownJoin, Crash

LEMMA SafetyAlways == Spec => []SafetyInv
<1>1. Init => SafetyInv
  BY InitType DEF Init, AdapterInit, SafetyInv, LimitedByPhase, NoStrayDisable, PrimaryCovered, Startup
<1> QED BY <1>1, SafetyStep, PTL DEF Spec

(* With no device limited nothing stays recorded as disabled, whatever the
   worker, the clients and the crashes do (scheduler.c notify / force_restore /
   worker_main against adapter_bpf.c restore_global). *)
THEOREM NoStrayDisableAlways == Spec => []NoStrayDisable
<1>1. SafetyInv => NoStrayDisable
  BY DEF SafetyInv
<1> QED BY <1>1, SafetyAlways, PTL

(* While a device is limited the upstream the scheduler believes in has been
   disabled, however often it moved (scheduler.c worker_main need_retrigger,
   notify, init). *)
THEOREM PrimaryCoveredAlways == Spec => []PrimaryCovered
<1>1. SafetyInv => PrimaryCovered
  BY DEF SafetyInv
<1> QED BY <1>1, SafetyAlways, PTL

-----------------------------------------------------------------------------
(* StatusHonest and StatusComplete together: the adapter's table and the
   kernel map agree up to the history sets. *)
StatusInv == TypeOK /\ StatusHonest /\ StatusComplete

LEMMA StatusStep == StatusInv /\ [Next]_vars => StatusInv'
<1> SUFFICES ASSUME StatusInv, [Next]_vars PROVE StatusInv'
  OBVIOUS
<1>t. TypeOK /\ TypeOK' /\ limit_map \in [Ifaces -> Quota] /\ disabled \subseteq Ifaces
  BY TypeStep DEF StatusInv, TypeOK, AdapterTypeOK
<1>i. StatusHonest /\ StatusComplete
  BY DEF StatusInv
<1> SUFFICES StatusHonest' /\ StatusComplete'
  BY <1>t DEF StatusInv
<1> USE DEF StatusHonest, StatusComplete
<1>u. UNCHANGED adapterVars => StatusHonest' /\ StatusComplete'
  BY <1>i DEF adapterVars
<1>1. ASSUME NEW i \in Ifaces, bpf_disable_upstream(i) PROVE StatusHonest' /\ StatusComplete'
  BY <1>i, <1>t, <1>1 DEF bpf_disable_upstream, disabled_set_add, Written
<1>2. ASSUME bpf_disable_global PROVE StatusHonest' /\ StatusComplete'
  <2>1. PICK w \in WalkOutcomes :
          /\ limit_map' = Written(w.done, "zero")
          /\ disabled' \in disabled_set_add_all(disabled, w.done)
          /\ overwritten' = overwritten \ w.done
          /\ orphaned' = orphaned \ w.done
          /\ unrecorded' = (unrecorded \cup w.done) \ disabled'
    BY <1>2 DEF bpf_disable_global
  <2>2. disabled \subseteq disabled' /\ disabled' \subseteq disabled \cup w.done
    BY <2>1 DEF disabled_set_add_all
  <2>3. w.done \subseteq Ifaces
    BY DEF WalkOutcomes, Entries
  <2> QED BY <1>i, <1>t, <2>1, <2>2, <2>3 DEF Written
<1>3. ASSUME NEW ok \in BOOLEAN, bpf_restore_global(ok) PROVE StatusHonest' /\ StatusComplete'
  <2>1. PICK w \in WalkOutcomes :
          /\ ok = ~w.errs
          /\ limit_map' = Written(w.done, "none")
          /\ disabled' = IF ok THEN {} ELSE disabled \ w.done
          /\ overwritten' = overwritten \ w.done
          /\ orphaned' = orphaned \ w.done
          /\ unrecorded' = IF ok THEN {} ELSE unrecorded
    BY <1>3 DEF bpf_restore_global
  <2>2. ok => w.done = Entries
    BY <2>1 DEF WalkOutcomes
  <2> QED BY <1>i, <1>t, <2>1, <2>2 DEF Written, Entries
<1>4. AdapterReset => StatusHonest' /\ StatusComplete'
  BY DEF AdapterReset
<1>5. trigger_adapter_disable(RefreshedPrimary) => StatusHonest' /\ StatusComplete'
  <2>1. RefreshedPrimary > 0 => RefreshedPrimary \in Ifaces
    BY <1>t, IfacesAssumption DEF RefreshedPrimary, TypeOK, SchedulerTypeOK
  <2> QED BY <1>u, <1>1, <1>2, <2>1 DEF trigger_adapter_disable
<1>6. trigger_adapter_restore => StatusHonest' /\ StatusComplete'
  BY <1>u, <1>3 DEF trigger_adapter_restore
<1> HIDE DEF StatusHonest, StatusComplete
<1>7. CASE MainStep
  <2>1. CASE hnc_scheduler_notify_device_limit_changed
    BY <1>u, <1>5, <1>6, <2>1 DEF hnc_scheduler_notify_device_limit_changed, NotifyFrom
  <2> QED
    BY <1>u, <1>4, <1>5, <1>6, <1>7, <2>1
       DEF MainStep, LsmCall, LsmAttach, LsmStartConsumer, rebuild_from_rules, RebuildTrigger,
           RequestAfterNotify, ForceRestoreAdapter, ShutdownJoin, ProcessGone
<1>8. CASE ClientCommand
  BY <1>u, <1>2, <1>8
     DEF ClientCommand, hnc_scheduler_init, hnc_scheduler_request_refresh,
         hnc_scheduler_force_disable_global, ForceRestoreClear, hnc_scheduler_shutdown
<1>9. CASE WorkerStep
  BY <1>u, <1>5, <1>9
     DEF WorkerStep, WorkerWake, WorkerProbe, WorkerLsmUpdate, WorkerRefresh
<1>10. CASE GuardStep
  <2>1. CASE ringbuf_thread_dies
    BY <1>u, <2>1 DEF ringbuf_thread_dies
  <2>2. CASE ringbuf_handle_event
    BY <1>i, <1>t, <2>2 DEF ringbuf_handle_event, Written, StatusHonest, StatusComplete
  <2> QED BY <1>10, <2>1, <2>2 DEF GuardStep
<1>11. CASE FrameworkStep
  <2>1. PICK i \in Ifaces : FrameworkEnter(i) \/ FrameworkWrite(i) \/ FrameworkDelete(i)
    BY <1>11 DEF FrameworkStep
  <2> QED BY <1>i, <1>t, <1>u, <2>1
    DEF FrameworkEnter, FrameworkWrite, FrameworkDelete, Written, StatusHonest, StatusComplete
<1>12. CASE ScriptStep \/ UpstreamChange \/ UNCHANGED vars
  BY <1>u, <1>12 DEF ScriptStep, ActionNotify, ActionWriteRules, ActionUnwritten,
         RecoveryScan, RecoveryNotify, CleanupClear, CleanupWriteRules, CleanupRemove,
         CleanupUnwritten, UpstreamChange, vars
<1>13. CASE Crash
  BY <1>4, <1>13 DEF Crash, ProcessGone
<1> QED BY <1>7, <1>8, <1>9, <1>10, <1>11, <1>12, <1>13 DEF Next

LEMMA StatusAlways == Spec => []StatusInv
<1>1. Init => StatusInv
  BY InitType DEF Init, AdapterInit, StatusInv, StatusHonest, StatusComplete
<1> QED BY <1>1, StatusStep, PTL DEF Spec

(* What status() calls disabled is 0 in the kernel map unless the framework
   wrote it since (adapter_bpf.c). *)
THEOREM StatusHonestAlways == Spec => []StatusHonest
<1>1. StatusInv => StatusHonest
  BY DEF StatusInv
<1> QED BY <1>1, StatusAlways, PTL

(* Every 0 in the kernel map is accounted for (adapter_bpf.c restore_global
   resets its table only after a walk without errors). *)
THEOREM StatusCompleteAlways == Spec => []StatusComplete
<1>1. StatusInv => StatusComplete
  BY DEF StatusInv
<1> QED BY <1>1, StatusAlways, PTL

-----------------------------------------------------------------------------
(* What limited_set_add and disabled_set_add share: an array that drops what
   does not fit never outgrows its capacity. *)
LEMMA AddBounded ==
    ASSUME NEW S, IsFiniteSet(S), NEW x, NEW n \in Nat, Cardinality(S) <= n
    PROVE  /\ Cardinality(IF x \in S \/ Cardinality(S) < n THEN S \cup {x} ELSE S) <= n
           /\ Cardinality(S \ {x}) <= n
<1>1. Cardinality(S) \in Nat
  BY FS_CardinalityType
<1>2. x \in S => S \cup {x} = S
  OBVIOUS
<1>3. x \notin S => Cardinality(S \cup {x}) = Cardinality(S) + 1
  BY FS_AddElement
<1>4. Cardinality(S \ {x}) <= Cardinality(S) /\ Cardinality(S \ {x}) \in Nat
  BY FS_Subset, FS_CardinalityType
<1> QED BY <1>1, <1>2, <1>3, <1>4

(* Every step of Next keeps both tables within their arrays. *)
LEMMA TablesStep == TypeOK /\ TablesBounded /\ [Next]_vars => TablesBounded'
<1> SUFFICES ASSUME TypeOK, TablesBounded, [Next]_vars PROVE TablesBounded'
  OBVIOUS
<1>t. /\ limited \subseteq Macs /\ disabled \subseteq Ifaces
      /\ Cardinality(limited) <= MaxLimited /\ Cardinality(disabled) <= MaxDisabled
  BY DEF TypeOK, AdapterTypeOK, SchedulerTypeOK, TablesBounded
<1>f. IsFiniteSet(limited) /\ IsFiniteSet(disabled)
  BY <1>t, MacsAssumption, IfacesAssumption, FS_Subset
<1>e. Cardinality({}) <= MaxLimited /\ Cardinality({}) <= MaxDisabled
  BY FS_EmptySet, MaxLimitedAssumption, MaxDisabledAssumption
<1> DEFINE LB == Cardinality(limited') <= MaxLimited
           DB == Cardinality(disabled') <= MaxDisabled
<1>l. UNCHANGED limited => LB
  BY <1>t
<1>d. UNCHANGED disabled => DB
  BY <1>t
<1> SUFFICES LB /\ DB
  BY DEF TablesBounded
<1>1. ASSUME NEW i, bpf_disable_upstream(i) PROVE DB
  BY <1>t, <1>f, <1>1, AddBounded, MaxDisabledAssumption
     DEF bpf_disable_upstream, disabled_set_add
<1>2. ASSUME bpf_disable_global PROVE DB
  BY <1>2 DEF bpf_disable_global, disabled_set_add_all
<1>3. ASSUME NEW ok, bpf_restore_global(ok) PROVE DB
  <2>1. disabled' \subseteq disabled
    BY <1>3 DEF bpf_restore_global
  <2>2. Cardinality(disabled') <= Cardinality(disabled) /\ IsFiniteSet(disabled')
    BY <1>f, <2>1, FS_Subset
  <2>3. Cardinality(disabled') \in Nat /\ Cardinality(disabled) \in Nat
    BY <1>f, <2>2, FS_CardinalityType
  <2> QED BY <1>t, <2>2, <2>3, MaxDisabledAssumption
<1>4. ASSUME NEW i, trigger_adapter_disable(i) PROVE DB
  BY <1>d, <1>1, <1>2, <1>4 DEF trigger_adapter_disable, adapterVars
<1>5. ASSUME trigger_adapter_restore PROVE DB
  BY <1>d, <1>3, <1>5 DEF trigger_adapter_restore, adapterVars
<1>6. ASSUME ProcessGone PROVE LB /\ DB
  BY <1>e, <1>6 DEF ProcessGone, AdapterReset
<1>7. CASE hnc_scheduler_notify_device_limit_changed
  <2> DEFINE c == Head(inbox)
             L == IF c.flag THEN limited_set_add(limited, c.mac)
                            ELSE limited_set_remove(limited, c.mac)
  <2>1. Cardinality(L) <= MaxLimited
    BY <1>t, <1>f, AddBounded, MaxLimitedAssumption DEF limited_set_add, limited_set_remove
  <2>2. ASSUME NotifyFrom(L) PROVE limited' = L /\ DB
    BY <1>d, <1>4, <1>5, <2>2 DEF NotifyFrom, adapterVars
  <2> HIDE DEF c, L
  <2>3. (UNCHANGED limited /\ UNCHANGED adapterVars) \/ NotifyFrom(L)
    BY <1>7 DEF hnc_scheduler_notify_device_limit_changed, c, L
  <2> QED BY <1>l, <1>d, <2>1, <2>2, <2>3 DEF adapterVars
<1>8. CASE rebuild_from_rules
  BY <1>d, <1>8 DEF rebuild_from_rules, adapterVars
<1> HIDE DEF LB, DB
<1>9. CASE MainStep
  BY <1>l, <1>d, <1>4, <1>5, <1>6, <1>7, <1>8, <1>9
     DEF MainStep, LsmCall, LsmAttach, LsmStartConsumer, RebuildTrigger, RequestAfterNotify,
         ForceRestoreAdapter, ShutdownJoin, schedVars, adapterVars
<1>10. CASE ClientCommand
  <2>1. CASE ForceRestoreClear
    BY <1>d, <1>e, <2>1 DEF ForceRestoreClear, adapterVars, LB
  <2> QED BY <1>l, <1>d, <1>2, <1>10, <2>1
     DEF ClientCommand, hnc_scheduler_init, hnc_scheduler_request_refresh, schedVars,
         hnc_scheduler_force_disable_global, hnc_scheduler_shutdown, adapterVars
<1>11. CASE WorkerStep
  BY <1>l, <1>d, <1>4, <1>11
     DEF WorkerStep, WorkerWake, WorkerProbe, WorkerLsmUpdate, WorkerRefresh, schedVars, adapterVars
<1>12. CASE GuardStep \/ FrameworkStep
  BY <1>l, <1>d, <1>12
     DEF GuardStep, ringbuf_handle_event, ringbuf_thread_dies, FrameworkStep, FrameworkEnter,
         FrameworkWrite, FrameworkDelete, schedVars, adapterVars
<1>13. CASE ScriptStep \/ UpstreamChange \/ UNCHANGED vars
  BY <1>l, <1>d, <1>13
     DEF ScriptStep, ActionNotify, ActionWriteRules, ActionUnwritten, RecoveryScan,
         RecoveryNotify, CleanupClear, CleanupWriteRules, CleanupRemove, CleanupUnwritten,
         UpstreamChange, vars, schedVars, adapterVars
<1>14. CASE Crash
  BY <1>6, <1>14 DEF Crash
<1> QED BY <1>9, <1>10, <1>11, <1>12, <1>13, <1>14 DEF Next

(* limited_macs and disabled_upstream_ifindex are never written past their
   ends, for every capacity: scheduler.c limited_set_add and rebuild_from_rules,
   adapter_bpf.c disabled_set_add, in every order of notify, rebuild, retrigger
   and whole-map walks. *)
THEOREM TablesBoundedAlways == Spec => []TablesBounded
<1>1. Init => TablesBounded
  BY FS_EmptySet, MaxLimitedAssumption, MaxDisabledAssumption DEF Init, AdapterInit, TablesBounded
<1> QED BY <1>1, InitType, TypeStep, TablesStep, PTL DEF Spec

-----------------------------------------------------------------------------
(* The devices rules.json will shape once the owed write, if any, is made, and the
   cleanup, if one runs, has cleared its limit. *)
Owed(op) == {a.mac : a \in {b \in script : b.op = op}}

Swept == {a.mac : a \in sweep}

ShapedSoon ==
    (((rules \cup Owed("limit")) \ Owed("clear")) \ Swept)
        \cup ((delays \cup Owed("delay")) \ Owed("undelay"))

(* The command at k is the last one waiting for its device. *)
LastFor(k) == \A j \in DOMAIN inbox : j > k => inbox[j].mac # inbox[k].mac

Unannounced(m) == \A k \in DOMAIN inbox : inbox[k].mac # m

(* The excuses that may leave a waiting command out of date. *)
Misleading == {"unwritten", "stale_recovery", "timed_out", "swept"}

(* A device's last waiting command says what rules.json will say, unless a write
   failed, a recovery was stale, a later command was lost or a cleanup met an action. *)
CommandsTell ==
    excuse \cap Misleading = {}
        => \A k \in DOMAIN inbox : LastFor(k) => (inbox[k].flag <=> inbox[k].mac \in ShapedSoon)

(* A device with no command waiting is in the set exactly if rules.json will
   shape it. *)
SetTells ==
    initialized /\ mpc \notin Startup /\ excuse = {}
        => \A m \in Macs : Unannounced(m) => (m \in limited <=> m \in ShapedSoon)

OneScript == script = {} \/ \E a \in Actions : script = {a}

OneSweep == sweep = {} \/ \E a \in Sweeps : sweep = {a}

(* The strengthening that makes RulesAgree inductive: it speaks of the states
   in which commands wait and a write is owed, too. *)
RulesInv ==
    /\ mpc = "down" => inbox = <<>> /\ ~initialized
    /\ OneScript /\ OneSweep
    /\ CommandsTell
    /\ SetTells

LEMMA RulesInvImplies == TypeOK /\ RulesInv => RulesAgree
<1> SUFFICES ASSUME TypeOK, RulesInv, mpc = "idle", initialized, inbox = <<>>,
                    script = {}, sweep = {}, excuse = {}
             PROVE  limited = rules \cup delays
  BY DEF RulesAgree
<1>1. limited \subseteq Macs /\ rules \subseteq Macs /\ delays \subseteq Macs
  BY DEF TypeOK, SchedulerTypeOK
<1>2. ShapedSoon = rules \cup delays
  BY DEF ShapedSoon, Owed, Swept
<1>3. \A m \in Macs : Unannounced(m)
  BY DEF Unannounced
<1> QED BY <1>1, <1>2, <1>3 DEF RulesInv, SetTells, Startup

(* One more command for m changes what waits for m, and for nobody else. *)
LEMMA AppendCommand ==
    ASSUME TypeOK, NEW m \in Macs, NEW flag \in BOOLEAN,
           inbox' = Append(inbox, [mac |-> m, flag |-> flag])
    PROVE  /\ Len(inbox') = Len(inbox) + 1 /\ Len(inbox) \in Nat
           /\ DOMAIN inbox = 1..Len(inbox) /\ DOMAIN inbox' = 1..Len(inbox')
           /\ \A k \in DOMAIN inbox : inbox'[k] = inbox[k]
           /\ inbox'[Len(inbox')].mac = m /\ inbox'[Len(inbox')].flag = flag
           /\ \A k \in DOMAIN inbox' : LastFor(k)' =>
                 k = Len(inbox') \/ (k \in DOMAIN inbox /\ inbox[k].mac # m /\ LastFor(k))
           /\ \A n \in Macs : Unannounced(n)' => n # m /\ Unannounced(n)
<1>0. inbox \in Seq(Commands)
  BY DEF TypeOK, SchedulerTypeOK
<1>1. /\ Len(inbox') = Len(inbox) + 1 /\ Len(inbox) \in Nat
      /\ DOMAIN inbox = 1..Len(inbox) /\ DOMAIN inbox' = 1..Len(inbox')
      /\ \A k \in DOMAIN inbox : inbox'[k] = inbox[k]
      /\ inbox'[Len(inbox')] = [mac |-> m, flag |-> flag]
  BY <1>0
<1>2. ASSUME NEW k \in DOMAIN inbox', LastFor(k)', k # Len(inbox')
      PROVE  k \in DOMAIN inbox /\ inbox[k].mac # m /\ LastFor(k)
  <2>1. k \in DOMAIN inbox /\ k < Len(inbox')
    BY <1>1, <1>2
  <2>2. \A j \in DOMAIN inbox' : j > k => inbox'[j].mac # inbox'[k].mac
    BY <1>2 DEF LastFor
  <2>3. inbox'[Len(inbox')].mac # inbox'[k].mac
    BY <1>1, <2>1, <2>2
  <2>4. LastFor(k)
    BY <1>1, <2>1, <2>2 DEF LastFor
  <2> QED BY <1>1, <2>1, <2>3, <2>4
<1>3. \A n \in Macs : Unannounced(n)' => n # m /\ Unannounced(n)
  BY <1>1 DEF Unannounced
<1> QED BY <1>1, <1>2, <1>3

(* Answering the first command leaves the last one of every other device, and
   of its own device if there is a later one. *)
LEMMA TailCommand ==
    ASSUME TypeOK, inbox # <<>>, inbox' = Tail(inbox)
    PROVE  /\ 1 \in DOMAIN inbox /\ inbox[1] = Head(inbox) /\ Head(inbox) \in Commands
           /\ \A k \in DOMAIN inbox' : /\ k + 1 \in DOMAIN inbox /\ inbox'[k] = inbox[k+1]
                                       /\ LastFor(k)' => LastFor(k+1)
           /\ \A m \in Macs : Unannounced(m)' =>
                 IF m = Head(inbox).mac THEN LastFor(1) ELSE Unannounced(m)
<1>0. inbox \in Seq(Commands)
  BY DEF TypeOK, SchedulerTypeOK
<1>1. /\ Len(inbox') = Len(inbox) - 1 /\ Len(inbox) \in Nat \ {0}
      /\ DOMAIN inbox = 1..Len(inbox) /\ DOMAIN inbox' = 1..Len(inbox')
      /\ \A k \in DOMAIN inbox' : inbox'[k] = inbox[k+1]
      /\ inbox[1] = Head(inbox) /\ Head(inbox) \in Commands
  BY <1>0
<1>2. \A j \in DOMAIN inbox : j > 1 => j - 1 \in DOMAIN inbox' /\ inbox'[j-1] = inbox[j]
  BY <1>1
<1>3. ASSUME NEW k \in DOMAIN inbox', LastFor(k)' PROVE LastFor(k+1)
  <2>1. \A j \in DOMAIN inbox' : j > k => inbox'[j].mac # inbox'[k].mac
    BY <1>3 DEF LastFor
  <2>2. ASSUME NEW j \in DOMAIN inbox, j > k + 1 PROVE inbox[j].mac # inbox[k+1].mac
    <3>1. j - 1 \in DOMAIN inbox' /\ j - 1 > k /\ inbox'[j-1] = inbox[j]
      BY <1>1, <1>2, <2>2
    <3> QED BY <1>1, <2>1, <3>1
  <2> QED BY <2>2 DEF LastFor
<1>4. ASSUME NEW m \in Macs, Unannounced(m)'
      PROVE  IF m = Head(inbox).mac THEN LastFor(1) ELSE Unannounced(m)
  <2>1. \A j \in DOMAIN inbox : j > 1 => inbox[j].mac # m
    BY <1>2, <1>4 DEF Unannounced
  <2>2. \A j \in DOMAIN inbox : j = 1 \/ j > 1
    BY <1>1
  <2> QED BY <1>1, <2>1, <2>2 DEF Unannounced, LastFor
<1>5. \A k \in DOMAIN inbox' : k + 1 \in DOMAIN inbox
  BY <1>1
<1> QED BY <1>1, <1>3, <1>4, <1>5

(* Announcing an action changes the outlook of its device only, to what the
   command says, or not at all when no command is sent; so long as no cleanup is
   at the same device. *)
LEMMA ShapedByNotify ==
    ASSUME NEW m \in Macs, NEW op \in AllOps, ActionNotify(m, op), ~Busy(sweep, m)
    PROVE  /\ \A n \in Macs : n # m => (n \in ShapedSoon' <=> n \in ShapedSoon)
           /\ Notifies(m, op) => (m \in ShapedSoon' <=> op \in {"limit", "delay"})
           /\ ~Notifies(m, op) => (m \in ShapedSoon' <=> m \in ShapedSoon)
<1>1. /\ script = {} /\ script' = {[mac |-> m, op |-> op]}
      /\ UNCHANGED <<rules, delays, sweep>>
  BY DEF ActionNotify
<1>2. ShapedSoon = (rules \ Swept) \cup delays /\ m \notin Swept
  BY <1>1 DEF ShapedSoon, Owed, Swept, Busy
<1>3. \A o : Owed(o)' = IF o = op THEN {m} ELSE {}
  <2>1. PICK r : r = [mac |-> m, op |-> op]
    OBVIOUS
  <2>2. r.mac = m /\ r.op = op /\ script' = {r}
    BY <1>1, <2>1
  <2> QED BY <2>2 DEF Owed
<1>4. ShapedSoon' = (((rules \cup Owed("limit")') \ Owed("clear")') \ Swept)
                       \cup ((delays \cup Owed("delay")') \ Owed("undelay")')
  BY <1>1 DEF ShapedSoon, Swept
<1> HIDE DEF ShapedSoon
<1>5. CASE op = "limit"
  BY <1>2, <1>3, <1>4, <1>5 DEF Notifies
<1>6. CASE op = "clear"
  BY <1>2, <1>3, <1>4, <1>6 DEF Notifies
<1>7. CASE op = "delay"
  BY <1>2, <1>3, <1>4, <1>7 DEF Notifies
<1>8. CASE op = "undelay"
  BY <1>2, <1>3, <1>4, <1>8 DEF Notifies
<1> QED BY <1>5, <1>6, <1>7, <1>8 DEF AllOps

(* The owed write makes true what was expected of it. *)
LEMMA ShapedByWrite ==
    ASSUME OneScript, ActionWriteRules
    PROVE  ShapedSoon' = ShapedSoon /\ script' = {}
<1>1. PICK a \in script : ActionWriteRules!(a)
  BY DEF ActionWriteRules
<1>2. script = {a} /\ a.op \in AllOps
  BY DEF OneScript, Actions
<1>3. \A o : Owed(o) = IF o = a.op THEN {a.mac} ELSE {}
  BY <1>2 DEF Owed
<1>4. ShapedSoon' = (rules' \ Swept) \cup delays'
  BY <1>1 DEF ShapedSoon, Owed, Swept
<1>5. CASE a.op = "limit"
  BY <1>1, <1>3, <1>4, <1>5 DEF ShapedSoon
<1>6. CASE a.op = "clear"
  BY <1>1, <1>3, <1>4, <1>6 DEF ShapedSoon
<1>7. CASE a.op = "delay"
  BY <1>1, <1>3, <1>4, <1>7 DEF ShapedSoon
<1>8. CASE a.op = "undelay"
  BY <1>1, <1>3, <1>4, <1>8 DEF ShapedSoon
<1> QED BY <1>1, <1>2, <1>5, <1>6, <1>7, <1>8 DEF AllOps

(* A cleanup that begins takes its device out of the outlook, or a delay keeps it
   there; so long as no action is at the same device. *)
LEMMA ShapedByClear ==
    ASSUME NEW m \in Macs, CleanupClear(m), ~Busy(script, m)
    PROVE  /\ \A n \in Macs : n # m => (n \in ShapedSoon' <=> n \in ShapedSoon)
           /\ Notifies(m, "clear") => m \notin ShapedSoon'
           /\ ~Notifies(m, "clear") => (m \in ShapedSoon' <=> m \in ShapedSoon)
<1>1. /\ sweep = {} /\ sweep' = {[mac |-> m, op |-> "clear"]}
      /\ UNCHANGED <<rules, delays, script>>
  BY DEF CleanupClear
<1>2. Swept = {} /\ Swept' = {m} /\ \A o : Owed(o)' = Owed(o) /\ m \notin Owed(o)
  <2>1. Swept' = {m}
    BY <1>1 DEF Swept
  <2> QED BY <1>1, <2>1 DEF Swept, Owed, Busy
<1>3. \A n : n \in ShapedSoon' <=>
        \/ (n \in rules \/ n \in Owed("limit")) /\ n \notin Owed("clear") /\ n # m
        \/ (n \in delays \/ n \in Owed("delay")) /\ n \notin Owed("undelay")
  BY <1>1, <1>2 DEF ShapedSoon
<1>4. \A n : n \in ShapedSoon <=>
        \/ (n \in rules \/ n \in Owed("limit")) /\ n \notin Owed("clear")
        \/ (n \in delays \/ n \in Owed("delay")) /\ n \notin Owed("undelay")
  BY <1>2 DEF ShapedSoon
<1>5. Notifies(m, "clear") <=> m \notin delays
  BY DEF Notifies
<1> QED BY <1>2, <1>3, <1>4, <1>5

(* The cleanup's clear and, when no delay goes with it, its device_remove make true
   what was expected of it. *)
LEMMA ShapedByCleanup ==
    ASSUME OneSweep
    PROVE  /\ CleanupWriteRules => ShapedSoon' = ShapedSoon /\ OneSweep'
           /\ CleanupRemove /\ "swept" \notin excuse' => ShapedSoon' = ShapedSoon
<1>1. ASSUME CleanupWriteRules PROVE ShapedSoon' = ShapedSoon /\ OneSweep'
  <2>1. PICK a \in sweep : CleanupWriteRules!(a)
    BY <1>1 DEF CleanupWriteRules
  <2>2. sweep = {a} /\ a.mac \in Macs
    BY DEF OneSweep, Sweeps
  <2>3. Swept = {a.mac} /\ Swept' = {a.mac} /\ OneSweep'
    BY <2>1, <2>2 DEF Swept, OneSweep, Sweeps
  <2>4. \A o : Owed(o)' = Owed(o)
    BY <2>1 DEF Owed
  <2>5. delays' = delays /\ rules' \ {a.mac} = rules \ {a.mac}
    BY <2>1
  <2>6. ((rules' \cup Owed("limit")) \ Owed("clear")) \ {a.mac}
          = ((rules \cup Owed("limit")) \ Owed("clear")) \ {a.mac}
    BY <2>5
  <2> QED BY <2>3, <2>4, <2>5, <2>6 DEF ShapedSoon
<1>2. ASSUME CleanupRemove, "swept" \notin excuse' PROVE ShapedSoon' = ShapedSoon
  <2>1. PICK a \in sweep : CleanupRemove!(a)
    BY <1>2 DEF CleanupRemove
  <2>2. sweep = {a} /\ sweep' = {} /\ script' = script
    BY <2>1 DEF OneSweep
  <2>3. a.mac \notin delays /\ ~Busy(script, a.mac)
    BY <1>2, <2>1
  <2>4. Swept = {a.mac} /\ Swept' = {} /\ \A o : Owed(o)' = Owed(o) /\ a.mac \notin Owed(o)
    BY <2>2, <2>3 DEF Swept, Owed, Busy
  <2>5. delays' = delays /\ rules' = rules \ {a.mac}
    BY <2>1, <2>3
  <2> QED BY <2>4, <2>5 DEF ShapedSoon
<1> QED BY <1>1, <1>2

LEMMA RulesStep == TypeOK /\ RulesInv /\ [Next]_vars => RulesInv'
<1> SUFFICES ASSUME TypeOK, RulesInv, [Next]_vars PROVE RulesInv'
  OBVIOUS
<1>t. /\ limited \subseteq Macs /\ rules \subseteq Macs /\ delays \subseteq Macs
      /\ script \subseteq Actions /\ inbox \in Seq(Commands) /\ initialized \in BOOLEAN
      /\ excuse \subseteq Excuses
  BY DEF TypeOK, SchedulerTypeOK
<1>c. \A k \in DOMAIN inbox : inbox[k].mac \in Macs
  <2>1. \A k \in DOMAIN inbox : inbox[k] \in Commands
    BY <1>t
  <2> QED BY <2>1 DEF Commands
<1>i. /\ mpc = "down" => inbox = <<>> /\ ~initialized
      /\ OneScript /\ OneSweep /\ CommandsTell /\ SetTells
  BY DEF RulesInv
<1>s. UNCHANGED <<rules, delays, script, sweep>>
        => ShapedSoon' = ShapedSoon /\ OneScript' /\ OneSweep'
  BY <1>i DEF ShapedSoon, Owed, Swept, OneScript, OneSweep
<1>b. UNCHANGED inbox => /\ \A k : LastFor(k)' = LastFor(k)
                         /\ \A m : Unannounced(m)' = Unannounced(m)
  BY DEF LastFor, Unannounced
\* Steps that touch neither the outlook, nor the commands, nor the set.
<1>u. ASSUME ShapedSoon' = ShapedSoon, OneScript', OneSweep',
             UNCHANGED <<inbox, limited, initialized>>, excuse \subseteq excuse',
             mpc = "down" => mpc' \in {"down"} \cup Startup,
             mpc \in Startup => mpc' \in Startup,
             mpc' = "down" => mpc = "down"
      PROVE  RulesInv'
  <2>1. CommandsTell'
    BY <1>i, <1>u, <1>b DEF CommandsTell
  <2>2. SetTells'
    <3> SUFFICES ASSUME initialized, mpc' \notin Startup, excuse = {}, excuse' = {}
                 PROVE  \A m \in Macs : Unannounced(m) => (m \in limited <=> m \in ShapedSoon)
      BY <1>u, <1>b DEF SetTells
    <3>1. mpc \notin Startup
      BY <1>u, <1>i
    <3> QED BY <1>i, <3>1 DEF SetTells
  <2> QED BY <1>i, <1>u, <2>1, <2>2 DEF RulesInv
\* Steps that change neither the commands nor the outlook of any device.
<1>n. ASSUME \A n \in Macs : n \in ShapedSoon' <=> n \in ShapedSoon, OneScript', OneSweep',
             UNCHANGED <<inbox, limited, initialized, mpc>>, excuse \subseteq excuse'
      PROVE  RulesInv'
  BY <1>i, <1>n, <1>b, <1>c DEF RulesInv, CommandsTell, SetTells
\* Steps that record an excuse which covers what they break.
<1>x. ASSUME OneScript', OneSweep', UNCHANGED <<initialized, mpc>>,
             mpc = "down" => inbox' = inbox, excuse' \cap Misleading # {}
      PROVE  RulesInv'
  BY <1>i, <1>x DEF RulesInv, CommandsTell, SetTells
<1>1. CASE LsmCall \/ LsmAttach \/ LsmStartConsumer
  <2>1. mpc \in Startup /\ mpc' \in Startup /\ mpc # "down" /\ mpc' # "down"
    BY <1>1 DEF LsmCall, LsmAttach, LsmStartConsumer, Startup
  <2>2. UNCHANGED <<schedVars, histVars, envVars, inbox>>
    BY <1>1 DEF LsmCall, LsmAttach, LsmStartConsumer
  <2> QED BY <1>s, <1>u, <2>1, <2>2 DEF schedVars, histVars, envVars
<1>2. CASE rebuild_from_rules
  <2>1. UNCHANGED <<rules, delays, script, sweep, inbox, initialized>> /\ mpc = "rebuild" /\ mpc' # "down"
    BY <1>2 DEF rebuild_from_rules, envVars
  <2>2. PICK L \in SUBSET rules : limited' = L /\ excuse' = RebuildExcuse(L)
    BY <1>2 DEF rebuild_from_rules
  <2>3. ShapedSoon' = ShapedSoon /\ OneScript' /\ OneSweep'
    BY <1>s, <2>1
  <2>4. CommandsTell'
    <3> SUFFICES ASSUME excuse' \cap Misleading = {}, inbox # <<>>
                 PROVE  excuse \cap Misleading = {}
      BY <1>i, <1>b, <2>1, <2>3 DEF CommandsTell
    <3> QED BY <2>2 DEF RebuildExcuse, Misleading, Excuses
  <2>5. SetTells'
    <3> SUFFICES ASSUME excuse' = {}, NEW m \in Macs, Unannounced(m)
                 PROVE  m \in L <=> m \in ShapedSoon
      BY <1>b, <2>1, <2>2, <2>3 DEF SetTells
    <3>1. L = rules /\ delays \subseteq L
      BY <2>2 DEF RebuildExcuse, Excuses
    <3>2. \A a \in script \cup sweep : a.mac # m
      <4>1. \A a \in script \cup sweep : \E k \in DOMAIN inbox : inbox[k].mac = a.mac
        BY <2>2 DEF RebuildExcuse, Excuses
      <4> QED BY <4>1 DEF Unannounced
    <3>3. m \notin Swept /\ \A o : m \notin Owed(o)
      BY <3>2 DEF Owed, Swept
    <3> QED BY <3>1, <3>3 DEF ShapedSoon
  <2> QED BY <2>1, <2>3, <2>4, <2>5 DEF RulesInv
<1>3. CASE RebuildTrigger \/ RequestAfterNotify \/ ForceRestoreAdapter \/ hnc_scheduler_shutdown
           \/ hnc_scheduler_request_refresh \/ hnc_scheduler_force_disable_global
  <2>1. mpc \notin Startup \cup {"down"} /\ mpc' # "down"
    BY <1>3 DEF RebuildTrigger, RequestAfterNotify, ForceRestoreAdapter, hnc_scheduler_shutdown,
         hnc_scheduler_request_refresh, hnc_scheduler_force_disable_global, Startup
  <2>2. UNCHANGED <<rules, delays, script, sweep, inbox, limited, excuse, initialized>>
    BY <1>3 DEF RebuildTrigger, RequestAfterNotify, ForceRestoreAdapter, hnc_scheduler_shutdown,
         hnc_scheduler_request_refresh, hnc_scheduler_force_disable_global,
         schedVars, histVars, envVars
  <2> QED BY <1>s, <1>u, <2>1, <2>2
<1>4. CASE hnc_scheduler_notify_device_limit_changed
  <2> DEFINE c == Head(inbox)
             L == IF c.flag THEN limited_set_add(limited, c.mac)
                            ELSE limited_set_remove(limited, c.mac)
  <2>1. /\ inbox # <<>> /\ inbox' = Tail(inbox) /\ mpc = "idle" /\ mpc' # "down"
        /\ UNCHANGED <<rules, delays, script, sweep, initialized>>
    BY <1>4 DEF hnc_scheduler_notify_device_limit_changed, NotifyFrom, envVars
  <2>2. ShapedSoon' = ShapedSoon /\ OneScript' /\ OneSweep'
    BY <1>s, <2>1
  <2>3. /\ 1 \in DOMAIN inbox /\ inbox[1] = c /\ c \in Commands
        /\ \A k \in DOMAIN inbox' : /\ k + 1 \in DOMAIN inbox /\ inbox'[k] = inbox[k+1]
                                    /\ LastFor(k)' => LastFor(k+1)
        /\ \A m \in Macs : Unannounced(m)' => IF m = c.mac THEN LastFor(1) ELSE Unannounced(m)
    BY <2>1, TailCommand
  <2> HIDE DEF c
  <2>4. excuse \subseteq excuse'
    BY <1>4 DEF hnc_scheduler_notify_device_limit_changed
  <2>5. CommandsTell'
    BY <1>i, <2>2, <2>3, <2>4 DEF CommandsTell
  <2>6. ASSUME initialized, excuse' = {}, NEW m \in Macs, Unannounced(m)'
        PROVE  m \in limited' <=> m \in ShapedSoon
    <3>1. /\ limited' = L
          /\ excuse' = IF c.flag /\ c.mac \notin L THEN excuse \cup {"dropped"} ELSE excuse
      BY <1>4, <2>6 DEF hnc_scheduler_notify_device_limit_changed, NotifyFrom, c
    <3>2. excuse = {} /\ (c.flag => c.mac \in L)
      BY <2>4, <2>6, <3>1
    <3>3. CASE m = c.mac
      <4>1. c.flag <=> m \in ShapedSoon
        BY <1>i, <2>3, <2>6, <3>2, <3>3 DEF CommandsTell
      <4>2. ~c.flag => c.mac \notin L
        BY DEF limited_set_remove
      <4> QED BY <3>1, <3>2, <3>3, <4>1, <4>2
    <3>4. CASE m # c.mac
      <4>1. m \in limited <=> m \in ShapedSoon
        BY <1>i, <2>1, <2>3, <2>6, <3>2, <3>4 DEF SetTells, Startup
      <4>2. m \in L <=> m \in limited
        BY <3>4 DEF limited_set_add, limited_set_remove
      <4> QED BY <3>1, <4>1, <4>2
    <3> QED BY <3>3, <3>4
  <2>7. SetTells'
    BY <2>1, <2>2, <2>6 DEF SetTells
  <2> QED BY <2>1, <2>2, <2>5, <2>7 DEF RulesInv
<1>5. ASSUME ProcessGone, UNCHANGED envVars PROVE RulesInv'
  <2>1. inbox' = <<>> /\ ~initialized' /\ DOMAIN inbox' = {}
    BY <1>5 DEF ProcessGone
  <2> QED BY <1>s, <1>5, <2>1 DEF RulesInv, CommandsTell, SetTells, envVars
<1>6. CASE hnc_scheduler_init
  <2>1. /\ mpc = "down" /\ UNCHANGED <<rules, delays, script, sweep, inbox, excuse>>
        /\ ~initialized' \/ mpc' \in Startup
    BY <1>6 DEF hnc_scheduler_init, envVars, histVars, Startup
  <2>2. inbox' = <<>> /\ DOMAIN inbox' = {} /\ mpc' # "down"
    BY <1>6, <1>i, <2>1 DEF hnc_scheduler_init
  <2> QED BY <1>s, <2>1, <2>2 DEF RulesInv, CommandsTell, SetTells
<1>7. CASE ForceRestoreClear
  <2>1. /\ UNCHANGED <<rules, delays, script, sweep, inbox, initialized>> /\ mpc' # "down"
        /\ excuse' = excuse \cup {"force_restore"}
    BY <1>7 DEF ForceRestoreClear, envVars
  <2> QED BY <1>i, <1>s, <1>b, <2>1 DEF RulesInv, CommandsTell, SetTells
<1>8. CASE WorkerStep \/ GuardStep \/ FrameworkStep \/ UpstreamChange \/ UNCHANGED vars
           \/ RecoveryScan
  <2>1. UNCHANGED <<rules, delays, script, sweep, inbox, limited, excuse, initialized, mpc>>
    BY <1>8 DEF WorkerStep, WorkerWake, WorkerProbe, WorkerLsmUpdate, WorkerRefresh,
       GuardStep, FrameworkStep, UpstreamChange, RecoveryScan, vars, schedVars, histVars, envVars
  <2> QED BY <1>s, <1>u, <2>1
<1>9. ASSUME NEW m \in Macs, NEW flag \in BOOLEAN, NEW lost \in BOOLEAN,
             SendNotify(m, flag, lost), OneScript', OneSweep',
             \A n \in Macs : n # m => (n \in ShapedSoon' <=> n \in ShapedSoon),
             excuse \subseteq excuse',
             lost => ShapedSoon' = ShapedSoon \/ excuse' \cap Misleading # {},
             excuse' \cap Misleading = {} => (m \in ShapedSoon' <=> flag),
             UNCHANGED <<limited, initialized, mpc>>
      PROVE  RulesInv'
  <2>0. CASE lost
    <3>1. inbox' = inbox /\ mpc # "down"
      BY <1>9, <2>0 DEF SendNotify
    <3>2. CASE ShapedSoon' = ShapedSoon
      BY <1>9, <1>u, <3>1, <3>2
    <3>3. CASE excuse' \cap Misleading # {}
      BY <1>9, <1>x, <3>1, <3>3
    <3> QED BY <1>9, <2>0, <3>2, <3>3
  <2>1. CASE mpc = "down"
    <3>1. inbox' = <<>> /\ ~initialized' /\ DOMAIN inbox' = {}
      BY <1>9, <1>i, <2>1 DEF SendNotify
    <3> QED BY <1>9, <3>1 DEF RulesInv, CommandsTell, SetTells
  <2>2. CASE mpc # "down" /\ ~lost
    <3>0. inbox' = Append(inbox, [mac |-> m, flag |-> flag])
      BY <1>9, <2>2 DEF SendNotify
    <3>1. /\ Len(inbox') = Len(inbox) + 1 /\ Len(inbox) \in Nat
          /\ \A k \in DOMAIN inbox : inbox'[k] = inbox[k]
          /\ inbox'[Len(inbox')].mac = m /\ inbox'[Len(inbox')].flag = flag
          /\ \A k \in DOMAIN inbox' : LastFor(k)' =>
                k = Len(inbox') \/ (k \in DOMAIN inbox /\ inbox[k].mac # m /\ LastFor(k))
          /\ \A n \in Macs : Unannounced(n)' => n # m /\ Unannounced(n)
      BY <3>0, AppendCommand
    <3>2. CommandsTell'
      <4> SUFFICES ASSUME excuse' \cap Misleading = {},
                          NEW k \in DOMAIN inbox', LastFor(k)'
                   PROVE  inbox'[k].flag <=> inbox'[k].mac \in ShapedSoon'
        BY DEF CommandsTell
      <4>1. CASE k = Len(inbox')
        BY <1>9, <3>1, <4>1
      <4>2. CASE k \in DOMAIN inbox /\ inbox[k].mac # m /\ LastFor(k)
        <5>1. inbox[k].flag <=> inbox[k].mac \in ShapedSoon
          BY <1>9, <1>i, <4>2 DEF CommandsTell
        <5> QED BY <1>9, <1>c, <3>1, <4>2, <5>1
      <4> QED BY <3>1, <4>1, <4>2
    <3>3. SetTells'
      BY <1>9, <1>i, <3>1 DEF SetTells
    <3> QED BY <1>9, <2>2, <3>2, <3>3 DEF RulesInv
  <2> QED BY <2>0, <2>1, <2>2
<1>e. ASSUME NEW lost, NEW others, NEW m, excuse' = excuse \cup NotifyExcuse(lost, others, m)
      PROVE  /\ excuse \subseteq excuse'
             /\ lost \/ Busy(others, m) => excuse' \cap Misleading # {}
  BY <1>e DEF NotifyExcuse, Misleading
<1>10. ASSUME NEW m \in Macs, NEW op \in AllOps, ActionNotify(m, op) PROVE RulesInv'
  <2>1. UNCHANGED <<limited, initialized, mpc>> /\ OneScript' /\ OneSweep'
    BY <1>i, <1>10 DEF ActionNotify, schedVars, OneScript, OneSweep, Actions
  <2>2. PICK lost \in BOOLEAN :
              /\ IF Notifies(m, op) THEN SendNotify(m, op \in {"limit", "delay"}, lost)
                                    ELSE inbox' = inbox /\ ~lost
              /\ excuse' = excuse \cup NotifyExcuse(lost, sweep, m)
    BY <1>10 DEF ActionNotify
  <2>3. /\ excuse \subseteq excuse'
        /\ lost \/ Busy(sweep, m) => excuse' \cap Misleading # {}
    BY <1>e, <2>2
  <2>4. CASE Busy(sweep, m)
    <3>1. mpc = "down" => inbox' = inbox
      BY <2>2 DEF SendNotify
    <3> QED BY <1>x, <2>1, <2>3, <2>4, <3>1
  <2>5. CASE ~Busy(sweep, m) /\ Notifies(m, op)
    <3>1. (op \in {"limit", "delay"}) \in BOOLEAN
      OBVIOUS
    <3> QED BY <1>9, <1>10, <2>1, <2>2, <2>3, <2>5, <3>1, ShapedByNotify
  <2>6. CASE ~Busy(sweep, m) /\ ~Notifies(m, op)
    <3>1. \A n \in Macs : n \in ShapedSoon' <=> n \in ShapedSoon
      BY <1>10, <2>6, ShapedByNotify
    <3> QED BY <1>n, <2>1, <2>2, <2>3, <2>6, <3>1
  <2> QED BY <2>4, <2>5, <2>6
<1>11. CASE ActionWriteRules
  <2>1. ShapedSoon' = ShapedSoon /\ OneScript'
    BY <1>i, <1>11, ShapedByWrite DEF OneScript
  <2>2. UNCHANGED <<sweep, inbox, limited, excuse, initialized, mpc>>
    BY <1>11 DEF ActionWriteRules, schedVars, histVars
  <2>3. OneSweep'
    BY <1>i, <2>2 DEF OneSweep
  <2> QED BY <1>u, <2>1, <2>2, <2>3
<1>12. CASE ActionUnwritten \/ CleanupUnwritten
  <2>1. /\ excuse' \cap Misleading # {} /\ OneScript' /\ OneSweep'
        /\ UNCHANGED <<inbox, initialized, mpc>>
    BY <1>i, <1>12
       DEF ActionUnwritten, CleanupUnwritten, schedVars, Misleading, OneScript, OneSweep
  <2> QED BY <1>x, <2>1
<1>13. ASSUME NEW m \in Macs, RecoveryNotify(m) PROVE RulesInv'
  <2>1. /\ UNCHANGED <<rules, delays, script, sweep, limited, initialized, mpc>>
        /\ excuse' = IF m \notin rules \/ Busy(script \cup sweep, m)
                     THEN excuse \cup {"stale_recovery"} ELSE excuse
    BY <1>13 DEF RecoveryNotify, schedVars
  <2>2. PICK lost \in BOOLEAN : SendNotify(m, TRUE, lost)
    BY <1>13 DEF RecoveryNotify
  <2>3. excuse' \cap Misleading = {} => m \in ShapedSoon
    <3> SUFFICES ASSUME m \in rules, \A a \in script \cup sweep : a.mac # m
                 PROVE  m \in ShapedSoon
      BY <2>1 DEF Misleading, Busy
    <3> QED BY DEF ShapedSoon, Owed, Swept
  <2>4. excuse \subseteq excuse'
    BY <2>1
  <2> QED BY <1>9, <1>s, <2>1, <2>2, <2>3, <2>4
<1>14. ASSUME NEW m \in Macs, CleanupClear(m) PROVE RulesInv'
  <2>1. UNCHANGED <<limited, initialized, mpc>> /\ OneScript' /\ OneSweep'
    BY <1>i, <1>14 DEF CleanupClear, schedVars, OneScript, OneSweep, Sweeps
  <2>2. PICK lost \in BOOLEAN :
              /\ IF Notifies(m, "clear") THEN SendNotify(m, FALSE, lost)
                                         ELSE inbox' = inbox /\ ~lost
              /\ excuse' = excuse \cup NotifyExcuse(lost, script, m)
    BY <1>14 DEF CleanupClear
  <2>3. /\ excuse \subseteq excuse'
        /\ lost \/ Busy(script, m) => excuse' \cap Misleading # {}
    BY <1>e, <2>2
  <2>4. CASE Busy(script, m)
    <3>1. mpc = "down" => inbox' = inbox
      BY <2>2 DEF SendNotify
    <3> QED BY <1>x, <2>1, <2>3, <2>4, <3>1
  <2>5. CASE ~Busy(script, m) /\ Notifies(m, "clear")
    BY <1>9, <1>14, <2>1, <2>2, <2>3, <2>5, ShapedByClear
  <2>6. CASE ~Busy(script, m) /\ ~Notifies(m, "clear")
    <3>1. \A n \in Macs : n \in ShapedSoon' <=> n \in ShapedSoon
      BY <1>14, <2>6, ShapedByClear
    <3> QED BY <1>n, <2>1, <2>2, <2>3, <2>6, <3>1
  <2> QED BY <2>4, <2>5, <2>6
<1>15. CASE CleanupWriteRules
  <2>1. ShapedSoon' = ShapedSoon /\ OneSweep'
    BY <1>i, <1>15, ShapedByCleanup
  <2>2. UNCHANGED <<script, inbox, limited, excuse, initialized, mpc>>
    BY <1>15 DEF CleanupWriteRules, schedVars, histVars
  <2>3. OneScript'
    BY <1>i, <2>2 DEF OneScript
  <2> QED BY <1>u, <2>1, <2>2, <2>3
<1>16. CASE CleanupRemove
  <2>1. UNCHANGED <<script, inbox, limited, initialized, mpc>> /\ sweep' = {}
    BY <1>16 DEF CleanupRemove, schedVars
  <2>2. OneScript' /\ OneSweep' /\ excuse \subseteq excuse'
    BY <1>i, <1>16, <2>1 DEF OneScript, OneSweep, CleanupRemove
  <2>3. CASE "swept" \in excuse'
    BY <1>x, <2>1, <2>2, <2>3 DEF Misleading
  <2>4. CASE "swept" \notin excuse'
    BY <1>i, <1>u, <1>16, <2>1, <2>2, <2>4, ShapedByCleanup
  <2> QED BY <2>3, <2>4
<1> QED
  BY <1>1, <1>2, <1>3, <1>4, <1>5, <1>6, <1>7, <1>8, <1>10, <1>11, <1>12, <1>13, <1>14,
     <1>15, <1>16 DEF Next, MainStep, ClientCommand, ScriptStep, ShutdownJoin, Crash

(* With nothing in flight and no excuse on record the limited set is what
   rules.json shapes, for any number of devices, any table and socket capacity, and
   across any number of crashes and restarts (scheduler.c notify and
   rebuild_from_rules against the write actions and the cleanup, which announce a
   change before they write it).  The excuses are the ways in which the two come
   apart; a command lost with hotspotd up is one of them. *)
THEOREM RulesAgreeAlways == Spec => []RulesAgree
<1>1. Init => RulesInv
  BY DEF Init, RulesInv, OneScript, OneSweep, CommandsTell, SetTells
<1> QED BY <1>1, InitType, TypeStep, RulesStep, RulesInvImplies, PTL DEF Spec
=============================================================================
