-------------------------- MODULE OffloadScheduler --------------------------
(***************************************************************************)
(* The offload scheduler of hotspotd (daemon/hotspotd/scheduler.c) driving *)
(* the BPF adapter and the limit-map guard, under the commands that the    *)
(* WebUI actions, service.sh and operators send over the UNIX socket.      *)
(*                                                                         *)
(* While at least one device has a rate limit, hardware offload of the     *)
(* primary upstream must be off, or its packets bypass tc.                 *)
(*                                                                         *)
(* Threads: the main thread (mpc), which runs hnc_scheduler_init, every    *)
(* client command and hnc_scheduler_shutdown; the worker (wpc); the        *)
(* guard's consumer; and, outside the process, the framework, the routing  *)
(* that elects the upstream, the WebUI's write actions (one at a time:     *)
(* hnc_httpd serialises them), service.sh's recovery loop and the cleanup  *)
(* of devices not seen for weeks, which writes beside the WebUI.           *)
(* Every action is one critical section of sched.lock or worker_lock, or   *)
(* one call made outside both.                                             *)
(***************************************************************************)
EXTENDS LimitMapGuard

CONSTANTS
    Macs,        \* normalised device addresses
    MaxLimited,  \* HNC_SCHED_MAX_LIMITED_DEVICES, 256 in the code
    MaxInbox,    \* commands waiting in the listening socket
    MayCrash,    \* TRUE when hotspotd may be killed and restarted
    Ops,         \* the write actions users issue, among AllOps
    WritesMayFail,     \* TRUE when an action may die before its rules.json write
    NotifyMayFail,     \* TRUE when hnc_ipc may fail although hotspotd is up; where it
                       \* may not, actions come only when the socket has room
    ServiceRecovers,   \* TRUE when service.sh runs its offload recovery
    Cleans,            \* TRUE when service.sh or the watchdog cleans stale rules
    OperatorCommands   \* TRUE when operators force a global disable or restore

(* rule_set, rule_clear, delay_set and delay_clear. *)
AllOps == {"limit", "clear", "delay", "undelay"}

ASSUME MacsAssumption == IsFiniteSet(Macs)
ASSUME MaxLimitedAssumption == MaxLimited \in Nat \ {0}
ASSUME MaxInboxAssumption == MaxInbox \in Nat \ {0}
ASSUME MayCrashAssumption == MayCrash \in BOOLEAN
ASSUME OpsAssumption == Ops \subseteq AllOps
ASSUME WritesMayFailAssumption == WritesMayFail \in BOOLEAN
ASSUME NotifyMayFailAssumption == NotifyMayFail \in BOOLEAN
ASSUME ServiceRecoversAssumption == ServiceRecovers \in BOOLEAN
ASSUME CleansAssumption == Cleans \in BOOLEAN
ASSUME OperatorCommandsAssumption == OperatorCommands \in BOOLEAN

VARIABLES
    initialized,        \* sched.initialized
    adapter,            \* sched.adapter: "bpf" or "null"
    limited,            \* sched.limited_macs[0 .. limited_count-1]
    primary,            \* sched.primary_upstream_ifindex
    should_stop,        \* sched.worker_should_stop
    refresh_requested,  \* sched.worker_refresh_requested
    mpc,                \* main thread
    wpc,                \* worker thread
    wnow,               \* worker's local now_ifindex, used after the unlock (else 0)
    inbox,              \* OFFLOAD_NOTIFY_LIMIT commands not yet read
    upstream,           \* what upstream_detect_primary would find, 0 = nothing
    rules,              \* devices with limit_enabled in rules.json
    delays,             \* devices with delay_enabled in rules.json
    script,             \* the action whose rules.json write is still owed:
                        \* at most one, hnc_httpd holds stateMu throughout
    recovering,         \* devices service.sh has read and has yet to announce
    sweep,              \* the device cleanup_stale_rules.sh is at, and its next write
    hold,               \* history: why offload may be off with no device limited
    excuse              \* history: why limited may differ from rules.json

schedVars == <<initialized, adapter, limited, primary, should_stop, refresh_requested>>
histVars == <<hold, excuse>>
envVars == <<upstream, rules, delays, script, recovering, sweep>>
vars == <<adapterVars, guardVars, schedVars, histVars, envVars, mpc, wpc, wnow, inbox>>

Commands == [mac : Macs, flag : BOOLEAN]
Actions == [mac : Macs, op : AllOps]
Sweeps == [mac : Macs, op : {"clear", "remove"}]

MainStates == {"down", "lsm", "lsm_attach", "lsm_consumer", "rebuild",
               "rebuild_trigger", "idle", "request", "force_restore", "stopping"}

Excuses == {"torn", "dropped", "force_restore", "unwritten", "stale_recovery", "delay_lost",
            "timed_out", "swept"}

(* hnc_scheduler_init has not yet filled the limited set. *)
Startup == {"lsm", "lsm_attach", "lsm_consumer", "rebuild"}

SchedulerTypeOK ==
    /\ initialized \in BOOLEAN
    /\ adapter \in {"bpf", "null"}
    /\ limited \subseteq Macs
    /\ primary \in Ifaces \cup {0}
    /\ should_stop \in BOOLEAN
    /\ refresh_requested \in BOOLEAN
    /\ mpc \in MainStates
    /\ wpc \in {"none", "wait", "probe", "lsm", "refresh", "stopped"}
    /\ wnow \in Ifaces \cup {0}
    /\ inbox \in Seq(Commands)
    /\ upstream \in Ifaces \cup {0}
    /\ rules \subseteq Macs
    /\ delays \subseteq Macs
    /\ script \subseteq Actions
    /\ recovering \subseteq Macs
    /\ sweep \subseteq Sweeps
    /\ hold \subseteq {"forced", "restore_err"}
    /\ excuse \subseteq Excuses

(* Type invariant of the composed system. *)
TypeOK == AdapterTypeOK /\ GuardTypeOK /\ SchedulerTypeOK

-----------------------------------------------------------------------------
(* Mutant: the capacity test lets one device too many in. *)
limited_set_add_off_by_one(L, m) ==
    IF m \in L \/ Cardinality(L) <= MaxLimited THEN L \cup {m} ELSE L

(* limited_set_add: a no-op when present, dropped when the table is full. *)
limited_set_add(L, m) ==
    IF m \in L \/ Cardinality(L) < MaxLimited THEN L \cup {m} ELSE L

limited_set_remove(L, m) == L \ {m}

(* Mutant: an upstream is detected once and kept. *)
RefreshedPrimary_cached == IF primary # 0 THEN primary ELSE upstream

(* What refresh_primary_upstream_locked leaves: the cached index survives a
   failed detection. *)
RefreshedPrimary == IF upstream # 0 THEN upstream ELSE primary

(* trigger_adapter_disable_locked, with the index to protect. *)
trigger_adapter_disable(i) ==
    \/ adapter = "null" /\ UNCHANGED adapterVars
    \/ adapter = "bpf" /\ i > 0 /\ bpf_disable_upstream(i)
    \/ adapter = "bpf" /\ i <= 0 /\ bpf_disable_global

(* trigger_adapter_restore_locked: always restore_global. *)
trigger_adapter_restore ==
    \/ /\ adapter = "null"
       /\ UNCHANGED <<adapterVars, hold>>
    \/ /\ adapter = "bpf"
       /\ \E ok \in BOOLEAN :
            /\ bpf_restore_global(ok)
            /\ hold' = IF ok THEN {} ELSE hold \cup {"restore_err"}

(* Everything a process death takes with it. *)
ProcessGone ==
    /\ initialized' = FALSE
    /\ limited' = {}
    /\ primary' = 0
    /\ should_stop' = FALSE
    /\ refresh_requested' = FALSE
    /\ mpc' = "down"
    /\ wpc' = "none"
    /\ wnow' = 0
    /\ inbox' = <<>>
    /\ hold' = {}
    /\ excuse' = {}
    /\ adapter' = "null"
    /\ AdapterReset

-----------------------------------------------------------------------------
(* hnc_scheduler_init up to initialized = 1: adapter chosen (null when the bpf
   one is missing, fails to open its map or fails its self-check), upstream
   probed once, worker started. *)
hnc_scheduler_init ==
    /\ mpc = "down"
    /\ adapter' \in {"bpf", "null"}
    /\ primary' = RefreshedPrimary
    /\ \/ /\ wpc' = "wait"
          /\ initialized' = TRUE
          /\ mpc' = IF adapter' = "bpf" THEN "lsm" ELSE "rebuild"
       \/ /\ MayFail                      \* pthread_create failed
          /\ wpc' = "none"
          /\ initialized' = FALSE
          /\ mpc' = "idle"
    /\ UNCHANGED <<limited, should_stop, refresh_requested, wnow, inbox>>
    /\ UNCHANGED <<adapterVars, guardVars, histVars, envVars>>

(* The call of hnc_lsm_init: primary is read without sched.lock, then the
   object is loaded while the worker goes on probing. *)
LsmCall ==
    /\ mpc = "lsm"
    /\ hnc_lsm_populate(primary)
    /\ mpc' = "lsm_attach"
    /\ UNCHANGED <<adapterVars, schedVars, histVars, envVars, wpc, wnow, inbox>>

LsmAttach ==
    /\ mpc = "lsm_attach"
    /\ \E ok \in BOOLEAN :
        /\ hnc_lsm_attach(ok)
        /\ mpc' = IF ok THEN "lsm_consumer" ELSE "rebuild"
    /\ UNCHANGED <<adapterVars, schedVars, histVars, envVars, wpc, wnow, inbox>>

LsmStartConsumer ==
    /\ mpc = "lsm_consumer"
    /\ hnc_lsm_start_consumer
    /\ mpc' = "rebuild"
    /\ UNCHANGED <<adapterVars, schedVars, histVars, envVars, wpc, wnow, inbox>>

(* Why the set rebuilt from rules.json may come to differ from it: an action
   that has yet to write rules.json, and whose command is not waiting in this
   process's socket, is one whose change this process misses ("torn"); a
   waiting command may be one whose write failed, that was stale, or after which
   another one was lost; and rebuild_from_rules reads limit_enabled only. *)
RebuildExcuse(L) ==
    {e \in Excuses :
        \/ e = "torn" /\ \E a \in script \cup sweep :
                            \A k \in DOMAIN inbox : inbox[k].mac # a.mac
        \/ e = "dropped" /\ L # rules
        \/ e \in {"unwritten", "stale_recovery"} /\ e \in excuse /\ inbox # <<>>
        \/ /\ e \in {"timed_out", "swept"} /\ e \in excuse
           /\ inbox # <<>> \/ script # {} \/ sweep # {}
        \/ e = "delay_lost" /\ ~(delays \subseteq L)}

(* rebuild_from_rules: as many limit_enabled devices as fit, in file order. *)
rebuild_from_rules ==
    /\ mpc = "rebuild"
    /\ \E L \in SUBSET rules :
        /\ Cardinality(L) <= MaxLimited
        /\ L = rules \/ Cardinality(L) = MaxLimited
        /\ limited' = L
        /\ mpc' = IF L # {} THEN "rebuild_trigger" ELSE "idle"
        /\ excuse' = RebuildExcuse(L)
    /\ UNCHANGED <<initialized, adapter, primary, should_stop, refresh_requested>>
    /\ UNCHANGED <<adapterVars, guardVars, envVars, hold, wpc, wnow, inbox>>

(* The end of hnc_scheduler_init: a 0 -> >0 transition in all but name. *)
RebuildTrigger ==
    /\ mpc = "rebuild_trigger"
    /\ primary' = RefreshedPrimary
    /\ trigger_adapter_disable(RefreshedPrimary)
    /\ mpc' = "idle"
    /\ UNCHANGED <<initialized, adapter, limited, should_stop, refresh_requested>>
    /\ UNCHANGED <<guardVars, histVars, envVars, wpc, wnow, inbox>>

(* What hnc_scheduler_notify_device_limit_changed does under sched.lock. *)
NotifyFrom(L) ==
    /\ limited' = L
    /\ \/ /\ limited = {} /\ L # {}
          /\ primary' = RefreshedPrimary
          /\ trigger_adapter_disable(RefreshedPrimary)
          /\ mpc' = "request"
          /\ UNCHANGED hold
       \/ /\ limited # {} /\ L = {}
          /\ trigger_adapter_restore
          /\ mpc' = "request"
          /\ UNCHANGED primary
       \/ /\ (limited = {}) <=> (L = {})
          /\ UNCHANGED <<primary, mpc, hold>>
          /\ UNCHANGED adapterVars

(* handle_client: OFFLOAD_NOTIFY_LIMIT <mac> <flag>. *)
hnc_scheduler_notify_device_limit_changed ==
    /\ mpc = "idle"
    /\ inbox # <<>>
    /\ inbox' = Tail(inbox)
    /\ LET c == Head(inbox)
           L == IF c.flag THEN limited_set_add(limited, c.mac)
                          ELSE limited_set_remove(limited, c.mac)
       IN \/ /\ ~initialized
             /\ UNCHANGED <<limited, primary, mpc, hold, excuse>>
             /\ UNCHANGED adapterVars
          \/ /\ initialized
             /\ NotifyFrom(L)
             /\ excuse' = IF c.flag /\ c.mac \notin L
                          THEN excuse \cup {"dropped"} ELSE excuse
    /\ UNCHANGED <<initialized, adapter, should_stop, refresh_requested>>
    /\ UNCHANGED <<guardVars, envVars, wpc, wnow>>

(* hnc_scheduler_request_refresh, from a transition just made. *)
RequestAfterNotify ==
    /\ mpc = "request"
    /\ refresh_requested' = TRUE
    /\ mpc' = "idle"
    /\ UNCHANGED <<initialized, adapter, limited, primary, should_stop>>
    /\ UNCHANGED <<adapterVars, guardVars, histVars, envVars, wpc, wnow, inbox>>

(* handle_client: OFFLOAD_REFRESH. *)
hnc_scheduler_request_refresh ==
    /\ mpc = "idle"
    /\ initialized
    /\ refresh_requested' = TRUE
    /\ UNCHANGED <<initialized, adapter, limited, primary, should_stop, mpc>>
    /\ UNCHANGED <<adapterVars, guardVars, histVars, envVars, wpc, wnow, inbox>>

(* handle_client: OFFLOAD_DISABLE_GLOBAL, without sched.lock. *)
hnc_scheduler_force_disable_global ==
    /\ OperatorCommands
    /\ mpc = "idle"
    /\ initialized
    /\ \/ adapter = "null" /\ UNCHANGED <<adapterVars, hold>>
       \/ /\ adapter = "bpf"
          /\ bpf_disable_global
          /\ hold' = hold \cup {"forced"}
    /\ UNCHANGED <<schedVars, guardVars, envVars, excuse, mpc, wpc, wnow, inbox>>

(* handle_client: OFFLOAD_RESTORE_GLOBAL empties the set under sched.lock ... *)
ForceRestoreClear ==
    /\ OperatorCommands
    /\ mpc = "idle"
    /\ initialized
    /\ limited' = {}
    /\ mpc' = "force_restore"
    /\ excuse' = excuse \cup {"force_restore"}
    /\ UNCHANGED <<initialized, adapter, primary, should_stop, refresh_requested>>
    /\ UNCHANGED <<adapterVars, guardVars, envVars, hold, wpc, wnow, inbox>>

(* ... and restores after unlocking. *)
ForceRestoreAdapter ==
    /\ mpc = "force_restore"
    /\ trigger_adapter_restore
    /\ mpc' = "idle"
    /\ UNCHANGED <<schedVars, guardVars, envVars, excuse, wpc, wnow, inbox>>

(* QUIT or a signal: the main loop ends, hnc_scheduler_shutdown stops the
   worker (and returns at once when init failed). *)
hnc_scheduler_shutdown ==
    /\ mpc = "idle"
    /\ mpc' = "stopping"
    /\ should_stop' = initialized
    /\ UNCHANGED <<initialized, adapter, limited, primary, refresh_requested>>
    /\ UNCHANGED <<adapterVars, guardVars, histVars, envVars, wpc, wnow, inbox>>

(* pthread_join returned: close the adapter, unload the guard, exit. *)
ShutdownJoin ==
    /\ mpc = "stopping"
    /\ initialized => wpc = "stopped"
    /\ hnc_lsm_shutdown
    /\ ProcessGone
    /\ UNCHANGED envVars

(* hotspotd is killed at any point of any thread. *)
Crash ==
    /\ MayCrash
    /\ mpc # "down"
    /\ hnc_lsm_shutdown
    /\ ProcessGone
    /\ UNCHANGED envVars

-----------------------------------------------------------------------------
(* Mutant: the stop flag is not tested after the wait. *)
WorkerWake_ignores_stop ==
    /\ wpc = "wait"
    /\ refresh_requested' = FALSE
    /\ wpc' = "probe"
    /\ UNCHANGED <<initialized, adapter, limited, primary, should_stop>>
    /\ UNCHANGED <<adapterVars, guardVars, histVars, envVars, mpc, wnow, inbox>>

(* worker_main: signalled, or 60 s have passed. *)
WorkerWake ==
    /\ wpc = "wait"
    /\ \/ /\ should_stop
          /\ wpc' = "stopped"
          /\ UNCHANGED refresh_requested
       \/ /\ ~should_stop
          /\ refresh_requested' = FALSE
          /\ wpc' = "probe"
    /\ UNCHANGED <<initialized, adapter, limited, primary, should_stop>>
    /\ UNCHANGED <<adapterVars, guardVars, histVars, envVars, mpc, wnow, inbox>>

(* need_retrigger: a first upstream, or another one, while a device is limited. *)
NeedRetrigger(prev, now) ==
    /\ limited # {}
    /\ now > 0
    /\ prev # now

(* Mutant: the retrigger disables the upstream it has just left. *)
WorkerProbe_old_upstream ==
    /\ wpc = "probe"
    /\ primary' = RefreshedPrimary
    /\ \/ /\ NeedRetrigger(primary, RefreshedPrimary)
          /\ trigger_adapter_disable(primary)
       \/ /\ ~NeedRetrigger(primary, RefreshedPrimary)
          /\ UNCHANGED adapterVars
    /\ wpc' = "refresh"
    /\ UNCHANGED <<initialized, adapter, limited, should_stop, refresh_requested>>
    /\ UNCHANGED <<guardVars, histVars, envVars, mpc, wnow, inbox>>

(* The worker's sched.lock section: probe again, disable the new upstream. *)
WorkerProbe ==
    /\ wpc = "probe"
    /\ primary' = RefreshedPrimary
    /\ \/ /\ NeedRetrigger(primary, RefreshedPrimary)
          /\ trigger_adapter_disable(RefreshedPrimary)
       \/ /\ ~NeedRetrigger(primary, RefreshedPrimary)
          /\ UNCHANGED adapterVars
    /\ \/ /\ RefreshedPrimary > 0 /\ RefreshedPrimary # primary
          /\ wpc' = "lsm"
          /\ wnow' = RefreshedPrimary
       \/ /\ ~(RefreshedPrimary > 0 /\ RefreshedPrimary # primary)
          /\ wpc' = "refresh"
          /\ UNCHANGED wnow
    /\ UNCHANGED <<initialized, adapter, limited, should_stop, refresh_requested>>
    /\ UNCHANGED <<guardVars, histVars, envVars, mpc, inbox>>

(* After the unlock: tell the guard about the index read under the lock. *)
WorkerLsmUpdate ==
    /\ wpc = "lsm"
    /\ hnc_lsm_update_ifindex(wnow)
    /\ wpc' = "refresh"
    /\ wnow' = 0
    /\ UNCHANGED <<adapterVars, schedVars, histVars, envVars, mpc, inbox>>

(* refresh_active: a 5 s sample of counters that steers nothing. *)
WorkerRefresh ==
    /\ wpc = "refresh"
    /\ wpc' = "wait"
    /\ UNCHANGED <<adapterVars, guardVars, schedVars, histVars, envVars, mpc, wnow, inbox>>

-----------------------------------------------------------------------------
(* The default route moves, disappears or comes back. *)
UpstreamChange ==
    /\ upstream' \in (Ifaces \cup {0}) \ {upstream}
    /\ UNCHANGED <<rules, delays, script, recovering, sweep, mpc, wpc, wnow, inbox>>
    /\ UNCHANGED <<adapterVars, guardVars, schedVars, histVars>>

(* hnc_ipc OFFLOAD_NOTIFY_LIMIT: nobody listens, or the command is lost although
   hotspotd is up (connect gives up after 3 s on a full backlog, hotspotd after 2 s
   on a client that stalls before it sends), or it is queued, whether or not its
   caller still waits for the answer.  The callers log a failure and go on. *)
SendNotify(m, flag, lost) ==
    /\ lost => mpc # "down" /\ NotifyMayFail
    /\ ~lost /\ mpc # "down" => Len(inbox) < MaxInbox
    /\ inbox' = IF lost \/ mpc = "down" THEN inbox
                ELSE Append(inbox, [mac |-> m, flag |-> flag])

(* Mutant: clearing a limit announces it although a delay is still on. *)
Notifies_clear_always(m, op) == op # "undelay" \/ m \notin rules

(* Clearing the limit of a device that still has a delay, or the delay of one
   that still has a limit, does not tell the scheduler. *)
Notifies(m, op) ==
    /\ op = "clear" => m \notin delays
    /\ op = "undelay" => m \notin rules

(* One of these writers is at work on m. *)
Busy(writers, m) == \E a \in writers : a.mac = m

(* Why a change of m that was announced, or not, may not reach the scheduler: the
   command was lost, or one of the writers others was at the same device. *)
NotifyExcuse(lost, others, m) ==
    {e \in {"timed_out", "swept"} : IF e = "timed_out" THEN lost ELSE Busy(others, m)}

(* A write action, tc and iptables done, reaches notify_offload (limit, clear)
   or notifyOffloadLimit (delay_set, delay_clear). *)
ActionNotify(m, op) ==
    /\ op \in Ops
    /\ script = {}
    /\ script' = {[mac |-> m, op |-> op]}
    /\ \E lost \in BOOLEAN :
        /\ IF Notifies(m, op) THEN SendNotify(m, op \in {"limit", "delay"}, lost)
                              ELSE inbox' = inbox /\ ~lost
        /\ excuse' = excuse \cup NotifyExcuse(lost, sweep, m)
    /\ UNCHANGED <<upstream, rules, delays, recovering, sweep, mpc, wpc, wnow>>
    /\ UNCHANGED <<adapterVars, guardVars, schedVars, hold>>

(* ... then it writes rules.json, answered or not. *)
ActionWriteRules ==
    \E a \in script :
        /\ rules' = IF a.op = "limit" THEN rules \cup {a.mac}
                    ELSE IF a.op = "clear" THEN rules \ {a.mac} ELSE rules
        /\ delays' = IF a.op = "delay" THEN delays \cup {a.mac}
                     ELSE IF a.op = "undelay" THEN delays \ {a.mac} ELSE delays
        /\ script' = {}
        /\ UNCHANGED <<upstream, recovering, sweep, mpc, wpc, wnow, inbox>>
        /\ UNCHANGED <<adapterVars, guardVars, schedVars, histVars>>

(* ... or does not: json_set failed, or runBin killed the script after 10 s.
   Nothing undoes the notify. *)
ActionUnwritten ==
    /\ WritesMayFail
    /\ script # {}
    /\ script' = {}
    /\ excuse' = excuse \cup {"unwritten"}
    /\ UNCHANGED <<upstream, rules, delays, recovering, sweep, mpc, wpc, wnow, inbox>>
    /\ UNCHANGED <<adapterVars, guardVars, schedVars, hold>>

(* service.sh, after a start of the services: read the limited devices ... *)
RecoveryScan ==
    /\ ServiceRecovers
    /\ recovering = {}
    /\ recovering' = rules
    /\ UNCHANGED <<upstream, rules, delays, script, sweep, mpc, wpc, wnow, inbox>>
    /\ UNCHANGED <<adapterVars, guardVars, schedVars, histVars>>

(* ... and announce them one by one, whatever rules.json says by then. *)
RecoveryNotify(m) ==
    /\ m \in recovering
    /\ recovering' = recovering \ {m}
    /\ \E lost \in BOOLEAN : SendNotify(m, TRUE, lost)
    /\ excuse' = IF m \notin rules \/ Busy(script \cup sweep, m)
                 THEN excuse \cup {"stale_recovery"} ELSE excuse
    /\ UNCHANGED <<upstream, rules, delays, script, sweep, mpc, wpc, wnow>>
    /\ UNCHANGED <<adapterVars, guardVars, schedVars, hold>>

(* cleanup_stale_rules.sh comes to a device that was not seen for weeks, outside
   hnc_httpd's stateMu: apply_device_rule.sh clear, up to its notify ... *)
CleanupClear(m) ==
    /\ Cleans
    /\ sweep = {}
    /\ sweep' = {[mac |-> m, op |-> "clear"]}
    /\ \E lost \in BOOLEAN :
        /\ IF Notifies(m, "clear") THEN SendNotify(m, FALSE, lost) ELSE inbox' = inbox /\ ~lost
        /\ excuse' = excuse \cup NotifyExcuse(lost, script, m)
    /\ UNCHANGED <<upstream, rules, delays, script, recovering, mpc, wpc, wnow>>
    /\ UNCHANGED <<adapterVars, guardVars, schedVars, hold>>

(* ... its limit_enabled = false, whose failure is only logged ... *)
CleanupWriteRules ==
    \E a \in sweep :
        /\ a.op = "clear"
        /\ \/ rules' = rules \ {a.mac}
           \/ WritesMayFail /\ rules' = rules
        /\ sweep' = {[mac |-> a.mac, op |-> "remove"]}
        /\ UNCHANGED <<upstream, delays, script, recovering, mpc, wpc, wnow, inbox>>
        /\ UNCHANGED <<adapterVars, guardVars, schedVars, histVars>>

(* ... and device_remove, which takes a delay with it that clear kept, and of which
   nobody tells the scheduler. *)
CleanupRemove ==
    \E a \in sweep :
        /\ a.op = "remove"
        /\ rules' = rules \ {a.mac}
        /\ delays' = delays \ {a.mac}
        /\ sweep' = {}
        /\ excuse' = IF a.mac \in delays \/ Busy(script, a.mac)
                     THEN excuse \cup {"swept"} ELSE excuse
        /\ UNCHANGED <<upstream, script, recovering, mpc, wpc, wnow, inbox>>
        /\ UNCHANGED <<adapterVars, guardVars, schedVars, hold>>

(* device_remove failed, or the cleanup was killed. *)
CleanupUnwritten ==
    /\ WritesMayFail
    /\ sweep # {}
    /\ sweep' = {}
    /\ excuse' = excuse \cup {"unwritten"}
    /\ UNCHANGED <<upstream, rules, delays, script, recovering, mpc, wpc, wnow, inbox>>
    /\ UNCHANGED <<adapterVars, guardVars, schedVars, hold>>

FrameworkStep ==
    /\ \E i \in Ifaces : FrameworkEnter(i) \/ FrameworkWrite(i) \/ FrameworkDelete(i)
    /\ UNCHANGED <<schedVars, histVars, envVars, mpc, wpc, wnow, inbox>>

GuardStep ==
    /\ ringbuf_handle_event \/ ringbuf_thread_dies
    /\ UNCHANGED <<schedVars, histVars, envVars, mpc, wpc, wnow, inbox>>

-----------------------------------------------------------------------------
Init ==
    /\ AdapterInit
    /\ GuardInit
    /\ initialized = FALSE
    /\ adapter = "null"
    /\ limited = {}
    /\ primary = 0
    /\ should_stop = FALSE
    /\ refresh_requested = FALSE
    /\ mpc = "down"
    /\ wpc = "none"
    /\ wnow = 0
    /\ inbox = <<>>
    /\ upstream \in Ifaces \cup {0}
    /\ rules \in SUBSET Macs
    /\ delays \in IF "delay" \in Ops THEN SUBSET Macs ELSE {{}}
    /\ script = {}
    /\ recovering = {}
    /\ sweep = {}
    /\ hold = {}
    /\ excuse = {}

(* Steps of the main thread that follow from what it has begun. *)
MainStep ==
    \/ LsmCall
    \/ LsmAttach
    \/ LsmStartConsumer
    \/ rebuild_from_rules
    \/ RebuildTrigger
    \/ hnc_scheduler_notify_device_limit_changed
    \/ RequestAfterNotify
    \/ ForceRestoreAdapter
    \/ ShutdownJoin

(* Commands a client may or may not send. *)
ClientCommand ==
    \/ hnc_scheduler_init
    \/ hnc_scheduler_request_refresh
    \/ hnc_scheduler_force_disable_global
    \/ ForceRestoreClear
    \/ hnc_scheduler_shutdown

WorkerStep == WorkerWake \/ WorkerProbe \/ WorkerLsmUpdate \/ WorkerRefresh

ScriptStep ==
    \/ \E m \in Macs, op \in AllOps : ActionNotify(m, op)
    \/ ActionWriteRules
    \/ ActionUnwritten
    \/ RecoveryScan
    \/ \E m \in Macs : RecoveryNotify(m) \/ CleanupClear(m)
    \/ CleanupWriteRules
    \/ CleanupRemove
    \/ CleanupUnwritten

Next ==
    \/ MainStep
    \/ ClientCommand
    \/ WorkerStep
    \/ GuardStep
    \/ ScriptStep
    \/ UpstreamChange
    \/ FrameworkStep
    \/ Crash

Spec == Init /\ [][Next]_vars

(* The threads of hotspotd are scheduled: each enabled main or worker step is
   eventually taken; clients, routing and the framework owe nothing. *)
FairSpec == Spec /\ WF_vars(MainStep) /\ WF_vars(WorkerStep) /\ WF_vars(GuardStep)

-----------------------------------------------------------------------------
(* With no device limited, nothing is left recorded as disabled: the status
   page shows offload on again after the last limit is lifted, in every
   interleaving of the worker's retrigger with notify and forced restore.  The
   exceptions are an operator's OFFLOAD_DISABLE_GLOBAL and a restore walk that
   reported errors. *)
NoStrayDisable ==
    limited = {} /\ hold = {} /\ mpc # "force_restore"
        => disabled = {} /\ ~globally_disabled

(* Once hnc_scheduler_init is through, while some device is limited the
   upstream the scheduler believes in has been disabled, however the upstream
   moved between the init probe, notify and the worker's re-probe - unless
   that write failed or the disabled table was full. *)
PrimaryCovered ==
    /\ adapter = "bpf"
    /\ limited # {}
    /\ mpc # "rebuild_trigger"
    /\ primary # 0
    => primary \in disabled \cup unrecorded

(* What status() reports as disabled is 0 in the kernel map, unless the
   framework wrote or dropped that entry after the adapter did. *)
StatusHonest ==
    \A i \in disabled : limit_map[i] = "zero" \/ i \in overwritten

(* Conversely every 0 in the kernel map is accounted for: recorded as
   disabled, dropped because the table was full, counter-written by the guard,
   or left behind by an earlier process. *)
StatusComplete ==
    \A i \in Ifaces : limit_map[i] = "zero" => i \in disabled \cup unrecorded \cup orphaned

(* The two fixed tables never hold more than their arrays have room for,
   however adds from notify, rebuild and whole-map walks pile up. *)
TablesBounded ==
    Cardinality(limited) <= MaxLimited /\ Cardinality(disabled) <= MaxDisabled

(* With no action or cleanup in flight and no command waiting, the scheduler's set is
   the set of devices rules.json shapes, by a limit or by a delay, across crashes,
   restarts and full sockets.  The exceptions, each recorded by the step that
   causes it: a device dropped at the capacity, an operator's forced restore, a
   failed rules.json write, a command lost to a full socket, a restart that fell
   between an action's lost notify and its write or that lost a delay-only device,
   a recovery loop that announced a device no longer limited, and a cleanup that
   removed a delay or met an action on the same device. *)
RulesAgree ==
    /\ mpc = "idle" /\ initialized
    /\ inbox = <<>>
    /\ script = {} /\ sweep = {}
    /\ excuse = {}
    => limited = rules \cup delays

(* While i stays the elected upstream and some device stays limited, the map
   entry of i is eventually 0 for good: the worker's re-probe catches every
   switch and every cold start.  Two things would break it and are assumed away:
   nobody else writes the map (the framework does, on a device whose guard is not
   loaded), and no write of the adapter fails (a disable that failed is not tried
   again while the upstream stays). *)
LimitEnforced ==
    ~FrameworkWrites /\ ~MayFail =>
        \A i \in Ifaces :
            <>[](initialized /\ adapter = "bpf" /\ limited # {} /\ upstream = i)
                => <>[](limit_map[i] = "zero")

(* A shutdown gets through: the worker sees the stop flag wherever it is. *)
ShutdownCompletes == mpc = "stopping" ~> mpc = "down"
=============================================================================
