----------------------------- MODULE AppStatus ------------------------------
(***************************************************************************)
(* The status machine of the data plane (App::Dispatch): every lcore runs  *)
(* one of three loops.  A core thread cycles its worker while the status   *)
(* says so; a virtual core thread runs the slow half of a worker; the      *)
(* state changer on lcore 0 moves the status, and reloads the              *)
(* configuration when a signal asked for it: it stops the core threads by  *)
(* waiting for an acknowledgement of each, copies the configuration into   *)
(* the worker objects, and lets the threads go on.                         *)
(*                                                                         *)
(* The status word and the bit sets of cores are written under one         *)
(* spinlock, which the signal handler takes as well.                       *)
(***************************************************************************)
EXTENDS Integers, Sequences

CONSTANTS Cores,       \* lcores of worker objects (s_core_used_)
          VCores,      \* lcores that run VirtualCycle
          Changer,     \* lcore 0
          Nobody,      \* the lock is free
          MaxSignal,   \* bound on the signals, each of which reloads or quits
          MayQuit,     \* whether SIGINT may arrive
          Prompt,      \* a sleep of APP_STAT_DELAY (4 us) and the acknowledgement
                       \* after it end within a sleep of the changer (16 ms)
          Interrupts   \* whether a signal may interrupt the holder of the lock

AppThreads == Cores \cup VCores \cup {Changer}

ASSUME ThreadAssumption ==
  /\ Cores \cap VCores = {} /\ Changer \notin Cores \cup VCores /\ Nobody \notin AppThreads
  /\ Cores # {}
ASSUME SignalAssumption == MaxSignal \in Nat
ASSUME PlatformAssumption == {MayQuit, Prompt, Interrupts} \subseteq BOOLEAN

Status == {"DC", "INIT", "PREPARE", "BUSYLOOP", "CFGLOAD", "CFGACK", "CFGSWAP"}
ChangerOps == Status \cup {"load", "reset_signal", "reset_ack", "swap"}

VARIABLES
  status,    \* low bits of s_status_
  sig,       \* its signal bits
  prepared,  \* s_core_prepared_
  ack,       \* s_core_ack_
  lock,      \* holder of s_spinlock
  pc,        \* where a thread is
  seen,      \* the local stat of a core thread
  todo,      \* what the changer still does in this round of its loop
  late,      \* core threads asleep or acknowledging since the changer fell asleep
  file,      \* version of the configuration file
  tmp,       \* version in s_CONF_TMP_ and the s_FLUSH_ variables
  conf,      \* version in each worker object
  handler,   \* signal handler on top of a thread: "none", "want" or "in" the lock
  quit       \* s_quit_
appVars == <<status, sig, prepared, ack, lock, pc, seen, todo, late, file, tmp, conf, handler, quit>>

AppInit ==
  /\ status = "DC"
  /\ sig = FALSE
  /\ prepared = {}
  /\ ack = {}
  /\ lock = Nobody
  /\ pc = [t \in AppThreads |-> IF t \in Cores THEN "before" ELSE "loop"]
  /\ seen = [c \in Cores |-> "DC"]
  /\ todo = <<>>
  /\ late = {}
  /\ file = 0
  /\ tmp = 0
  /\ conf = [c \in Cores |-> 0]
  /\ handler = [t \in AppThreads |-> "none"]
  /\ quit = FALSE

AppGoto(t, l) == pc' = [pc EXCEPT ![t] = l]

(* A thread runs its own code unless a signal handler is on top of it.     *)
Runs(t) == handler[t] = "none"

-----------------------------------------------------------------------------
(* Core threads. *)

BeforeCycle(c) ==
  /\ Runs(c) /\ pc[c] = "before"
  /\ AppGoto(c, "prepare")
  /\ UNCHANGED <<status, sig, prepared, ack, lock, seen, todo, late, file, tmp, conf, handler, quit>>

(* Every read-modify-write macro of app.hpp spins for the lock first.      *)
Acquire(t) ==
  /\ Runs(t) /\ lock = Nobody
  /\ \/ pc[t] \in {"prepare", "ack"}
     \/ t = Changer /\ todo # <<>> /\ Head(todo) \notin {"load", "swap"}
  /\ lock' = t
  /\ UNCHANGED <<status, sig, prepared, ack, pc, seen, todo, late, file, tmp, conf, handler, quit>>

SetPrepare(c) ==
  /\ Runs(c) /\ lock = c /\ pc[c] = "prepare"
  /\ prepared' = prepared \cup {c}
  /\ lock' = Nobody
  /\ AppGoto(c, "loop")
  /\ UNCHANGED <<status, sig, ack, seen, todo, late, file, tmp, conf, handler, quit>>

Cycles == {"BUSYLOOP", "CFGLOAD"}

(* Mutant: s_quit_ is only looked at by a thread that does not cycle. *)
LoopTopBusy(c) ==
  /\ Runs(c) /\ pc[c] = "loop"
  /\ \/ quit /\ status \notin Cycles /\ AppGoto(c, "done") /\ UNCHANGED seen
     \/ status \in Cycles /\ seen' = [seen EXCEPT ![c] = status] /\ AppGoto(c, "cycle")
     \/ ~quit /\ status \notin Cycles /\ seen' = [seen EXCEPT ![c] = status] /\ AppGoto(c, "sleep")
  /\ UNCHANGED <<status, sig, prepared, ack, lock, todo, late, file, tmp, conf, handler, quit>>

(* Top of the loop: s_quit_, then the status.                              *)
LoopTop(c) ==
  /\ Runs(c) /\ pc[c] = "loop"
  /\ \/ quit /\ AppGoto(c, "done") /\ UNCHANGED seen
     \/ ~quit /\ status \in Cycles /\ seen' = [seen EXCEPT ![c] = status] /\ AppGoto(c, "cycle")
     \/ ~quit /\ status \notin Cycles /\ seen' = [seen EXCEPT ![c] = status] /\ AppGoto(c, "sleep")
  /\ UNCHANGED <<status, sig, prepared, ack, lock, todo, late, file, tmp, conf, handler, quit>>

(* The burst of APP_STAT_BURST cycles ends. *)
CycleEnd(c) ==
  /\ Runs(c) /\ pc[c] = "cycle"
  /\ AppGoto(c, "loop")
  /\ UNCHANGED <<status, sig, prepared, ack, lock, seen, todo, late, file, tmp, conf, handler, quit>>

Wake(c) ==
  /\ Runs(c) /\ pc[c] = "sleep"
  /\ IF seen[c] = "CFGACK" THEN AppGoto(c, "ack") /\ UNCHANGED late
     ELSE AppGoto(c, "loop") /\ late' = late \ {c}
  /\ UNCHANGED <<status, sig, prepared, ack, lock, seen, todo, file, tmp, conf, handler, quit>>

SetAck(c) ==
  /\ Runs(c) /\ lock = c /\ pc[c] = "ack"
  /\ ack' = ack \cup {c}
  /\ lock' = Nobody
  /\ late' = late \ {c}
  /\ AppGoto(c, "loop")
  /\ UNCHANGED <<status, sig, prepared, seen, todo, file, tmp, conf, handler, quit>>

-----------------------------------------------------------------------------
(* Virtual core threads: they neither prepare nor acknowledge. *)

VirtualTop(v) ==
  /\ Runs(v) /\ pc[v] = "loop"
  /\ \/ quit /\ AppGoto(v, "done")
     \/ ~quit /\ status = "BUSYLOOP" /\ AppGoto(v, "cycle")
  /\ UNCHANGED <<status, sig, prepared, ack, lock, seen, todo, late, file, tmp, conf, handler, quit>>

VirtualEnd(v) ==
  /\ Runs(v) /\ pc[v] = "cycle"
  /\ AppGoto(v, "loop")
  /\ UNCHANGED <<status, sig, prepared, ack, lock, seen, todo, late, file, tmp, conf, handler, quit>>

-----------------------------------------------------------------------------
(* The state changer. *)

(* Mutant: the acknowledgements of the last reload are not cleared. *)
PlanStale ==
  CASE status = "DC"                           -> <<"INIT">>
    [] status = "INIT" /\ prepared = Cores     -> <<"PREPARE">>
    [] status = "PREPARE"                      -> <<"BUSYLOOP">>
    [] status = "BUSYLOOP" /\ sig              -> <<"CFGLOAD">>
    [] status = "CFGLOAD"                      -> <<"load", "reset_signal", "CFGACK">>
    [] status = "CFGACK" /\ ack = Cores        -> <<"CFGSWAP">>
    [] status = "CFGSWAP"                      -> <<"swap", "PREPARE">>
    [] OTHER                                   -> <<>>

(* What one round of the loop does in the present status. *)
Plan ==
  CASE status = "DC"                           -> <<"INIT">>
    [] status = "INIT" /\ prepared = Cores     -> <<"PREPARE">>
    [] status = "PREPARE"                      -> <<"reset_ack", "BUSYLOOP">>
    [] status = "BUSYLOOP" /\ sig              -> <<"CFGLOAD">>
    [] status = "CFGLOAD"                      -> <<"load", "reset_signal", "reset_ack", "CFGACK">>
    [] status = "CFGACK" /\ ack = Cores        -> <<"CFGSWAP">>
    [] status = "CFGSWAP"                      -> <<"swap", "PREPARE">>
    [] OTHER                                   -> <<>>

(* The changer sleeps before every round: long enough for a core thread    *)
(* that is asleep to wake up and acknowledge.                              *)
Sleep ==
  /\ Runs(Changer) /\ pc[Changer] = "loop" /\ todo = <<>>
  /\ \/ quit /\ AppGoto(Changer, "done") /\ UNCHANGED late
     \/ ~quit /\ AppGoto(Changer, "sleep") /\ late' = {c \in Cores : pc[c] \in {"sleep", "ack"}}
  /\ UNCHANGED <<status, sig, prepared, ack, lock, seen, todo, file, tmp, conf, handler, quit>>

Round ==
  /\ Runs(Changer) /\ pc[Changer] = "sleep"
  /\ Prompt => late = {}
  /\ todo' = Plan
  /\ AppGoto(Changer, "loop")
  /\ UNCHANGED <<status, sig, prepared, ack, lock, seen, late, file, tmp, conf, handler, quit>>

(* Mutant: the first load is kept. *)
LoadConfigOnce ==
  /\ Runs(Changer) /\ todo # <<>> /\ Head(todo) = "load"
  /\ tmp' = IF tmp = 0 THEN file ELSE tmp
  /\ todo' = Tail(todo)
  /\ UNCHANGED <<status, sig, prepared, ack, lock, pc, seen, late, file, conf, handler, quit>>

(* LoadConfig reads the file. *)
LoadConfig ==
  /\ Runs(Changer) /\ todo # <<>> /\ Head(todo) = "load"
  /\ tmp' = file
  /\ todo' = Tail(todo)
  /\ UNCHANGED <<status, sig, prepared, ack, lock, pc, seen, late, file, conf, handler, quit>>

(* Mutant: SwapConfig stops at the first worker object. *)
SwapConfigFirst ==
  /\ Runs(Changer) /\ todo # <<>> /\ Head(todo) = "swap"
  /\ \E c \in Cores : conf' = [conf EXCEPT ![c] = tmp]
  /\ todo' = Tail(todo)
  /\ UNCHANGED <<status, sig, prepared, ack, lock, pc, seen, late, file, tmp, handler, quit>>

(* SwapConfig visits the worker objects one by one. *)
SwapConfig ==
  /\ Runs(Changer) /\ todo # <<>> /\ Head(todo) = "swap"
  /\ \/ \E c \in Cores : conf[c] # tmp /\ conf' = [conf EXCEPT ![c] = tmp] /\ UNCHANGED todo
     \/ (\A c \in Cores : conf[c] = tmp) /\ todo' = Tail(todo) /\ UNCHANGED conf
  /\ UNCHANGED <<status, sig, prepared, ack, lock, pc, seen, late, file, tmp, handler, quit>>

(* RESET_SIGNAL, RESET_ACK and SET, at the end of their critical sections. *)
Write ==
  /\ Runs(Changer) /\ lock = Changer
  /\ sig' = (sig /\ Head(todo) # "reset_signal")
  /\ ack' = IF Head(todo) = "reset_ack" THEN {} ELSE ack
  /\ status' = IF Head(todo) \in Status THEN Head(todo) ELSE status
  /\ lock' = Nobody
  /\ todo' = Tail(todo)
  /\ UNCHANGED <<prepared, pc, seen, late, file, tmp, conf, handler, quit>>

-----------------------------------------------------------------------------
(* Signals are delivered to some thread of the process.  The operator      *)
(* changes the file and sends the signal; one handler runs at a time.      *)

Reload(t) ==
  /\ file < MaxSignal /\ ~quit
  /\ pc[t] # "done" /\ \A u \in AppThreads : Runs(u)
  /\ Interrupts \/ lock # t
  /\ file' = file + 1
  /\ handler' = [handler EXCEPT ![t] = "want"]
  /\ UNCHANGED <<status, sig, prepared, ack, lock, pc, seen, todo, late, tmp, conf, quit>>

(* SET_SIGNAL in the handler. *)
HandlerLock(t) ==
  /\ handler[t] = "want" /\ lock = Nobody
  /\ lock' = t
  /\ handler' = [handler EXCEPT ![t] = "in"]
  /\ UNCHANGED <<status, sig, prepared, ack, pc, seen, todo, late, file, tmp, conf, quit>>

SetSignal(t) ==
  /\ handler[t] = "in"
  /\ sig' = TRUE
  /\ lock' = Nobody
  /\ handler' = [handler EXCEPT ![t] = "none"]
  /\ UNCHANGED <<status, prepared, ack, pc, seen, todo, late, file, tmp, conf, quit>>

Interrupt ==
  /\ MayQuit /\ ~quit /\ file < MaxSignal
  /\ quit' = TRUE
  /\ UNCHANGED <<status, sig, prepared, ack, lock, pc, seen, todo, late, file, tmp, conf, handler>>

-----------------------------------------------------------------------------
CoreStep(c) == BeforeCycle(c) \/ SetPrepare(c) \/ LoopTop(c) \/ CycleEnd(c) \/ Wake(c) \/ SetAck(c)
VirtualStep(v) == VirtualTop(v) \/ VirtualEnd(v)
ChangerStep == Sleep \/ Round \/ LoadConfig \/ SwapConfig \/ Write

AppNext ==
  \/ \E c \in Cores : CoreStep(c)
  \/ \E v \in VCores : VirtualStep(v)
  \/ ChangerStep
  \/ \E t \in AppThreads : Acquire(t) \/ Reload(t) \/ HandlerLock(t) \/ SetSignal(t)
  \/ Interrupt

AppSpec == AppInit /\ [][AppNext]_appVars

(* Threads own their lcore; a spinning thread gets the lock in the end,    *)
(* because the others hold it for a few instructions between sleeps.       *)
AppFairness ==
  /\ \A c \in Cores : WF_appVars(CoreStep(c) \/ SetSignal(c))
  /\ \A v \in VCores : WF_appVars(VirtualStep(v) \/ SetSignal(v))
  /\ WF_appVars(ChangerStep \/ SetSignal(Changer))
  /\ \A t \in AppThreads : SF_appVars(Acquire(t) \/ HandlerLock(t))

AppFairSpec == AppSpec /\ AppFairness

-----------------------------------------------------------------------------
(* AppTypeOK: status, core sets, configuration versions stay in range: no  *)
(* worker object has a configuration newer than the file.                  *)
AppTypeOK ==
  /\ status \in Status
  /\ sig \in BOOLEAN
  /\ prepared \subseteq Cores
  /\ ack \subseteq Cores
  /\ lock \in AppThreads \cup {Nobody}
  /\ pc \in [AppThreads -> {"before", "prepare", "loop", "cycle", "sleep", "ack", "done"}]
  /\ seen \in [Cores -> Status]
  /\ todo \in Seq(ChangerOps)
  /\ late \subseteq Cores
  /\ file \in 0 .. MaxSignal
  /\ tmp \in 0 .. MaxSignal
  /\ conf \in [Cores -> 0 .. MaxSignal]
  /\ handler \in [AppThreads -> {"none", "want", "in"}]
  /\ quit \in BOOLEAN

(* SwapAlone: while SwapConfig writes the worker objects, no core thread   *)
(* is inside its burst of cycles: every acknowledgement the changer        *)
(* counted was given for this reload by a thread that has stayed out.      *)
SwapAlone == todo # <<>> /\ Head(todo) = "swap" => \A c \in Cores : pc[c] # "cycle"

(* OneConf: two core threads that cycle at the same time work with the     *)
(* same configuration.                                                     *)
OneConf == \A c, d \in Cores : pc[c] = "cycle" /\ pc[d] = "cycle" => conf[c] = conf[d]

(* Switching: the changer looks at the status again and again              *)
(* ("state switching every 10 ms").                                        *)
Switching == []<>(pc[Changer] = "sleep" \/ quit)

(* Reloaded: a signal that is set in BUSYLOOP brings the configuration     *)
(* that the file had at that time, or a newer one, to every worker.        *)
Reloaded ==
  \A v \in 1 .. MaxSignal :
    (status = "BUSYLOOP" /\ sig /\ file >= v) ~> (quit \/ \A c \in Cores : conf[c] >= v)

(* QuitEnds: after SIGINT every thread leaves its loop. *)
QuitEnds == quit ~> \A t \in AppThreads : pc[t] = "done"
=============================================================================
