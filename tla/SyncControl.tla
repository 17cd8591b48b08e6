----------------------------- MODULE SyncControl -----------------------------
(* The desktop's SyncController: the main thread with its event queue, the  *)
(* worker thread it starts for a registration or a synchronisation, the     *)
(* settings file, and the servers a device registers with.  What happens    *)
(* within a synchronisation is the subject of TodoSync; texts are left out.  *)
EXTENDS Integers, Sequences, FiniteSets

CONSTANTS
    Servers,        \* the addresses at which a server answers
    NoServer,       \* an address at which none does
    DefaultServer,  \* kDefaultServer
    MaxDevices,     \* bounds the registrations
    MaxStarts       \* bounds how often the program is started

Empty == ""
Urls == Servers \cup {NoServer, Empty}

(* Tokens are random; a number tells in which order they were issued.       *)
Token == 1 .. MaxDevices
NoToken == 0

ASSUME ServersAssumption == DefaultServer \in Urls /\ Servers \cap {NoServer, Empty} = {}
ASSUME BoundsAssumption == MaxDevices \in Nat /\ MaxStarts \in Nat

VARIABLES
    main,           \* main thread: "Loop", "Join" (in a click), "Quit", "Off"
    serverUrl,      \* serverUrl_
    token,          \* token_
    syncing,        \* syncing_
    settings,       \* QSettings: [serverUrl, token]
    next,           \* the thread that starts when the join is over
    worker,         \* worker_ and what its thread captured or has got
    finishers,      \* queued calls of finishFromWorker
    devices,        \* devices[s]: table devices of server s, as tokens
    lost,           \* history: tokens whose answer or finisher got lost
    starts          \* starts of the program so far

memory == <<serverUrl, token>>
vars == <<main, memory, syncing, settings, next, worker, finishers,
          devices, lost, starts>>

Settings == [serverUrl: Urls, token: Token \cup {NoToken}]
Thread == [stage: {"None", "Started", "Answered", "Posted", "Ended"},
           kind: {"Register", "Sync"}, base: Urls, token: Token \cup {NoToken}]
Finisher == [kind: {"Register", "Sync"}, ok: BOOLEAN, token: Token \cup {NoToken}]

NoThread == [stage |-> "None", kind |-> "Sync", base |-> NoServer, token |-> NoToken]

(* The thread was never started, or is one that join() does not wait for. *)
Over(thread) == thread.stage \in {"None", "Ended"}

(* What the servers know. *)
Issued == UNION {devices[s] : s \in Servers}

(* The tokens that only the process knows. *)
InFlight ==
    (IF worker.stage = "Answered" THEN {worker.token} ELSE {})
    \cup {finishers[k].token : k \in DOMAIN finishers}

Init ==
    /\ main = "Off"
    /\ settings = [serverUrl |-> DefaultServer, token |-> NoToken]
    /\ serverUrl = NoServer /\ token = NoToken
    /\ syncing = FALSE
    /\ next = NoThread /\ worker = NoThread /\ finishers = <<>>
    /\ devices = [s \in Servers |-> {}]
    /\ lost = {}
    /\ starts = 0

-----------------------------------------------------------------------------
(* The main thread.                                                         *)

(* main, loadSettings *)
Launch ==
    /\ main = "Off"
    /\ starts < MaxStarts /\ starts' = starts + 1
    /\ main' = "Loop"
    /\ serverUrl' = settings.serverUrl /\ token' = settings.token
    /\ UNCHANGED <<syncing, settings, next, worker, finishers, devices, lost>>

(* Slip: the field can be edited while a worker runs. *)
SetServerUrlAnytime(url) ==
    /\ main = "Loop"
    /\ serverUrl' = url
    /\ UNCHANGED <<main, token, syncing, settings, next, worker,
                   finishers, devices, lost, starts>>

(* setServerUrl, from a field that is disabled while syncing. *)
SetServerUrl(url) ==
    /\ main = "Loop" /\ ~syncing
    /\ serverUrl' = url
    /\ UNCHANGED <<main, token, syncing, settings, next, worker,
                   finishers, devices, lost, starts>>

(* Slip: only the token is stored. *)
SaveSettingsTokenOnly(tok) == settings' = [token |-> tok]

(* saveSettings *)
SaveSettings(tok) == settings' = [serverUrl |-> serverUrl, token |-> tok]

(* What a click does up to the join of the previous thread. *)
Begin(kind) ==
    /\ syncing' = TRUE
    /\ SaveSettings(token)
    /\ next' = [stage |-> "Started", kind |-> kind, base |-> serverUrl, token |-> token]
    /\ main' = "Join"
    /\ UNCHANGED <<memory, worker, finishers, devices, lost, starts>>

(* Slip: a click does not look at the flag. *)
ClickAgain(kind) == main = "Loop" /\ Begin(kind)

Click(kind) == main = "Loop" /\ ~syncing /\ Begin(kind)

RegisterDevice == serverUrl # Empty /\ Click("Register")

StartSync == token # NoToken /\ Click("Sync")

(* join, then worker_ = std::thread(...). *)
StartWorker ==
    /\ main = "Join"
    /\ Over(worker)
    /\ worker' = next
    /\ next' = NoThread
    /\ main' = "Loop"
    /\ UNCHANGED <<memory, syncing, settings, finishers, devices, lost, starts>>

(* Slip: the token is not saved. *)
FinishRegistrationUnsaved(f) ==
    /\ token' = IF f.token = NoToken THEN token ELSE f.token
    /\ UNCHANGED settings

(* The finishers of runRegisterWorker: a token is taken over and saved. *)
FinishRegistration(f) ==
    IF f.token = NoToken
    THEN UNCHANGED <<token, settings>>
    ELSE token' = f.token /\ SaveSettings(f.token)

(* The finishers of runSyncWorker; what they show is the subject of TodoSync. *)
FinishSync == UNCHANGED <<token, settings>>

(* Slip: a failed registration leaves the flag set. *)
ReleaseIfOk(f) == IF f.ok THEN FALSE ELSE syncing

Release(f) == FALSE

(* The event loop comes to a queued call. *)
RunFinisher ==
    /\ main = "Loop" /\ finishers # <<>>
    /\ LET f == Head(finishers)
       IN /\ syncing' = Release(f)
          /\ IF f.kind = "Register" THEN FinishRegistration(f) ELSE FinishSync
    /\ finishers' = Tail(finishers)
    /\ UNCHANGED <<main, serverUrl, next, worker, devices, lost, starts>>

(* The window is closed and exec returns; the destructor sets stop_, which  *)
(* nobody reads, and joins.                                                 *)
Quit ==
    /\ main = "Loop"
    /\ main' = "Quit"
    /\ UNCHANGED <<memory, syncing, settings, next, worker, finishers,
                   devices, lost, starts>>

(* The process is gone, with its threads and its queue. *)
Gone ==
    /\ main' = "Off"
    /\ serverUrl' = NoServer /\ token' = NoToken
    /\ syncing' = FALSE
    /\ next' = NoThread /\ worker' = NoThread /\ finishers' = <<>>
    /\ lost' = lost \cup InFlight
    /\ UNCHANGED <<settings, devices, starts>>

(* ~SyncController after its join, and the rest of main. *)
Destroyed == main = "Quit" /\ Over(worker) /\ Gone

(* The process dies. *)
Crash == main # "Off" /\ Gone

-----------------------------------------------------------------------------
(* The worker thread and the server.                                        *)

Post(f) ==
    /\ finishers' = Append(finishers, f)
    /\ worker' = [worker EXCEPT !.stage = "Posted"]
    /\ UNCHANGED <<main, memory, syncing, settings, next, devices, starts>>

(* runRegisterWorker without an answer, or with one that is not ok. *)
RegisterFails ==
    /\ worker.stage = "Started" /\ worker.kind = "Register"
    /\ Post([kind |-> "Register", ok |-> FALSE, token |-> NoToken])
    /\ UNCHANGED lost

(* DeviceService.register: a new token is stored, and sent back.  The       *)
(* address is serverUrl_ as the worker reads it, not the captured one.      *)
Register ==
    /\ worker.stage = "Started" /\ worker.kind = "Register"
    /\ serverUrl \in Servers
    /\ \E tok \in Token :
         /\ tok = Cardinality(Issued) + 1
         /\ devices' = [devices EXCEPT ![serverUrl] = @ \cup {tok}]
         /\ worker' = [worker EXCEPT !.stage = "Answered", !.token = tok]
    /\ UNCHANGED <<main, memory, syncing, settings, next, finishers,
                   lost, starts>>

(* The answer gets through, or it is lost, or it does not parse. *)
RegisterAnswer ==
    /\ worker.stage = "Answered"
    /\ \/ /\ Post([kind |-> "Register", ok |-> TRUE, token |-> worker.token])
          /\ UNCHANGED lost
       \/ /\ Post([kind |-> "Register", ok |-> FALSE, token |-> NoToken])
          /\ lost' = lost \cup {worker.token}

(* AuthFilter: the server at s lets a token pass that it has issued. *)
Authorized(s, tok) == s \in Servers /\ tok \in devices[s]

(* runSyncWorker: the repository does not open, or syncOnce fails or is ok. *)
SyncEnds ==
    /\ worker.stage = "Started" /\ worker.kind = "Sync"
    /\ \E ok \in BOOLEAN :
         /\ ok => Authorized(worker.base, worker.token)
         /\ Post([kind |-> "Sync", ok |-> ok, token |-> NoToken])
    /\ UNCHANGED lost

WorkerReturns ==
    /\ worker.stage = "Posted"
    /\ worker' = [worker EXCEPT !.stage = "Ended"]
    /\ UNCHANGED <<main, memory, syncing, settings, next, finishers,
                   devices, lost, starts>>

-----------------------------------------------------------------------------
MainStep == StartWorker \/ RunFinisher \/ Destroyed
WorkerStep == RegisterFails \/ Register \/ RegisterAnswer \/ SyncEnds \/ WorkerReturns

Next ==
    \/ MainStep \/ WorkerStep
    \/ Launch \/ RegisterDevice \/ StartSync \/ Quit \/ Crash
    \/ \E url \in Urls : SetServerUrl(url)

Spec == Init /\ [][Next]_vars

(* The event loop runs what is queued and a join returns when the thread    *)
(* has; a worker's calls have timeouts.  Users owe us nothing.              *)
LiveSpec == Spec /\ WF_vars(MainStep) /\ WF_vars(WorkerStep)

-----------------------------------------------------------------------------
(* Types of the variables. *)
TypeOK ==
    /\ main \in {"Loop", "Join", "Quit", "Off"}
    /\ serverUrl \in Urls /\ token \in Token \cup {NoToken}
    /\ syncing \in BOOLEAN
    /\ settings \in Settings
    /\ next \in Thread /\ worker \in Thread
    /\ finishers \in Seq(Finisher)
    /\ devices \in [Servers -> SUBSET Token]
    /\ lost \subseteq Token \cup {NoToken}
    /\ starts \in Nat

(* The flag that locks the window is set exactly as long as there is        *)
(* something to lock it for: a thread to be started, one that has not yet   *)
(* posted its finisher, or a finisher that waits - and never two of them.   *)
(* So a click never joins a thread that still talks to a server, no two     *)
(* threads use the repository, and no finisher meets a later click.         *)
FlagCoversWork ==
    main \in {"Loop", "Join"} =>
      LET working == worker.stage \in {"Started", "Answered"}
      IN /\ syncing <=> (main = "Join" \/ working \/ finishers # <<>>)
         /\ main = "Join" => ~working /\ finishers = <<>>
         /\ working => finishers = <<>>
         /\ Len(finishers) <= 1

(* The token the program has, or will have when it is started. *)
Held == IF main = "Off" THEN settings.token ELSE token

(* A registration that a server has stored is not forgotten: its token is   *)
(* held, on its way, or replaced by a later one - or the answer was lost,   *)
(* or the program ended before the finisher ran.                            *)
RegistrationsRemembered ==
    \A s \in Servers : \A tok \in devices[s] :
        tok <= Held \/ tok \in lost \cup InFlight

(* The worker registers with the server whose address the user clicked on,  *)
(* although it reads serverUrl_ when it runs, without a lock.               *)
RegistersWhereClicked ==
    [][\A s \in Servers : devices'[s] # devices[s] => s = worker.base]_vars

(* The window is not locked for good, and a window that is closed goes.     *)
ClicksAndQuitsEnd ==
    /\ syncing ~> ~syncing
    /\ main = "Quit" ~> main = "Off"

=============================================================================
