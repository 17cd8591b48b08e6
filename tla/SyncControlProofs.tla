-------------------------- MODULE SyncControlProofs --------------------------
(* Theorems about SyncControl, for any servers, devices and starts. *)
EXTENDS SyncControl, TLAPS, FiniteSetTheorems, SequenceTheorems

Working == worker.stage \in {"Started", "Answered"}

(* There is never more to do than one click asked for: FlagCoversWork, and  *)
(* what it rests on while the window is being closed, or is gone.           *)
OneJob ==
    /\ Len(finishers) <= 1
    /\ Working => finishers = <<>>
    /\ main = "Join" => /\ ~Working /\ finishers = <<>>
                        /\ next.stage = "Started" /\ next.base = serverUrl
    /\ main \in {"Loop", "Join"} =>
         (syncing <=> (main = "Join" \/ Working \/ finishers # <<>>))
    /\ main = "Off" => worker.stage = "None" /\ finishers = <<>> /\ ~syncing

(* A thread talks to the address that the field shows. *)
AddressKept == worker.stage = "Started" => worker.base = serverUrl

(* Tokens are held in the order in which they were issued: whatever is in   *)
(* flight is newer than the token in the settings, which memory equals, and  *)
(* comes from a registration.                                              *)
TokensInOrder ==
    /\ \E n \in Nat : Issued = 1 .. n
    /\ main # "Off" => token = settings.token
    /\ settings.token \in Issued \cup {NoToken}
    /\ \A tok \in InFlight : tok = NoToken \/ (tok \in Issued /\ settings.token <= tok)
    /\ \A k \in DOMAIN finishers : finishers[k].kind = "Sync" => finishers[k].token = NoToken

IInv == TypeOK /\ OneJob /\ AddressKept /\ TokensInOrder /\ RegistrationsRemembered

-----------------------------------------------------------------------------
(* Types *)

(* A thread that a click prepares is a thread. *)
LEMMA ThreadType ==
    ASSUME TypeOK, NEW kind \in {"Register", "Sync"}
    PROVE  /\ [stage |-> "Started", kind |-> kind, base |-> serverUrl, token |-> token] \in Thread
           /\ NoThread \in Thread
  BY DEF TypeOK, Thread, NoThread, Urls

(* The program starts with the right types. *)
LEMMA TypeInit == Init => TypeOK
<1>1. NoServer \in Urls /\ NoThread \in Thread /\ <<>> \in Seq(Finisher)
  BY DEF Urls, NoThread, Thread
<1>2. [serverUrl |-> DefaultServer, token |-> NoToken] \in Settings
  BY ServersAssumption DEF Settings
<1>3. ASSUME Init PROVE devices \in [Servers -> SUBSET Token] /\ finishers \in Seq(Finisher)
  BY <1>1, <1>3 DEF Init
<1>4. ASSUME Init PROVE lost \subseteq Token \cup {NoToken} /\ starts \in Nat
  BY <1>4 DEF Init
<1>5. ASSUME Init
      PROVE  /\ main \in {"Loop", "Join", "Quit", "Off"} /\ syncing \in BOOLEAN
             /\ serverUrl \in Urls /\ token \in Token \cup {NoToken}
             /\ settings \in Settings /\ next \in Thread /\ worker \in Thread
  BY <1>1, <1>2, <1>5 DEF Init
<1>6. QED
  BY <1>3, <1>4, <1>5 DEF TypeOK

(* A click keeps the types. *)
LEMMA BeginType ==
    ASSUME TypeOK, NEW kind \in {"Register", "Sync"}, Begin(kind) PROVE TypeOK'
<1>1. next' \in Thread
  BY ThreadType DEF Begin
<1>2. settings' \in Settings
  BY DEF Begin, SaveSettings, Settings, TypeOK
<1>3. QED
  BY <1>1, <1>2 DEF Begin, TypeOK, memory

(* A finisher that is posted keeps the types. *)
LEMMA PostType ==
    ASSUME TypeOK, NEW f \in Finisher, Post(f), lost' \subseteq Token \cup {NoToken} PROVE TypeOK'
<1>1. worker' \in Thread
  BY DEF Post, TypeOK, Thread
<1>2. finishers' \in Seq(Finisher)
  BY DEF Post, TypeOK
<1>3. QED
  BY <1>1, <1>2 DEF Post, TypeOK, memory

(* The end of the process keeps the types. *)
LEMMA GoneType == ASSUME TypeOK, Gone PROVE TypeOK'
<1>1. worker.token \in Token \cup {NoToken}
  BY DEF TypeOK, Thread
<1>2. \A k \in DOMAIN finishers : finishers[k].token \in Token \cup {NoToken}
  <2>1. finishers \in [1 .. Len(finishers) -> Finisher] /\ DOMAIN finishers = 1 .. Len(finishers)
    BY LenProperties DEF TypeOK
  <2>2. QED
    BY <2>1 DEF Finisher
<1>3. InFlight \subseteq Token \cup {NoToken}
  BY <1>1, <1>2 DEF InFlight
<1>4. lost' \subseteq Token \cup {NoToken}
  BY <1>3 DEF Gone, TypeOK
<1>5. NoThread \in Thread /\ NoServer \in Urls /\ <<>> \in Seq(Finisher)
  BY ThreadType DEF Urls
<1>6. QED
  BY <1>4, <1>5 DEF Gone, TypeOK

(* Every step keeps the types. *)
LEMMA TypeNext == ASSUME TypeOK, [Next]_vars PROVE TypeOK'
<1>1. CASE StartWorker
  BY <1>1, ThreadType DEF StartWorker, TypeOK, memory
<1>2. CASE RunFinisher
  <2>1. finishers \in Seq(Finisher) /\ finishers # <<>>
    BY <1>2 DEF RunFinisher, TypeOK
  <2>2. Head(finishers) \in Finisher /\ Tail(finishers) \in Seq(Finisher)
    BY <2>1
  <2>3. Head(finishers).token \in Token \cup {NoToken}
    BY <2>2 DEF Finisher
  <2>4. token' \in Token \cup {NoToken} /\ settings' \in Settings
    BY <1>2, <2>3
    DEF RunFinisher, TypeOK, FinishRegistration, FinishSync, SaveSettings, Settings
  <2>5. QED
    BY <1>2, <2>2, <2>4 DEF RunFinisher, Release, TypeOK
<1>3. CASE Destroyed
  BY <1>3, GoneType DEF Destroyed
<1>4. CASE RegisterFails
  BY <1>4, PostType DEF RegisterFails, Finisher, TypeOK
<1>5. CASE Register
  <2>1. PICK tok \in Token : /\ devices' = [devices EXCEPT ![serverUrl] = @ \cup {tok}]
                             /\ worker' = [worker EXCEPT !.stage = "Answered", !.token = tok]
    BY <1>5 DEF Register
  <2>2. worker' \in Thread
    BY <2>1 DEF TypeOK, Thread
  <2>3. devices' \in [Servers -> SUBSET Token]
    BY <2>1 DEF TypeOK
  <2>4. QED
    BY <1>5, <2>2, <2>3 DEF Register, TypeOK, memory
<1>6. CASE RegisterAnswer
  <2>1. worker.token \in Token \cup {NoToken}
    BY DEF TypeOK, Thread
  <2>2. CASE Post([kind |-> "Register", ok |-> TRUE, token |-> worker.token]) /\ lost' = lost
    BY <2>1, <2>2, PostType DEF Finisher, TypeOK
  <2>3. CASE /\ Post([kind |-> "Register", ok |-> FALSE, token |-> NoToken])
             /\ lost' = lost \cup {worker.token}
    <3>1. lost' \subseteq Token \cup {NoToken}
      BY <2>1, <2>3 DEF TypeOK, NoToken
    <3>2. QED
      BY <2>3, <3>1, PostType DEF Finisher
  <2>4. QED
    BY <1>6, <2>2, <2>3 DEF RegisterAnswer
<1>7. CASE SyncEnds
  <2>1. PICK ok \in BOOLEAN : Post([kind |-> "Sync", ok |-> ok, token |-> NoToken])
    BY <1>7 DEF SyncEnds
  <2>2. QED
    BY <1>7, <2>1, PostType DEF SyncEnds, Finisher, TypeOK
<1>8. CASE WorkerReturns
  <2>1. worker' \in Thread
    BY <1>8 DEF WorkerReturns, TypeOK, Thread
  <2>2. QED
    BY <1>8, <2>1 DEF WorkerReturns, TypeOK, memory
<1>9. CASE Launch
  BY <1>9 DEF Launch, TypeOK, Settings
<1>10. CASE RegisterDevice \/ StartSync
  BY <1>10, BeginType DEF RegisterDevice, StartSync, Click
<1>11. CASE Quit
  BY <1>11 DEF Quit, TypeOK, memory
<1>12. CASE Crash
  BY <1>12, GoneType DEF Crash
<1>13. CASE \E url \in Urls : SetServerUrl(url)
  BY <1>13 DEF SetServerUrl, TypeOK
<1>14. CASE UNCHANGED vars
  BY <1>14 DEF vars, memory, TypeOK
<1>15. QED
  BY <1>1, <1>2, <1>3, <1>4, <1>5, <1>6, <1>7, <1>8, <1>9, <1>10, <1>11, <1>12,
     <1>13, <1>14 DEF Next, MainStep, WorkerStep

-----------------------------------------------------------------------------
(* One job at a time *)

(* A queue of one call is empty once the call has run. *)
LEMMA OneFinisher ==
    ASSUME NEW S, NEW s \in Seq(S), Len(s) <= 1, s # <<>> PROVE Tail(s) = <<>>
<1>1. Len(s) \in Nat \ {0}
  BY EmptySeq, ZenonT(20)
<1>2. Len(s) = 1
  BY <1>1
<1>3. Tail(s) \in Seq(S) /\ Len(Tail(s)) = Len(s) - 1
  BY HeadTailProperties, ZenonT(20)
<1>4. Len(Tail(s)) = 0
  BY <1>2, <1>3
<1>5. Tail(s) # <<>> => Len(Tail(s)) \in Nat \ {0}
  BY <1>3, EmptySeq, ZenonT(20)
<1>6. QED
  BY <1>4, <1>5

(* Nothing is left of a process that is gone. *)
LEMMA GoneJob == Gone => OneJob' /\ AddressKept'
  BY DEF Gone, OneJob, Working, NoThread, AddressKept

(* A thread that has posted its finisher has nothing left to do. *)
LEMMA PostJob ==
    ASSUME TypeOK, OneJob, AddressKept, Working, NEW f \in Finisher, Post(f)
    PROVE  OneJob' /\ AddressKept'
<1>1. finishers = <<>> /\ finishers' = <<f>>
  BY DEF OneJob, Post, TypeOK
<1>2. worker'.stage = "Posted"
  BY DEF Post, TypeOK, Thread
<1>3. QED
  BY <1>1, <1>2 DEF OneJob, Working, Post, AddressKept, memory

(* A click finds no work and no finisher that it could disturb. *)
LEMMA BeginJob ==
    ASSUME TypeOK, OneJob, AddressKept, NEW kind \in {"Register", "Sync"}, Click(kind)
    PROVE  OneJob' /\ AddressKept'
  BY DEF Click, Begin, OneJob, Working, AddressKept, memory

(* At most one thread works, or one finisher waits, and the flag tells.     *)
LEMMA JobNext ==
    ASSUME TypeOK, OneJob, AddressKept, [Next]_vars PROVE OneJob' /\ AddressKept'
<1>1. CASE StartWorker
  BY <1>1 DEF StartWorker, OneJob, Working, AddressKept, memory, NoThread
<1>2. CASE RunFinisher
  <2>1. finishers \in Seq(Finisher) /\ finishers # <<>> /\ Len(finishers) <= 1
    BY <1>2 DEF RunFinisher, TypeOK, OneJob
  <2>2. finishers' = <<>> /\ ~Working
    BY <1>2, <2>1, OneFinisher DEF RunFinisher, OneJob
  <2>3. QED
    BY <1>2, <2>2 DEF RunFinisher, Release, OneJob, Working, AddressKept
<1>3. CASE Destroyed \/ Crash
  BY <1>3, GoneJob DEF Destroyed, Crash
<1>4. CASE RegisterFails
  BY <1>4, PostJob DEF RegisterFails, Finisher, Working
<1>5. CASE Register
  <2>1. worker'.stage = "Answered"
    BY <1>5 DEF Register, TypeOK, Thread
  <2>2. QED
    BY <1>5, <2>1 DEF Register, OneJob, Working, AddressKept, memory
<1>6. CASE RegisterAnswer
  <2>1. worker.token \in Token \cup {NoToken}
    BY DEF TypeOK, Thread
  <2>2. \E f \in Finisher : Post(f)
    BY <1>6, <2>1 DEF RegisterAnswer, Finisher
  <2>3. QED
    BY <1>6, <2>2, PostJob DEF RegisterAnswer, Working
<1>7. CASE SyncEnds
  BY <1>7, PostJob DEF SyncEnds, Finisher, Working
<1>8. CASE WorkerReturns
  <2>1. worker'.stage = "Ended"
    BY <1>8 DEF WorkerReturns, TypeOK, Thread
  <2>2. QED
    BY <1>8, <2>1 DEF WorkerReturns, OneJob, Working, AddressKept, memory
<1>9. CASE Launch
  BY <1>9 DEF Launch, OneJob, Working, AddressKept
<1>10. CASE RegisterDevice \/ StartSync
  BY <1>10, BeginJob DEF RegisterDevice, StartSync
<1>11. CASE Quit
  BY <1>11 DEF Quit, OneJob, Working, AddressKept, memory
<1>12. CASE \E url \in Urls : SetServerUrl(url)
  BY <1>12 DEF SetServerUrl, OneJob, Working, AddressKept
<1>13. CASE UNCHANGED vars
  BY <1>13 DEF vars, memory, OneJob, Working, AddressKept
<1>14. QED
  BY <1>1, <1>2, <1>3, <1>4, <1>5, <1>6, <1>7, <1>8, <1>9, <1>10, <1>11, <1>12,
     <1>13 DEF Next, MainStep, WorkerStep

-----------------------------------------------------------------------------
(* Tokens *)

(* Registered tokens are kept where they have to be: what the theorem below *)
(* needs of every step.                                                    *)
TokensKept == TokensInOrder /\ RegistrationsRemembered

(* A step that moves no token keeps the order. *)
LEMMA QuietTokens ==
    ASSUME TokensKept, UNCHANGED <<devices, lost>>,
           settings'.token = settings.token, InFlight' = InFlight, Held' = Held,
           main' # "Off" => token' = settings'.token,
           \A k \in DOMAIN finishers' :
              finishers'[k].kind = "Sync" => finishers'[k].token = NoToken
    PROVE  TokensKept'
<1>1. Issued' = Issued
  BY DEF Issued
<1>2. TokensInOrder'
  BY <1>1 DEF TokensKept, TokensInOrder
<1>3. RegistrationsRemembered'
  BY DEF TokensKept, RegistrationsRemembered
<1>4. QED
  BY <1>2, <1>3 DEF TokensKept

(* A posted finisher brings the token that was answered, or none; a token   *)
(* that it does not bring is lost.                                         *)
LEMMA PostTokens ==
    ASSUME TypeOK, OneJob, TokensKept, Working, NEW f \in Finisher, Post(f),
           lost \subseteq lost',
           f.token # NoToken => worker.stage = "Answered" /\ f.token = worker.token,
           worker.stage = "Answered" => worker.token \in lost' \cup {f.token},
           f.kind = "Sync" => f.token = NoToken
    PROVE  TokensKept'
<1>1. finishers = <<>> /\ finishers' = <<f>>
  BY DEF OneJob, Post, TypeOK
<1>2. worker'.stage = "Posted"
  BY DEF Post, TypeOK, Thread
<1>3. InFlight' = {f.token}
  BY <1>1, <1>2 DEF InFlight
<1>4. InFlight = IF worker.stage = "Answered" THEN {worker.token} ELSE {}
  BY <1>1 DEF InFlight
<1>5. Issued' = Issued /\ devices' = devices /\ settings' = settings /\ Held' = Held
  BY DEF Issued, Post, Held, memory
<1>6. TokensInOrder'
  <2>1. \A tok \in InFlight' : tok = NoToken \/ (tok \in Issued' /\ settings'.token <= tok)
    BY <1>3, <1>4, <1>5 DEF TokensKept, TokensInOrder
  <2>2. \A k \in DOMAIN finishers' :
           finishers'[k].kind = "Sync" => finishers'[k].token = NoToken
    BY <1>1
  <2>3. QED
    BY <1>5, <2>1, <2>2 DEF TokensKept, TokensInOrder, Post, memory
<1>7. RegistrationsRemembered'
  BY <1>3, <1>4, <1>5 DEF TokensKept, RegistrationsRemembered
<1>8. QED
  BY <1>6, <1>7 DEF TokensKept

(* With the process go the tokens that only it knew. *)
LEMMA GoneTokens == ASSUME TokensKept, main # "Off", Gone PROVE TokensKept'
<1>1. InFlight' = {} /\ finishers' = <<>>
  BY DEF Gone, InFlight, NoThread
<1>2. Issued' = Issued /\ Held' = settings.token /\ Held = token
  BY DEF Gone, Issued, Held
<1>3. TokensInOrder'
  BY <1>1, <1>2 DEF Gone, TokensKept, TokensInOrder
<1>4. token = settings.token
  BY DEF TokensKept, TokensInOrder
<1>5. RegistrationsRemembered'
  BY <1>1, <1>2, <1>4 DEF Gone, TokensKept, RegistrationsRemembered
<1>6. QED
  BY <1>3, <1>5 DEF TokensKept

(* A token is the next number. *)
LEMMA RegisterTokens ==
    ASSUME TypeOK, OneJob, TokensKept, Register PROVE TokensKept'
<1>1. PICK n \in Nat : Issued = 1 .. n
  BY DEF TokensKept, TokensInOrder
<1>2. Cardinality(Issued) = n
  BY <1>1, FS_Interval
<1>3. PICK tok \in Token : /\ tok = n + 1
                           /\ devices' = [devices EXCEPT ![serverUrl] = @ \cup {tok}]
                           /\ worker' = [worker EXCEPT !.stage = "Answered", !.token = tok]
  BY <1>2 DEF Register
<1>4. serverUrl \in Servers /\ UNCHANGED <<main, token, settings, finishers, lost>>
  BY DEF Register, memory
<1>5. \A s \in Servers : devices'[s] = IF s = serverUrl THEN devices[s] \cup {tok} ELSE devices[s]
  BY <1>3, <1>4 DEF TypeOK
<1>6. Issued' = Issued \cup {tok}
  BY <1>4, <1>5 DEF Issued
<1>7. finishers = <<>> /\ worker.stage = "Started"
  BY DEF Register, OneJob, Working
<1>8. worker'.stage = "Answered" /\ worker'.token = tok
  BY <1>3 DEF TypeOK, Thread
<1>9. InFlight' = {tok} /\ InFlight = {}
  BY <1>4, <1>7, <1>8 DEF InFlight
<1>10. settings.token \in Nat /\ settings.token <= n
  BY <1>1 DEF TokensKept, TokensInOrder, NoToken
<1>11. TokensInOrder'
  <2>1. n + 1 \in Nat /\ Issued' = 1 .. n + 1
    BY <1>1, <1>3, <1>6
  <2>2. settings.token <= tok
    BY <1>1, <1>3, <1>10
  <2>3. \E m \in Nat : Issued' = 1 .. m
    BY <2>1
  <2>4. QED
    BY <1>4, <1>6, <1>7, <1>9, <2>2, <2>3 DEF TokensKept, TokensInOrder
<1>12. RegistrationsRemembered'
  <2>1. Held' = Held
    BY <1>4 DEF Held
  <2>2. QED
    BY <1>4, <1>5, <1>9, <2>1 DEF TokensKept, RegistrationsRemembered
<1>13. QED
  BY <1>11, <1>12 DEF TokensKept

(* The finisher that runs hands its token over, and a newer one at that. *)
LEMMA FinisherTokens ==
    ASSUME TypeOK, OneJob, TokensKept, RunFinisher PROVE TokensKept'
<1>1. finishers \in Seq(Finisher) /\ finishers # <<>> /\ Len(finishers) <= 1
  BY DEF RunFinisher, TypeOK, OneJob
<1>2. Len(finishers) = 1 /\ DOMAIN finishers = {1}
  <2>1. Len(finishers) \in Nat \ {0}
    BY <1>1, EmptySeq, ZenonT(20)
  <2>2. Len(finishers) = 1
    BY <1>1, <2>1
  <2>3. DOMAIN finishers = 1 .. Len(finishers)
    BY <1>1, LenProperties, ZenonT(20)
  <2>4. 1 .. 1 = {1}
    OBVIOUS
  <2>5. QED
    BY <2>2, <2>3, <2>4
<1> DEFINE f == Head(finishers)
<1>3. f = finishers[1] /\ f \in Finisher
  BY <1>1
<1>4. finishers' = <<>> /\ ~Working /\ UNCHANGED <<main, worker, devices, lost>> /\ main = "Loop"
  BY <1>1, OneFinisher DEF RunFinisher, OneJob
<1>5. InFlight = {f.token} /\ InFlight' = {}
  <2>1. worker.stage # "Answered"
    BY <1>4 DEF Working
  <2>2. QED
    BY <1>2, <1>3, <1>4, <2>1 DEF InFlight
<1>6. Issued' = Issued
  BY <1>4 DEF Issued
<1>7. token = settings.token
  BY <1>4 DEF TokensKept, TokensInOrder
<1>8. CASE f.token = NoToken
  <2>1. UNCHANGED <<token, settings>>
    BY <1>8 DEF RunFinisher, FinishRegistration, FinishSync
  <2>2. TokensInOrder'
    BY <1>4, <1>5, <1>6, <2>1 DEF TokensKept, TokensInOrder
  <2>3. RegistrationsRemembered'
    <3>1. \A s \in Servers : \A tok \in devices[s] : tok # NoToken
      BY DEF TypeOK, Token, NoToken
    <3>2. Held' = Held
      BY <1>4, <2>1 DEF Held
    <3>3. QED
      BY <1>4, <1>5, <1>8, <3>1, <3>2 DEF TokensKept, RegistrationsRemembered
  <2>4. QED
    BY <2>2, <2>3 DEF TokensKept
<1>9. CASE f.token # NoToken
  <2>1. f.kind = "Register"
    BY <1>2, <1>3, <1>9 DEF TokensKept, TokensInOrder, Finisher
  <2>2. token' = f.token /\ settings'.token = f.token
    BY <1>9, <2>1 DEF RunFinisher, FinishRegistration, SaveSettings
  <2>3. f.token \in Issued /\ token <= f.token
    BY <1>5, <1>7, <1>9 DEF TokensKept, TokensInOrder
  <2>4. TokensInOrder'
    BY <1>4, <1>5, <1>6, <2>2, <2>3 DEF TokensKept, TokensInOrder
  <2>5. Held = token /\ Held' = f.token
    BY <1>4, <2>2 DEF Held
  <2>6. RegistrationsRemembered'
    <3> SUFFICES ASSUME NEW s \in Servers, NEW tok \in devices[s]
                 PROVE  tok <= f.token \/ tok \in lost
      BY <1>4, <2>5 DEF RegistrationsRemembered
    <3>1. tok \in Int /\ token \in Int /\ f.token \in Int
      BY <1>3 DEF TypeOK, Finisher, Token, NoToken
    <3>2. tok <= token \/ tok \in lost \/ tok = f.token
      BY <1>5, <2>5 DEF TokensKept, RegistrationsRemembered
    <3>3. QED
      BY <2>3, <3>1, <3>2
  <2>7. QED
    BY <2>4, <2>6 DEF TokensKept
<1>10. QED
  BY <1>8, <1>9

(* Every step keeps the tokens where they have to be. *)
LEMMA TokensNext ==
    ASSUME TypeOK, OneJob, TokensKept, [Next]_vars PROVE TokensKept'
<1>1. CASE StartWorker
  <2>1. worker.stage # "Answered" /\ worker'.stage # "Answered"
    BY <1>1 DEF StartWorker, Over, OneJob
  <2>2. InFlight' = InFlight /\ Held' = Held /\ main' = "Loop" /\ main = "Join"
    BY <1>1, <2>1 DEF StartWorker, InFlight, Held, memory
  <2>3. QED
    BY <1>1, <2>2, QuietTokens DEF StartWorker, TokensKept, TokensInOrder, memory
<1>2. CASE RunFinisher
  BY <1>2, FinisherTokens
<1>3. CASE Destroyed \/ Crash
  BY <1>3, GoneTokens DEF Destroyed, Crash
<1>4. CASE RegisterFails
  BY <1>4, PostTokens DEF RegisterFails, Finisher, Working
<1>5. CASE Register
  BY <1>5, RegisterTokens
<1>6. CASE RegisterAnswer
  <2>1. worker.stage = "Answered" /\ Working
    BY <1>6 DEF RegisterAnswer, Working
  <2>2. worker.token \in Token \cup {NoToken}
    BY DEF TypeOK, Thread
  <2>3. CASE Post([kind |-> "Register", ok |-> TRUE, token |-> worker.token]) /\ lost' = lost
    BY <2>1, <2>2, <2>3, PostTokens DEF Finisher
  <2>4. CASE /\ Post([kind |-> "Register", ok |-> FALSE, token |-> NoToken])
             /\ lost' = lost \cup {worker.token}
    BY <2>1, <2>4, PostTokens DEF Finisher
  <2>5. QED
    BY <1>6, <2>3, <2>4 DEF RegisterAnswer
<1>7. CASE SyncEnds
  <2>1. PICK ok \in BOOLEAN : Post([kind |-> "Sync", ok |-> ok, token |-> NoToken])
    BY <1>7 DEF SyncEnds
  <2>2. QED
    BY <1>7, <2>1, PostTokens DEF SyncEnds, Finisher, Working
<1>8. CASE WorkerReturns
  <2>1. worker.stage # "Answered" /\ worker'.stage # "Answered"
    BY <1>8 DEF WorkerReturns, TypeOK, Thread
  <2>2. InFlight' = InFlight /\ Held' = Held
    BY <1>8, <2>1 DEF WorkerReturns, InFlight, Held, memory
  <2>3. QED
    BY <1>8, <2>2, QuietTokens DEF WorkerReturns, TokensKept, TokensInOrder, memory
<1>9. CASE Launch
  BY <1>9, QuietTokens DEF Launch, InFlight, Held, TokensKept, TokensInOrder
<1>10. CASE RegisterDevice \/ StartSync
  <2>1. PICK kind \in {"Register", "Sync"} : Click(kind)
    BY <1>10 DEF RegisterDevice, StartSync
  <2>2. main = "Loop" /\ main' = "Join" /\ UNCHANGED <<worker, finishers, devices, lost, token>>
    BY <2>1 DEF Click, Begin, memory
  <2>3. token = settings.token /\ settings'.token = token
    BY <2>1, <2>2 DEF Click, Begin, SaveSettings, TokensKept, TokensInOrder
  <2>4. InFlight' = InFlight /\ Held' = Held
    BY <2>2 DEF InFlight, Held
  <2>5. QED
    BY <2>2, <2>3, <2>4, QuietTokens DEF TokensKept, TokensInOrder
<1>11. CASE Quit
  BY <1>11, QuietTokens DEF Quit, InFlight, Held, memory, TokensKept, TokensInOrder
<1>12. CASE \E url \in Urls : SetServerUrl(url)
  BY <1>12, QuietTokens DEF SetServerUrl, InFlight, Held, TokensKept, TokensInOrder
<1>13. CASE UNCHANGED vars
  BY <1>13, QuietTokens DEF vars, memory, InFlight, Held, TokensKept, TokensInOrder
<1>14. QED
  BY <1>1, <1>2, <1>3, <1>4, <1>5, <1>6, <1>7, <1>8, <1>9, <1>10, <1>11, <1>12,
     <1>13 DEF Next, MainStep, WorkerStep

-----------------------------------------------------------------------------
(* The invariant holds at the beginning. *)
LEMMA InvInit == Init => IInv
<1>1. Init => OneJob /\ AddressKept
  BY DEF Init, OneJob, Working, AddressKept, NoThread
<1>2. ASSUME Init PROVE TokensInOrder /\ RegistrationsRemembered
  <2>1. InFlight = {} /\ Issued = {} /\ settings.token = NoToken
    BY <1>2 DEF Init, InFlight, Issued, NoThread
  <2>2. Issued = 1 .. 0
    BY <2>1
  <2>3. \E n \in Nat : Issued = 1 .. n
    BY <2>2
  <2>4. QED
    BY <1>2, <2>1, <2>3 DEF Init, TokensInOrder, RegistrationsRemembered
<1>3. QED
  BY <1>1, <1>2, TypeInit DEF IInv

(* Every step keeps the invariant. *)
LEMMA InvNext == IInv /\ [Next]_vars => IInv'
  BY TypeNext, JobNext, TokensNext DEF IInv, TokensKept

(* The invariant holds in every state of every behaviour. *)
LEMMA Invariance == Spec => []IInv
  BY InvInit, InvNext, PTL DEF Spec

(* The variables keep their types, through crashes and restarts.            *)
THEOREM TypeCorrect == Spec => []TypeOK
<1>1. IInv => TypeOK
  BY DEF IInv
<1>2. QED
  BY <1>1, Invariance, PTL

(* The flag that locks the window is set exactly while a click is being     *)
(* worked on, so that no click waits for a thread that talks to a server.   *)
THEOREM FlagIsTrue == Spec => []FlagCoversWork
<1>1. IInv => FlagCoversWork
  BY DEF IInv, OneJob, FlagCoversWork, Working
<1>2. QED
  BY <1>1, Invariance, PTL

(* No registration that a server has stored is forgotten, unless its answer *)
(* got lost or the program ended before its finisher ran.                   *)
THEOREM TokensRemembered == Spec => []RegistrationsRemembered
<1>1. IInv => RegistrationsRemembered
  BY DEF IInv
<1>2. QED
  BY <1>1, Invariance, PTL

(* A worker registers with the server whose address was shown at the click. *)
THEOREM RegistersAtClick == Spec => RegistersWhereClicked
<1>1. ASSUME IInv, [Next]_vars, NEW s \in Servers, devices'[s] # devices[s]
      PROVE  s = worker.base
  <2>1. CASE Register
    BY <1>1, <2>1 DEF Register, IInv, AddressKept, TypeOK
  <2>2. CASE ~Register
    <3>1. devices' = devices
      BY <1>1, <2>2
      DEF Next, MainStep, WorkerStep, vars, StartWorker, RunFinisher, Destroyed, Gone,
          RegisterFails, RegisterAnswer, SyncEnds, Post, WorkerReturns, Launch,
          RegisterDevice, StartSync, Click, Begin, Quit, Crash, SetServerUrl
    <3>2. QED
      BY <1>1, <3>1
  <2>3. QED
    BY <2>1, <2>2
<1>2. IInv /\ [Next]_vars => [\A s \in Servers : devices'[s] # devices[s] => s = worker.base]_vars
  BY <1>1
<1>3. QED
  BY <1>2, Invariance, PTL DEF Spec, RegistersWhereClicked

=============================================================================
