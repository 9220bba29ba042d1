--------------------------- MODULE AiBridgeProofs ---------------------------
(***************************************************************************)
(* Proofs about AiBridge, for every set of threads, providers and          *)
(* configurations, every length of an answer and every number of faults.   *)
(*                                                                         *)
(* What a call has done so far (Underway) is what the three properties of  *)
(* its result need: a transfer is only made with full access, its callback *)
(* has heard the text, and the text is a beginning of the answer unless    *)
(* the call is a stream of which a chunk was lost.                         *)
(***************************************************************************)
EXTENDS AiBridge, SequenceTheorems, TLAPS

LEMMA NullIsNoText == Null \notin Seq(1..Length)
<1> SUFFICES ASSUME Null \in Seq(1..Length) PROVE FALSE
  OBVIOUS
<1>1. Null[1] = -1 /\ Len(Null) = 1
  BY DEF Null
<1>2. 1 \in 1..Len(Null)
  BY <1>1
<1>3. Null[1] \in 1..Length
  BY <1>2, ElementOfSeq
<1> QED
  BY <1>1, <1>3, BridgeAssumption

LEMMA ResultsDiffer ==
  /\ Approval # Null /\ Approval # Foreign /\ Approval # Refusal /\ Approval # Generated
<1>1. Approval[1] = -4 /\ Null[1] = -1 /\ Foreign[1] = -3 /\ Refusal[1] = -5 /\ Generated[1] = -2
  BY DEF Approval, Null, Foreign, Refusal, Generated
<1> QED
  BY <1>1

LEMMA AnswerIsText == Answer \in Seq(1..Length)
  BY BridgeAssumption DEF Answer

LEMMA AnswerIsThere == Answer # Null
  BY AnswerIsText, NullIsNoText

-----------------------------------------------------------------------------
\* What the calls may return: every value of these operators is a text.
LEMMA DeliveredType ==
  ASSUME NEW t \in Threads, NEW r \in Seq(1..Length) \cup {Null}
  PROVE  Delivered(t, r) \in Texts
  BY DEF Delivered, Fallback, Texts

LEMMA KeptType ==
  ASSUME TypeOK, NEW t \in Threads, NEW r \in Seq(1..Length) \cup {Null}, Kept(t, r)
  PROVE  saved' \in [Caches -> [Calls -> Seq(1..Length) \cup {Null}]]
<1>1. Where(t) \in Caches /\ call[t] \in Calls
  BY DEF Where, Caches, TypeOK
<1>2. CASE saved' = [saved EXCEPT ![Where(t)][call[t]] = r]
  BY <1>1, <1>2 DEF TypeOK
<1>3. CASE UNCHANGED saved
  BY <1>3 DEF TypeOK
<1> QED
  BY <1>2, <1>3 DEF Kept

LEMMA TypeInit == Init => TypeOK
<1> SUFFICES ASSUME Init PROVE TypeOK
  OBVIOUS
<1>1. << >> \in Seq(1..Length) /\ << >> \in Seq(Int) /\ Null \in Texts
  BY DEF Texts
<1>2. DefaultConfig \in Config
  BY DEF DefaultConfig, Config
<1>3. DOMAIN providers = {}
  BY DEF Init
<1>4. config \in [Threads -> Config] /\ heard \in [Threads -> Seq(Int)]
        /\ result \in [Threads -> Texts] /\ text \in [Threads -> Seq(1..Length)]
        /\ short \in [Threads -> BOOLEAN]
  BY <1>1, <1>2 DEF Init
<1>5. saved \in [Caches -> [Calls -> Seq(1..Length) \cup {Null}]]
  BY DEF Init
<1>6. /\ curl \in BOOLEAN /\ approves \in BOOLEAN /\ ready \in BOOLEAN
      /\ asked \in [Threads -> BOOLEAN]
      /\ DOMAIN providers \subseteq Providers \cup {DefaultName}
      /\ \A n \in DOMAIN providers : providers[n] \in 1..made
  BY <1>3 DEF Init
<1>7. /\ driver \in (1..made) \cup {NoEntry} /\ entries \subseteq 0..made /\ made \in Nat
      /\ foreign \subseteq 1..made /\ mangled \subseteq Calls
      /\ provider \in [Threads -> (0..made) \cup {NoEntry}]
      /\ cache \in [Threads -> {NoEntry, OwnCache} \cup (1..made)]
      /\ received \in [Threads -> 0..Length]
      /\ calls \in Nat /\ registrations \in Nat /\ faults \in Nat
  BY BridgeAssumption DEF Init
<1>8. /\ pc \in [Threads -> {"idle", "provider", "enter", "lookup", "transfer", "undefined"}]
      /\ call \in [Threads -> Calls]
  BY DEF Init, Calls
<1> QED
  BY <1>4, <1>5, <1>6, <1>7, <1>8 DEF TypeOK

LEMMA WithType ==
  ASSUME TypeOK, NEW n \in Providers \cup {DefaultName}, made' = made + 1,
         providers' = With(providers, n, made + 1)
  PROVE  /\ DOMAIN providers' \subseteq Providers \cup {DefaultName}
         /\ \A m \in DOMAIN providers' : providers'[m] \in 1..made'
  BY DEF With, TypeOK

LEMMA TypeStep == TypeOK /\ [Next]_vars => TypeOK'
<1> SUFFICES ASSUME TypeOK, [Next]_vars PROVE TypeOK'
  OBVIOUS
<1> USE BridgeAssumption DEF Goto, Fault, Return, HearAll, buildVars, registryVars,
        callVars, textVars, quietVars
<1>1. CASE InitRegistries
  <2>1. CASE /\ made' = made + 1 /\ entries' = entries \cup {made + 1}
             /\ providers' = With(providers, DefaultName, made + 1)
             /\ UNCHANGED faults
    <3>1. /\ DOMAIN providers' \subseteq Providers \cup {DefaultName}
          /\ \A m \in DOMAIN providers' : providers'[m] \in 1..made'
      BY <2>1, WithType
    <3>2. 1..made \subseteq 1..made' /\ 0..made \subseteq 0..made' /\ made' \in Nat /\ made + 1 \in 0..made'
      BY <2>1 DEF TypeOK
    <3> QED
      BY <1>1, <2>1, <3>1, <3>2 DEF InitRegistries, TypeOK
  <2>2. CASE Fault /\ UNCHANGED <<made, entries, providers>>
    BY <1>1, <2>2 DEF InitRegistries, TypeOK
  <2> QED
    BY <1>1, <2>1, <2>2 DEF InitRegistries
<1>2. ASSUME NEW n \in Providers \cup {DefaultName}, RegisterProvider(n) PROVE TypeOK'
  <2>1. CASE /\ made' = made + 1 /\ entries' = entries \cup {made + 1}
             /\ providers' = With(providers, n, made + 1)
             /\ foreign' = foreign \cup {made + 1}
             /\ UNCHANGED faults
    <3>1. /\ DOMAIN providers' \subseteq Providers \cup {DefaultName}
          /\ \A m \in DOMAIN providers' : providers'[m] \in 1..made'
      BY <2>1, WithType
    <3>2. 1..made \subseteq 1..made' /\ 0..made \subseteq 0..made' /\ made' \in Nat
            /\ made + 1 \in 1..made'
      BY <2>1 DEF TypeOK
    <3> QED
      BY <1>2, <2>1, <3>1, <3>2 DEF RegisterProvider, Registering, TypeOK
  <2>2. CASE Fault /\ UNCHANGED <<made, entries, providers, foreign>>
    BY <1>2, <2>2 DEF RegisterProvider, Registering, TypeOK
  <2> QED
    BY <1>2, <2>1, <2>2 DEF RegisterProvider
<1>3. CASE RegisterDriver
  <2>1. CASE made' = made + 1 /\ entries' = entries \cup {made + 1} /\ driver' = made + 1
             /\ UNCHANGED faults
    <3>1. 1..made \subseteq 1..made' /\ 0..made \subseteq 0..made' /\ made' \in Nat
            /\ made + 1 \in 1..made'
      BY <2>1 DEF TypeOK
    <3>2. driver' \in (1..made') \cup {NoEntry}
      BY <2>1, <3>1
    <3>3. entries' \subseteq 0..made'
      <4>1. made + 1 \in 0..made'
        BY <2>1 DEF TypeOK
      <4> QED
        BY <2>1, <3>1, <4>1 DEF TypeOK
    <3>4. /\ DOMAIN providers' \subseteq Providers \cup {DefaultName}
          /\ \A n \in DOMAIN providers' : providers'[n] \in 1..made'
          /\ foreign' \subseteq 1..made'
      BY <1>3, <3>1 DEF RegisterDriver, TypeOK
    <3>5. /\ provider' \in [Threads -> (0..made') \cup {NoEntry}]
          /\ cache' \in [Threads -> {NoEntry, OwnCache} \cup (1..made')]
      BY <1>3, <3>1 DEF RegisterDriver, Registering, TypeOK
    <3> QED
      BY <1>3, <2>1, <3>1, <3>2, <3>3, <3>4, <3>5 DEF RegisterDriver, Registering, TypeOK
  <2>2. CASE Fault /\ UNCHANGED <<made, entries, driver>>
    BY <1>3, <2>2 DEF RegisterDriver, Registering, TypeOK
  <2> QED
    BY <1>3, <2>1, <2>2 DEF RegisterDriver
<1>4. ASSUME NEW t \in Threads, NEW f \in Calls, NEW c \in Configs, Start(t, f, c)
      PROVE  TypeOK'
  <2>1. c \in Config /\ << >> \in Seq(1..Length) /\ << >> \in Seq(Int) /\ Null \in Texts
    BY DEF Texts
  <2> QED
    BY <1>4, <2>1 DEF Start, TypeOK
<1>5. ASSUME NEW t \in Threads, Work(t) PROVE TypeOK'
  <2>1. CASE GetProvider(t)
    BY <2>1 DEF GetProvider, TypeOK
  <2>2. CASE ProvideElsewhere(t)
    <3>1. Foreign \in Texts /\ Foreign \in Seq(Int)
      BY DEF Texts, Foreign
    <3> QED
      BY <2>2, <3>1 DEF ProvideElsewhere, TypeOK
  <2>3. CASE ProvideMock(t)
    <3>1. {Approval, Refusal, Generated} \subseteq Texts \cap Seq(Int)
      BY DEF Texts, Approval, Refusal, Generated
    <3> QED
      BY <2>3, <3>1 DEF ProvideMock, TypeOK
  <2>4. CASE ProvideNothing(t)
    <3>1. Fallback(t) \in Texts
      BY DEF Texts, Fallback
    <3> QED
      BY <2>4, <3>1 DEF ProvideNothing, TypeOK
  <2>5. CASE GetCacheDriver(t)
    BY <2>5 DEF GetCacheDriver, TypeOK
  <2>6. CASE Hit(t)
    <3>1. saved[Where(t)][call[t]] \in Seq(1..Length) \cup {Null}
      BY DEF Where, Caches, TypeOK
    <3>2. Delivered(t, saved[Where(t)][call[t]]) \in Texts
      BY <3>1, DeliveredType
    <3>3. Seq(1..Length) \subseteq Seq(Int) /\ Null \in Seq(Int)
      BY SeqMonotonic DEF Null
    <3> QED
      BY <2>6, <3>1, <3>2, <3>3 DEF Hit, TypeOK
  <2>7. CASE Miss(t)
    BY <2>7 DEF Miss, TypeOK
  <2>8. CASE SendFails(t)
    <3>1. Delivered(t, Null) \in Texts
      BY DeliveredType
    <3> QED
      BY <2>8, <3>1 DEF SendFails, TypeOK
  <2>9. CASE ReceiveChunk(t)
    <3>1. received[t] \in 0..Length /\ received[t] < Length
      BY <2>9 DEF ReceiveChunk, TypeOK
    <3>2. received[t] + 1 \in 1..Length /\ Answer[received[t] + 1] = received[t] + 1
      BY <3>1 DEF Answer
    <3>3. Append(text[t], Answer[received[t] + 1]) \in Seq(1..Length)
      BY <3>2 DEF TypeOK
    <3>4. Append(heard[t], Answer[received[t] + 1]) \in Seq(Int)
      BY <3>2 DEF TypeOK
    <3>5. short' \in [Threads -> BOOLEAN]
      BY <2>9 DEF ReceiveChunk, TypeOK
    <3>6. /\ received' \in [Threads -> 0..Length] /\ text' \in [Threads -> Seq(1..Length)]
          /\ heard' \in [Threads -> Seq(Int)]
      BY <2>9, <3>1, <3>2, <3>3, <3>4 DEF ReceiveChunk, TypeOK
    <3> QED
      BY <2>9, <3>5, <3>6 DEF ReceiveChunk, TypeOK
  <2>10. CASE LoseChunk(t)
    <3>1. short' \in [Threads -> BOOLEAN]
      BY <2>10 DEF LoseChunk, TypeOK
    <3>2. received' \in [Threads -> 0..Length] /\ mangled' \subseteq Calls
      BY <2>10 DEF LoseChunk, TypeOK
    <3> QED
      BY <2>10, <3>1, <3>2 DEF LoseChunk, TypeOK
  <2>11. CASE EndTransfer(t)
    <3>1. text[t] \in Seq(1..Length)
      BY DEF TypeOK
    <3>2. Delivered(t, text[t]) \in Texts
      BY <3>1, DeliveredType
    <3>3. saved' \in [Caches -> [Calls -> Seq(1..Length) \cup {Null}]]
      BY <2>11, <3>1, KeptType DEF EndTransfer
    <3> QED
      BY <2>11, <3>2, <3>3 DEF EndTransfer, TypeOK
  <2>12. CASE CutTransfer(t)
    <3>1. Remnant(t) \in Seq(1..Length) \cup {Null}
      BY DEF TypeOK, Remnant
    <3>2. Delivered(t, Remnant(t)) \in Texts
      BY <3>1, DeliveredType
    <3>3. saved' \in [Caches -> [Calls -> Seq(1..Length) \cup {Null}]]
      BY <2>12, <3>1, KeptType DEF CutTransfer
    <3> QED
      BY <2>12, <3>2, <3>3 DEF CutTransfer, TypeOK
  <2>13. CASE AnswerError(t)
    <3>1. PICK r \in Seq(1..Length) \cup {Null} : Kept(t, r) /\ Return(t, Delivered(t, r))
      BY <2>13 DEF AnswerError, TypeOK
    <3>2. Delivered(t, r) \in Texts
      BY DeliveredType
    <3>3. saved' \in [Caches -> [Calls -> Seq(1..Length) \cup {Null}]]
      BY <3>1, KeptType
    <3> QED
      BY <2>13, <3>1, <3>2, <3>3 DEF AnswerError, TypeOK
  <2> QED
    BY <1>5, <2>1, <2>2, <2>3, <2>4, <2>5, <2>6, <2>7, <2>8, <2>9, <2>10, <2>11, <2>12, <2>13
    DEF Work
<1>6. ASSUME NEW t \in Threads, OverrunBuffer(t) PROVE TypeOK'
  BY <1>6 DEF OverrunBuffer, TypeOK
<1>7. CASE UNCHANGED vars
  BY <1>7 DEF vars, TypeOK
<1> QED
  BY <1>1, <1>2, <1>3, <1>4, <1>5, <1>6, <1>7 DEF Next, Finished

\* Every reachable state of the bridge is well typed.
THEOREM TypeCorrect == Spec => []TypeOK
  BY TypeInit, TypeStep, PTL DEF Spec

-----------------------------------------------------------------------------
(***************************************************************************)
(* Which part of the state an action can touch.                            *)
(***************************************************************************)
\* No thread but t moves.
Aside(t) ==
  \A s \in Threads \ {t} :
    /\ pc'[s] = pc[s] /\ call'[s] = call[s] /\ config'[s] = config[s]
    /\ provider'[s] = provider[s] /\ cache'[s] = cache[s]
    /\ received'[s] = received[s] /\ text'[s] = text[s] /\ heard'[s] = heard[s]
    /\ result'[s] = result[s] /\ asked'[s] = asked[s]

LEMMA OthersStand ==
  ASSUME TypeOK, NEW t \in Threads,
         Work(t) \/ \E f \in Calls, c \in Configs : Start(t, f, c)
  PROVE  Aside(t) /\ UNCHANGED <<buildVars, registryVars>> /\ mangled \subseteq mangled'
<1> USE DEF Aside, TypeOK, Goto, Return, HearAll, quietVars, callVars, textVars, Fault
<1>1. CASE \E f \in Calls, c \in Configs : Start(t, f, c)
  BY <1>1 DEF Start
<1>2. CASE GetProvider(t)
  BY <1>2 DEF GetProvider
<1>3. CASE ProvideElsewhere(t)
  BY <1>3 DEF ProvideElsewhere
<1>4. CASE ProvideMock(t)
  BY <1>4 DEF ProvideMock
<1>5. CASE ProvideNothing(t)
  BY <1>5 DEF ProvideNothing
<1>6. CASE GetCacheDriver(t)
  BY <1>6 DEF GetCacheDriver
<1>7. CASE Hit(t)
  BY <1>7 DEF Hit
<1>8. CASE Miss(t)
  BY <1>8 DEF Miss
<1>9. CASE SendFails(t)
  BY <1>9 DEF SendFails
<1>10. CASE ReceiveChunk(t)
  BY <1>10 DEF ReceiveChunk
<1>11. CASE LoseChunk(t)
  BY <1>11 DEF LoseChunk
<1>12. CASE EndTransfer(t)
  BY <1>12 DEF EndTransfer
<1>13. CASE CutTransfer(t)
  BY <1>13 DEF CutTransfer
<1>14. CASE AnswerError(t)
  BY <1>14 DEF AnswerError
<1> QED
  BY <1>1, <1>2, <1>3, <1>4, <1>5, <1>6, <1>7, <1>8, <1>9, <1>10, <1>11, <1>12, <1>13, <1>14
  DEF Work

\* The registries change without any call taking part.
Registry ==
  InitRegistries \/ RegisterDriver \/ \E n \in Providers \cup {DefaultName} : RegisterProvider(n)

LEMMA CallsStand ==
  ASSUME Registry
  PROVE  UNCHANGED <<buildVars, pc, callVars, provider, cache, textVars, result, asked, saved,
                     mangled>>
  BY DEF Registry, InitRegistries, RegisterDriver, RegisterProvider, Registering

\* A buffer that is overrun stops every thread and touches nothing else.
Stopped ==
  /\ \A t \in Threads : pc'[t] = "undefined"
  /\ UNCHANGED <<buildVars, registryVars, callVars, provider, cache, textVars, result, asked,
                 saved, mangled>>

LEMMA Steps ==
  ASSUME [Next]_vars
  PROVE  \/ Registry \/ UNCHANGED vars \/ Stopped
         \/ \E t \in Threads : Work(t) \/ \E f \in Calls, c \in Configs : Start(t, f, c)
<1>1. ASSUME NEW t \in Threads, OverrunBuffer(t) PROVE Stopped
  BY <1>1 DEF OverrunBuffer, Stopped, quietVars
<1> QED
  BY <1>1 DEF Next, Finished, Registry

-----------------------------------------------------------------------------
\* What is handed out is allocated, the static default provider always.
LiveEntries == EntriesInUseAreLive /\ 0 \in entries

LEMMA LiveStep == TypeOK /\ LiveEntries /\ [Next]_vars => LiveEntries'
<1> SUFFICES ASSUME TypeOK, LiveEntries, [Next]_vars PROVE LiveEntries'
  OBVIOUS
<1> USE DEF LiveEntries, EntriesInUseAreLive
<1>1. CASE Registry
  <2>1. entries \subseteq entries'
    BY <1>1 DEF Registry, InitRegistries, RegisterDriver, RegisterProvider
  <2>2. driver' \in entries' \cup {NoEntry}
    BY <1>1, <2>1 DEF Registry, InitRegistries, RegisterDriver, RegisterProvider
  <2>3. \A n \in DOMAIN providers' : providers'[n] \in entries'
    BY <1>1, <2>1 DEF Registry, InitRegistries, RegisterDriver, RegisterProvider, With
  <2>4. UNCHANGED <<provider, cache>>
    BY <1>1, CallsStand
  <2> QED
    BY <2>1, <2>2, <2>3, <2>4
<1>2. ASSUME NEW t \in Threads, Work(t) \/ \E f \in Calls, c \in Configs : Start(t, f, c)
      PROVE  LiveEntries'
  <2>1. Aside(t) /\ UNCHANGED registryVars
    BY <1>2, OthersStand
  <2>2. provider'[t] \in entries \cup {NoEntry}
    BY <1>2 DEF Work, Start, GetProvider, ProvideElsewhere, ProvideMock, ProvideNothing,
      GetCacheDriver, Hit, Miss, SendFails, ReceiveChunk, LoseChunk, EndTransfer, CutTransfer,
      AnswerError, Return, quietVars, TypeOK
  <2>3. cache'[t] \in entries \cup {NoEntry, OwnCache}
    <3>1. CASE GetCacheDriver(t)
      BY <3>1, Zenon DEF GetCacheDriver, TypeOK
    <3> QED
      BY <1>2, <3>1 DEF Work, Start, GetProvider, ProvideElsewhere, ProvideMock, ProvideNothing,
        Hit, Miss, SendFails, ReceiveChunk, LoseChunk, EndTransfer, CutTransfer,
        AnswerError, Return, quietVars, TypeOK
  <2> QED
    BY <2>1, <2>2, <2>3 DEF Aside, registryVars
<1>3. CASE UNCHANGED vars
  BY <1>3 DEF vars, registryVars
<1>4. CASE Stopped
  BY <1>4 DEF Stopped, registryVars
<1> QED
  BY <1>1, <1>2, <1>3, <1>4, Steps

\* Whatever a lookup of a provider or of a cache driver returned stays
\* allocated while the call uses it outside the registry's lock.
THEOREM LiveEntriesInUse == Spec => []EntriesInUseAreLive
<1>1. Init => LiveEntries
  BY DEF Init, LiveEntries, EntriesInUseAreLive
<1> QED
  BY <1>1, LiveStep, TypeInit, TypeStep, PTL DEF Spec, LiveEntries

-----------------------------------------------------------------------------
(***************************************************************************)
(* What a call has done so far.                                            *)
(***************************************************************************)
LEMMA ReadAsText ==
  ASSUME NEW t \in Threads
  PROVE  /\ call[t] \in Streams => Fallback(t) = Null
         /\ call[t] = "review" =>
              Fallback(t) = IF config[t].access = "none" THEN Approval ELSE Refusal
         /\ Delivered(t, Null) = Fallback(t)
         /\ \A r : r # Null /\ call[t] \in Streams => Delivered(t, r) = r
         /\ \A r : r # Null /\ call[t] = "review" =>
              Delivered(t, r) = IF r = Answer /\ approves THEN Approval ELSE Refusal
<1> USE DEF Streams
<1>1. /\ call[t] \in Streams => Fallback(t) = Null
      /\ call[t] = "review" =>
           Fallback(t) = IF config[t].access = "none" THEN Approval ELSE Refusal
  BY Zenon DEF Fallback
<1>2. Delivered(t, Null) = Fallback(t)
  BY Zenon DEF Delivered
<1>3. \A r : r # Null /\ call[t] \in Streams => Delivered(t, r) = r
  BY Zenon DEF Delivered
<1>4. \A r : r # Null /\ call[t] = "review" =>
        Delivered(t, r) = IF r = Answer /\ approves THEN Approval ELSE Refusal
  BY Zenon DEF Delivered
<1> QED
  BY <1>1, <1>2, <1>3, <1>4

\* A transfer has full access, its callback has heard its text, and unless a
\* stream lost a chunk the text is the beginning of the answer.
UnderwayAt(t) ==
  /\ pc[t] \in {"lookup", "transfer"} => ~config[t].mock /\ config[t].access = "full"
  /\ pc[t] \in {"provider", "enter", "lookup"} =>
       text[t] = << >> /\ heard[t] = << >> /\ received[t] = 0
  /\ pc[t] = "transfer" =>
       /\ call[t] \in Streams => text[t] = heard[t]
       /\ call[t] \notin Streams \cap mangled => text[t] = [i \in 1..received[t] |-> i]
       /\ received[t] = 0 => text[t] = << >>

Underway == \A t \in Threads : UnderwayAt(t)

LEMMA UnderwayStep == TypeOK /\ Underway /\ [Next]_vars => Underway'
<1> SUFFICES ASSUME TypeOK, Underway, [Next]_vars PROVE Underway'
  OBVIOUS
<1>1. CASE Registry
  BY <1>1, CallsStand DEF Underway, UnderwayAt, callVars, textVars
<1>2. ASSUME NEW t \in Threads, Work(t) \/ \E f \in Calls, c \in Configs : Start(t, f, c)
      PROVE  Underway'
  <2>1. Aside(t) /\ mangled \subseteq mangled'
    BY <1>2, OthersStand
  <2>2. UnderwayAt(t)
    BY DEF Underway
  <2>3. ASSUME NEW s \in Threads \ {t} PROVE UnderwayAt(s)'
    <3>1. UnderwayAt(s)
      BY DEF Underway
    <3>2. /\ pc'[s] = pc[s] /\ call'[s] = call[s] /\ config'[s] = config[s]
          /\ received'[s] = received[s] /\ text'[s] = text[s] /\ heard'[s] = heard[s]
      BY <2>1 DEF Aside
    <3> QED
      BY <2>1, <3>1, <3>2 DEF UnderwayAt
  <2>4. SUFFICES UnderwayAt(t)'
    BY <2>3 DEF Underway
  <2> USE DEF UnderwayAt, TypeOK, Goto, quietVars, callVars, textVars
  <2>5. CASE \E f \in Calls, c \in Configs : Start(t, f, c)
    BY <2>5 DEF Start
  <2>6. CASE GetProvider(t)
    BY <2>2, <2>6 DEF GetProvider
  <2>7. CASE pc'[t] = "idle"
    BY <2>7
  <2>8. CASE GetCacheDriver(t)
    BY <2>2, <2>8 DEF GetCacheDriver
  <2>9. CASE Miss(t)
    <3>1. << >> = [i \in 1..0 |-> i]
      OBVIOUS
    <3> QED
      BY <2>2, <2>9, <3>1 DEF Miss
  <2>10. CASE ReceiveChunk(t)
    <3>1. received[t] \in 0..Length /\ received[t] < Length /\ Length \in Nat
      BY <2>10, BridgeAssumption DEF ReceiveChunk
    <3>2. Answer[received[t] + 1] = received[t] + 1
      BY <3>1 DEF Answer
    <3>3. Append([i \in 1..received[t] |-> i], received[t] + 1) = [i \in 1..received[t] + 1 |-> i]
      BY <3>1
    <3>4. /\ pc'[t] = "transfer" /\ pc[t] = "transfer" /\ received'[t] = received[t] + 1
          /\ call'[t] = call[t] /\ config'[t] = config[t] /\ mangled' = mangled
          /\ text'[t] = Append(text[t], received[t] + 1)
          /\ call[t] \in Streams => heard'[t] = Append(heard[t], received[t] + 1)
      BY <2>10, <3>2 DEF ReceiveChunk, Streaming
    <3> QED
      BY <2>2, <3>1, <3>3, <3>4
  <2>11. CASE LoseChunk(t)
    <3>1. /\ pc'[t] = "transfer" /\ pc[t] = "transfer" /\ received'[t] = received[t] + 1
          /\ call'[t] = call[t] /\ config'[t] = config[t] /\ call[t] \in Streams \cap mangled'
          /\ text'[t] = text[t] /\ heard'[t] = heard[t]
      BY <2>11 DEF LoseChunk, Streaming
    <3> QED
      BY <2>2, <3>1
  <2>12. ASSUME ProvideElsewhere(t) \/ ProvideMock(t) \/ ProvideNothing(t) \/ Hit(t)
                  \/ SendFails(t) \/ EndTransfer(t) \/ CutTransfer(t) \/ AnswerError(t)
         PROVE  pc'[t] = "idle"
    BY <2>12 DEF ProvideElsewhere, ProvideMock, ProvideNothing, Hit, SendFails, EndTransfer,
      CutTransfer, AnswerError, Return
  <2> QED
    BY <1>2, <2>5, <2>6, <2>7, <2>8, <2>9, <2>10, <2>11, <2>12 DEF Work
<1>3. CASE UNCHANGED vars
  BY <1>3 DEF vars, callVars, textVars, Underway, UnderwayAt
<1>4. CASE Stopped
  BY <1>4 DEF Stopped, Underway, UnderwayAt
<1> QED
  BY <1>1, <1>2, <1>3, <1>4, Steps

LEMMA UnderwayInit == Init => Underway
  BY DEF Init, Underway, UnderwayAt

-----------------------------------------------------------------------------
LEMMA HeardStep ==
  TypeOK /\ Underway /\ StreamsReturnWhatWasHeard /\ [Next]_vars => StreamsReturnWhatWasHeard'
<1> SUFFICES ASSUME TypeOK, Underway, StreamsReturnWhatWasHeard, [Next]_vars
             PROVE  StreamsReturnWhatWasHeard'
  OBVIOUS
<1>1. CASE Registry
  BY <1>1, CallsStand DEF StreamsReturnWhatWasHeard, callVars, textVars
<1>2. ASSUME NEW t \in Threads, Work(t) \/ \E f \in Calls, c \in Configs : Start(t, f, c)
      PROVE  StreamsReturnWhatWasHeard'
  <2> DEFINE Same == call'[t] \in Streams /\ result'[t] # Null => result'[t] = heard'[t]
  <2>1. Aside(t)
    BY <1>2, OthersStand
  <2>2. SUFFICES ASSUME pc'[t] = "idle" PROVE Same
    BY <2>1 DEF Aside, StreamsReturnWhatWasHeard
  <2> USE DEF TypeOK, Goto, Return, HearAll, Streaming, quietVars, callVars, textVars
  <2>3. CASE ProvideElsewhere(t)
    BY <2>3 DEF ProvideElsewhere
  <2>4. CASE ProvideMock(t)
    BY <2>4 DEF ProvideMock
  <2>5. CASE ProvideNothing(t)
    BY <2>5, ReadAsText DEF ProvideNothing
  <2>6. CASE Hit(t)
    <3>1. PICK r : /\ r = saved[Where(t)][call[t]] /\ r # Null
                   /\ Return(t, Delivered(t, r)) /\ HearAll(t, r)
      BY <2>6 DEF Hit
    <3>2. call'[t] = call[t]
      BY <2>6 DEF Hit
    <3>3. call[t] \in Streams => Delivered(t, r) = r
      BY <3>1, ReadAsText
    <3> QED
      BY <3>1, <3>2, <3>3
  <2>7. CASE SendFails(t)
    BY <2>7, ReadAsText DEF SendFails
  <2>8. CASE EndTransfer(t)
    <3>1. text[t] # Null
      BY NullIsNoText
    <3>2. call[t] \in Streams => text[t] = heard[t] /\ Delivered(t, text[t]) = text[t]
      BY <2>8, <3>1, ReadAsText DEF EndTransfer, Underway, UnderwayAt
    <3> QED
      BY <2>8, <3>2 DEF EndTransfer
  <2>9. CASE CutTransfer(t)
    <3>1. text[t] # Null
      BY NullIsNoText
    <3>2. call[t] \in Streams =>
            Delivered(t, Remnant(t)) = Null \/ Delivered(t, Remnant(t)) = heard[t]
      BY <2>9, <3>1, ReadAsText DEF CutTransfer, Remnant, Underway, UnderwayAt
    <3> QED
      BY <2>9, <3>2 DEF CutTransfer
  <2>10. CASE AnswerError(t)
    <3>1. text[t] # Null
      BY NullIsNoText
    <3>2. call[t] \in Streams => text[t] = heard[t] /\ Delivered(t, text[t]) = text[t]
      BY <2>10, <3>1, ReadAsText DEF AnswerError, Underway, UnderwayAt
    <3> QED
      BY <2>10, <3>2 DEF AnswerError
  <2>11. pc'[t] # "idle" \/ ProvideElsewhere(t) \/ ProvideMock(t) \/ ProvideNothing(t) \/ Hit(t)
           \/ SendFails(t) \/ EndTransfer(t) \/ CutTransfer(t) \/ AnswerError(t)
    BY <1>2 DEF Work, Start, GetProvider, GetCacheDriver, Miss, ReceiveChunk, LoseChunk
  <2> QED
    BY <2>2, <2>3, <2>4, <2>5, <2>6, <2>7, <2>8, <2>9, <2>10, <2>11
<1>3. CASE UNCHANGED vars
  BY <1>3 DEF vars, callVars, textVars, StreamsReturnWhatWasHeard
<1>4. CASE Stopped
  BY <1>4 DEF Stopped, StreamsReturnWhatWasHeard
<1> QED
  BY <1>1, <1>2, <1>3, <1>4, Steps

\* What a stream returns is what its callback heard, for answers and faults of
\* every kind.
THEOREM ReturnedIsHeard == Spec => []StreamsReturnWhatWasHeard
<1>1. Init => StreamsReturnWhatWasHeard
  BY DEF Init, StreamsReturnWhatWasHeard
<1> QED
  BY <1>1, HeardStep, UnderwayInit, UnderwayStep, TypeInit, TypeStep, PTL DEF Spec

-----------------------------------------------------------------------------
LEMMA SavedStep ==
  TypeOK /\ Underway /\ WholeAnswersAreSaved /\ [Next]_vars => WholeAnswersAreSaved'
<1> SUFFICES ASSUME TypeOK, Underway, WholeAnswersAreSaved, [Next]_vars
             PROVE  WholeAnswersAreSaved'
  OBVIOUS
<1>1. CASE Registry
  BY <1>1, CallsStand DEF WholeAnswersAreSaved
<1>2. ASSUME NEW t \in Threads, Work(t) \/ \E f \in Calls, c \in Configs : Start(t, f, c)
      PROVE  WholeAnswersAreSaved'
  <2>1. mangled \subseteq mangled'
    BY <1>2, OthersStand
  <2>2. CASE UNCHANGED saved
    BY <2>1, <2>2 DEF WholeAnswersAreSaved
  <2>3. ASSUME NEW r, Kept(t, r),
               \/ r \in {Null, Answer}
               \/ call[t] \in Streams /\ (r = << >> \/ call[t] \in mangled')
        PROVE  WholeAnswersAreSaved'
    <3>1. CASE saved' = [saved EXCEPT ![Where(t)][call[t]] = r]
      BY <2>1, <2>3, <3>1 DEF WholeAnswersAreSaved, TypeOK
    <3> QED
      BY <2>2, <2>3, <3>1 DEF Kept
  <2>4. CASE EndTransfer(t)
    <3>1. /\ text[t] = [i \in 1..received[t] |-> i] \/ call[t] \in Streams \cap mangled
          /\ received[t] = Length
      BY <2>4 DEF EndTransfer, Underway, UnderwayAt
    <3>2. text[t] = Answer \/ call[t] \in Streams \cap mangled
      BY <3>1 DEF Answer
    <3> QED
      BY <2>1, <2>3, <2>4, <3>2 DEF EndTransfer
  <2>5. CASE CutTransfer(t)
    <3>1. Remnant(t) = Null \/ call[t] \in Streams \cap mangled'
      BY <2>5 DEF CutTransfer, Remnant, Streaming
    <3> QED
      BY <2>3, <2>5, <3>1 DEF CutTransfer
  <2>6. CASE AnswerError(t)
    <3>1. call[t] \in Streams => text[t] = << >>
      BY <2>6 DEF AnswerError, Underway, UnderwayAt
    <3> QED
      BY <2>3, <2>6, <3>1 DEF AnswerError, Streaming
  <2>7. UNCHANGED saved \/ EndTransfer(t) \/ CutTransfer(t) \/ AnswerError(t)
    BY <1>2 DEF Work, Start, GetProvider, ProvideElsewhere, ProvideMock, ProvideNothing,
      GetCacheDriver, Hit, Miss, SendFails, ReceiveChunk, LoseChunk
  <2> QED
    BY <2>2, <2>4, <2>5, <2>6, <2>7
<1>3. CASE UNCHANGED vars
  BY <1>3 DEF vars, WholeAnswersAreSaved
<1>4. CASE Stopped
  BY <1>4 DEF Stopped, WholeAnswersAreSaved
<1> QED
  BY <1>1, <1>2, <1>3, <1>4, Steps

\* A cache never holds a part of an answer, save for streams: the empty text of
\* a server's error, and texts of which a transfer lost a chunk or was cut
\* unnoticed.
THEOREM CachesHoldAnswers == Spec => []WholeAnswersAreSaved
<1>1. Init => WholeAnswersAreSaved
  BY DEF Init, WholeAnswersAreSaved
<1> QED
  BY <1>1, SavedStep, UnderwayInit, UnderwayStep, TypeInit, TypeStep, PTL DEF Spec

-----------------------------------------------------------------------------
LEMMA ReviewStep ==
  TypeOK /\ Underway /\ ReviewsFailClosed /\ [Next]_vars => ReviewsFailClosed'
<1> SUFFICES ASSUME TypeOK, Underway, ReviewsFailClosed, [Next]_vars
             PROVE  ReviewsFailClosed'
  OBVIOUS
<1>1. CASE Registry
  BY <1>1, CallsStand DEF ReviewsFailClosed, buildVars, callVars
<1>2. ASSUME NEW t \in Threads, Work(t) \/ \E f \in Calls, c \in Configs : Start(t, f, c)
      PROVE  ReviewsFailClosed'
  <2>1. Aside(t) /\ UNCHANGED buildVars
    BY <1>2, OthersStand
  <2>2. SUFFICES ASSUME pc'[t] = "idle", call'[t] = "review", result'[t] = Approval,
                        ~config'[t].mock, config'[t].access # "none"
                 PROVE  asked'[t] /\ approves'
    BY <2>1 DEF Aside, ReviewsFailClosed, buildVars
  <2> USE ResultsDiffer DEF TypeOK, Goto, Return, quietVars, callVars, textVars, buildVars
  <2>3. CASE ProvideElsewhere(t)
    BY <2>2, <2>3 DEF ProvideElsewhere
  <2>4. CASE ProvideMock(t)
    BY <2>2, <2>4 DEF ProvideMock
  <2>5. CASE ProvideNothing(t)
    BY <2>2, <2>5, ReadAsText DEF ProvideNothing
  <2>6. CASE Hit(t)
    <3>1. PICK r : r # Null /\ Return(t, Delivered(t, r))
      BY <2>6 DEF Hit
    <3>2. call[t] = "review" /\ asked'[t]
      BY <2>2, <2>6 DEF Hit
    <3>3. Delivered(t, r) = IF r = Answer /\ approves THEN Approval ELSE Refusal
      BY <3>1, <3>2, ReadAsText
    <3> QED
      BY <2>1, <2>2, <3>1, <3>2, <3>3
  <2>7. CASE SendFails(t)
    BY <2>2, <2>7, ReadAsText DEF SendFails
  <2>8. CASE EndTransfer(t)
    <3>1. text[t] # Null /\ call[t] = "review" /\ asked'[t]
      BY <2>2, <2>8, NullIsNoText DEF EndTransfer
    <3>2. Delivered(t, text[t]) = IF text[t] = Answer /\ approves THEN Approval ELSE Refusal
      BY <3>1, ReadAsText
    <3> QED
      BY <2>1, <2>2, <2>8, <3>1, <3>2 DEF EndTransfer
  <2>9. CASE CutTransfer(t)
    <3>1. call[t] = "review" /\ config[t].access # "none"
      BY <2>2, <2>9 DEF CutTransfer
    <3>2. Remnant(t) = Null
      BY <3>1 DEF Remnant, Streaming, Streams
    <3>3. Delivered(t, Remnant(t)) = Refusal
      BY <3>1, <3>2, ReadAsText
    <3> QED
      BY <2>2, <2>9, <3>3 DEF CutTransfer
  <2>10. CASE AnswerError(t)
    <3>1. call[t] = "review" /\ config[t].access # "none"
      BY <2>2, <2>10 DEF AnswerError
    <3>2. Return(t, Delivered(t, Null))
      BY <2>10, <3>1 DEF AnswerError, Streaming, Streams
    <3>3. Delivered(t, Null) = Refusal
      BY <3>1, ReadAsText
    <3> QED
      BY <2>2, <3>2, <3>3
  <2>11. pc'[t] # "idle" \/ ProvideElsewhere(t) \/ ProvideMock(t) \/ ProvideNothing(t) \/ Hit(t)
           \/ SendFails(t) \/ EndTransfer(t) \/ CutTransfer(t) \/ AnswerError(t)
    BY <1>2 DEF Work, Start, GetProvider, GetCacheDriver, Miss, ReceiveChunk, LoseChunk
  <2> QED
    BY <2>2, <2>3, <2>4, <2>5, <2>6, <2>7, <2>8, <2>9, <2>10, <2>11
<1>3. CASE UNCHANGED vars
  BY <1>3 DEF vars, buildVars, callVars, ReviewsFailClosed
<1>4. CASE Stopped
  BY <1>4 DEF Stopped, ReviewsFailClosed
<1> QED
  BY <1>1, <1>2, <1>3, <1>4, Steps

\* With a key configured, no failure on the way to the model and back makes
\* the default provider approve a rule.
THEOREM NoApprovalByFailure == Spec => []ReviewsFailClosed
<1>1. Init => ReviewsFailClosed
  BY DEF Init, ReviewsFailClosed
<1> QED
  BY <1>1, ReviewStep, UnderwayInit, UnderwayStep, TypeInit, TypeStep, PTL DEF Spec
=============================================================================
