------------------------------- MODULE AiBridge -------------------------------
(***************************************************************************)
(* The AI bridge (src/src/ai/bridge.c): four calls that hand a request to  *)
(* the provider a configuration names.  The default provider answers by    *)
(* itself (mock), from a cache, or by asking a model over the network; the *)
(* streaming calls pass each chunk of the answer on as it arrives.         *)
(*                                                                         *)
(* The registries of providers and cache drivers are made once and guarded *)
(* by a lock, but what a lookup returns is used after the lock is released.*)
(* Providers other than the default one, caches, the transfer and the      *)
(* model are external.  An answer is a sequence of chunks.                 *)
(***************************************************************************)
EXTENDS Integers, Sequences

CONSTANTS
  Threads,
  Configs,          \* the configurations callers may pass
  Providers,        \* names under which providers are registered
  DefaultName,      \* "default"
  NoEntry,          \* no provider, driver or cache
  OwnCache,         \* the cache the configuration itself brings
  Length,           \* of an answer, in chunks
  MaxCalls,         \* bound: calls of the bridge
  MaxRegistrations, \* bound: registrations
  MaxFaults         \* bound: failed allocations, lost chunks, broken transfers

\* access: "none" without an API key, "partial" with a key but no model or
\* address.  cache: the caller's own, a registered driver, or none.
Config ==
  [mock : BOOLEAN, access : {"none", "partial", "full"},
   cache : {"none", "own", "driver"}, provider : Providers \cup {DefaultName}]

\* cdsl_ai_config_default
DefaultConfig == [mock |-> TRUE, access |-> "none", cache |-> "none", provider |-> DefaultName]

ASSUME BridgeAssumption ==
  /\ Configs \subseteq Config
  /\ DefaultName \notin Providers
  /\ NoEntry \notin Nat /\ OwnCache \notin Nat /\ NoEntry # OwnCache
  /\ Length \in Nat \ {0}
  /\ MaxCalls \in Nat /\ MaxRegistrations \in Nat /\ MaxFaults \in Nat

Streams == {"translate_stream", "review_stream"}
Calls == Streams \cup {"translate", "review"}
Caches == {"own", "driver"}
Answer == [i \in 1..Length |-> i]

\* Results that are no part of an answer.
Null == <<-1>>
Generated == <<-2>>
Foreign == <<-3>>
Approval == <<-4>>
Refusal == <<-5>>

VARIABLES
  curl,       \* built with libcurl; otherwise a curl process is started
  approves,   \* what the model says of the rule it reviews
  ready,      \* the registries are initialised
  providers,  \* g_providers: a partial function to entries
  driver,     \* g_cache_drivers: the entry of the one driver name
  entries,    \* the entries that are allocated; 0 is g_default_provider
  made,       \* entries made so far
  foreign,    \* the providers among them that the application registered
  pc,         \* what each thread does next
  call,       \* the function it has called
  config,
  provider,   \* what get_provider returned
  cache,      \* the cache get_cache_driver returned
  received,   \* how many chunks of the answer have come
  text,       \* the accumulated text
  short,      \* its buffer is smaller than its recorded capacity
  heard,      \* history: what the callback was given
  result,     \* what the call returned
  asked,      \* history: the model's answer reached the call, or a cache's did
  saved,      \* saved[c][f]: what cache c holds for the prompts of f
  mangled,    \* history: functions of which a transfer was cut or lost a chunk
  calls, registrations, faults

buildVars == <<curl, approves>>
registryVars == <<ready, providers, driver, entries, made, foreign>>
callVars == <<call, config>>
textVars == <<received, text, short, heard>>
vars == <<buildVars, registryVars, pc, callVars, provider, cache, textVars, result, asked,
          saved, mangled, calls, registrations, faults>>

Init ==
  /\ curl \in BOOLEAN
  /\ approves \in BOOLEAN
  /\ ready = FALSE
  /\ providers = [n \in {} |-> NoEntry]
  /\ driver = NoEntry
  /\ entries = {0}
  /\ made = 0
  /\ foreign = {}
  /\ pc = [t \in Threads |-> "idle"]
  /\ call = [t \in Threads |-> "translate"]
  /\ config = [t \in Threads |-> DefaultConfig]
  /\ provider = [t \in Threads |-> NoEntry]
  /\ cache = [t \in Threads |-> NoEntry]
  /\ received = [t \in Threads |-> 0]
  /\ text = [t \in Threads |-> <<>>]
  /\ short = [t \in Threads |-> FALSE]
  /\ heard = [t \in Threads |-> <<>>]
  /\ result = [t \in Threads |-> Null]
  /\ asked = [t \in Threads |-> FALSE]
  /\ saved = [c \in Caches |-> [f \in Calls |-> Null]]
  /\ mangled = {}
  /\ calls = 0 /\ registrations = 0 /\ faults = 0

Goto(t, label) == pc' = [pc EXCEPT ![t] = label]
Fault == faults < MaxFaults /\ faults' = faults + 1
Streaming(t) == call[t] \in Streams
Overrun == \E t \in Threads : pc[t] = "undefined"

-----------------------------------------------------------------------------
(***************************************************************************)
(* The registries.                                                         *)
(***************************************************************************)
\* The function n |-> e added to f.
With(f, n, e) == [m \in DOMAIN f \cup {n} |-> IF m = n THEN e ELSE f[m]]

\* CDSL_ONCE_RUN: the first thread to come initialises, the others wait.
InitRegistries ==
  /\ ~ready /\ ~Overrun
  /\ registrations < MaxRegistrations \/ \E t \in Threads : pc[t] = "provider"
  /\ ready' = TRUE
  /\ \/ /\ made' = made + 1
        /\ entries' = entries \cup {made + 1}
        /\ providers' = With(providers, DefaultName, made + 1)
        /\ UNCHANGED faults
     \/ Fault /\ UNCHANGED <<made, entries, providers>>
  /\ UNCHANGED <<buildVars, driver, foreign, pc, callVars, provider, cache, textVars, result, asked,
                 saved, mangled, calls, registrations>>

Registering ==
  /\ ready /\ ~Overrun
  /\ registrations < MaxRegistrations
  /\ registrations' = registrations + 1
  /\ UNCHANGED <<buildVars, ready, pc, callVars, provider, cache, textVars, result, asked,
                 saved, mangled, calls>>

\* Mutant: the entry that is replaced is freed.
RegisterProviderFreeing(n) ==
  /\ Registering
  /\ made' = made + 1
  /\ entries' = (entries \cup {made + 1}) \ {providers[m] : m \in DOMAIN providers \cap {n}}
  /\ providers' = With(providers, n, made + 1)
  /\ foreign' = foreign \cup {made + 1}
  /\ UNCHANGED <<driver, faults>>

\* The entry that is replaced is left allocated: a reader may still use it.
RegisterProvider(n) ==
  /\ Registering
  /\ \/ /\ made' = made + 1
        /\ entries' = entries \cup {made + 1}
        /\ providers' = With(providers, n, made + 1)
        /\ foreign' = foreign \cup {made + 1}
        /\ UNCHANGED faults
     \/ Fault /\ UNCHANGED <<made, entries, providers, foreign>>
  /\ UNCHANGED driver

RegisterDriver ==
  /\ Registering
  /\ \/ /\ made' = made + 1
        /\ entries' = entries \cup {made + 1}
        /\ driver' = made + 1
        /\ UNCHANGED faults
     \/ Fault /\ UNCHANGED <<made, entries, driver>>
  /\ UNCHANGED <<providers, foreign>>

-----------------------------------------------------------------------------
(***************************************************************************)
(* A call comes in and finds its provider.                                 *)
(***************************************************************************)
Start(t, f, c) ==
  /\ pc[t] = "idle"
  /\ calls < MaxCalls
  /\ calls' = calls + 1
  /\ call' = [call EXCEPT ![t] = f]
  /\ config' = [config EXCEPT ![t] = c]
  /\ received' = [received EXCEPT ![t] = 0]
  /\ text' = [text EXCEPT ![t] = <<>>]
  /\ short' = [short EXCEPT ![t] = FALSE]
  /\ heard' = [heard EXCEPT ![t] = <<>>]
  /\ result' = [result EXCEPT ![t] = Null]
  /\ asked' = [asked EXCEPT ![t] = FALSE]
  /\ Goto(t, "provider")
  /\ UNCHANGED <<buildVars, registryVars, provider, cache, saved, mangled, registrations, faults>>

\* An unknown name gets the default provider.
GetProvider(t) ==
  /\ pc[t] = "provider" /\ ready
  /\ LET name == config[t].provider IN
     provider' = [provider EXCEPT ![t] = IF name \in DOMAIN providers THEN providers[name] ELSE 0]
  /\ Goto(t, "enter")
  /\ UNCHANGED <<buildVars, registryVars, callVars, cache, textVars, result, asked, saved,
                 mangled, calls, registrations, faults>>

\* The call ends; a stream that never went to the network hears all at once.
Return(t, r) ==
  /\ result' = [result EXCEPT ![t] = r]
  /\ Goto(t, "idle")
  /\ provider' = [provider EXCEPT ![t] = NoEntry]
  /\ cache' = [cache EXCEPT ![t] = NoEntry]

HearAll(t, r) == heard' = [heard EXCEPT ![t] = IF Streaming(t) /\ r # Null THEN r ELSE @]

quietVars == <<buildVars, registryVars, callVars, mangled, calls, registrations>>

IsForeign(t) == provider[t] \in foreign

ProvideElsewhere(t) ==
  /\ pc[t] = "enter" /\ IsForeign(t)
  /\ Return(t, Foreign)
  /\ HearAll(t, Foreign)
  /\ UNCHANGED <<quietVars, received, text, short, asked, saved, faults>>

\* The mock's answers, which need no model: a rule, or a review of the blocks
\* the rule has.
ProvideMock(t) ==
  /\ pc[t] = "enter" /\ ~IsForeign(t) /\ config[t].mock
  /\ \E r \in IF call[t] = "review" THEN {Approval, Refusal} ELSE {Generated} :
       Return(t, r) /\ HearAll(t, r)
  /\ UNCHANGED <<quietVars, received, text, short, asked, saved, faults>>

\* Mutant: a review without an answer is approved.
FallbackApproving(t) ==
  CASE call[t] = "translate" -> Generated
    [] call[t] = "review" -> Approval
    [] OTHER -> Null

\* What a call makes of having no answer.
Fallback(t) ==
  CASE call[t] = "translate" -> Generated
    [] call[t] = "review" -> IF config[t].access = "none" THEN Approval ELSE Refusal
    [] OTHER -> Null

\* Without a key, an address and a model, call_llm_api returns at once.
ProvideNothing(t) ==
  /\ pc[t] = "enter" /\ ~IsForeign(t) /\ ~config[t].mock
  /\ config[t].access # "full"
  /\ Return(t, Fallback(t))
  /\ UNCHANGED <<quietVars, textVars, asked, saved, faults>>

-----------------------------------------------------------------------------
(***************************************************************************)
(* call_llm_api and call_llm_api_stream.                                   *)
(***************************************************************************)
GetCacheDriver(t) ==
  /\ pc[t] = "enter" /\ ~IsForeign(t) /\ ~config[t].mock
  /\ config[t].access = "full"
  /\ cache' = [cache EXCEPT ![t] =
       CASE config[t].cache = "own" -> OwnCache
         [] config[t].cache = "driver" -> driver
         [] OTHER -> NoEntry]
  /\ Goto(t, "lookup")
  /\ UNCHANGED <<quietVars, provider, textVars, result, asked, saved, faults>>

Has(t) == cache[t] # NoEntry
Where(t) == IF cache[t] = OwnCache THEN "own" ELSE "driver"

\* What the caller makes of the text of an answer.
Delivered(t, r) ==
  CASE r = Null -> Fallback(t)
    [] r # Null /\ call[t] = "review" -> IF r = Answer /\ approves THEN Approval ELSE Refusal
    [] OTHER -> r

Hit(t) ==
  /\ pc[t] = "lookup" /\ Has(t)
  /\ LET r == saved[Where(t)][call[t]] IN
     /\ r # Null
     /\ Return(t, Delivered(t, r))
     /\ HearAll(t, r)
  /\ asked' = [asked EXCEPT ![t] = TRUE]
  /\ UNCHANGED <<quietVars, received, text, short, saved, faults>>

Miss(t) ==
  /\ pc[t] = "lookup"
  /\ Has(t) => saved[Where(t)][call[t]] = Null
  /\ Goto(t, "transfer")
  /\ UNCHANGED <<quietVars, provider, cache, textVars, result, asked, saved, faults>>

\* The request cannot be put together or sent.
SendFails(t) ==
  /\ pc[t] = "transfer" /\ received[t] = 0
  /\ Fault
  /\ Return(t, Delivered(t, Null))
  /\ UNCHANGED <<quietVars, textVars, asked, saved>>

\* process_sse_data: the chunk is appended, and only then passed on.  Into a
\* short buffer it either fits, or the buffer grows past its recorded capacity.
ReceiveChunk(t) ==
  /\ pc[t] = "transfer" /\ received[t] < Length
  /\ \E s \in {short[t], FALSE} : short' = [short EXCEPT ![t] = s]
  /\ received' = [received EXCEPT ![t] = @ + 1]
  /\ text' = [text EXCEPT ![t] = Append(@, Answer[received[t] + 1])]
  /\ heard' = [heard EXCEPT ![t] = IF Streaming(t) THEN Append(@, Answer[received[t] + 1]) ELSE @]
  /\ UNCHANGED <<quietVars, pc, provider, cache, result, asked, saved, faults>>

\* Mutant: the callback hears the chunk that is not kept.
LoseChunkHeard(t) ==
  /\ pc[t] = "transfer" /\ Streaming(t) /\ received[t] < Length
  /\ Fault
  /\ received' = [received EXCEPT ![t] = @ + 1]
  /\ heard' = [heard EXCEPT ![t] = Append(@, Answer[received[t] + 1])]
  /\ mangled' = mangled \cup {call[t]}
  /\ UNCHANGED <<buildVars, registryVars, callVars, calls, registrations, pc, provider, cache,
                 text, short, result, asked, saved>>

\* The chunk finds no memory, its line is longer than the line buffer, or it
\* is the last one and curl's callback never sees the end of its line.  When
\* the buffer cannot grow, its capacity has been raised all the same.
LoseChunk(t) ==
  /\ pc[t] = "transfer" /\ Streaming(t) /\ received[t] < Length
  /\ Fault
  /\ \E s \in {short[t], TRUE} : short' = [short EXCEPT ![t] = s]
  /\ received' = [received EXCEPT ![t] = @ + 1]
  /\ mangled' = mangled \cup {call[t]}
  /\ UNCHANGED <<buildVars, registryVars, callVars, calls, registrations, pc, provider, cache,
                 text, heard, result, asked, saved>>

\* A chunk within the recorded capacity is copied past the end of the short
\* buffer: what any thread does from here on is undefined.
OverrunBuffer(t) ==
  /\ pc[t] = "transfer" /\ short[t] /\ received[t] < Length
  /\ pc' = [s \in Threads |-> "undefined"]
  /\ UNCHANGED <<quietVars, provider, cache, textVars, result, asked, saved, faults>>

\* Streams are entered in the cache they were looked up in, other calls in
\* the caller's own alone.
Kept(t, r) ==
  IF r # Null /\ (IF Streaming(t) THEN Has(t) ELSE cache[t] = OwnCache)
    THEN saved' = [saved EXCEPT ![Where(t)][call[t]] = r]
    ELSE UNCHANGED saved

EndTransfer(t) ==
  /\ pc[t] = "transfer" /\ received[t] = Length
  /\ Kept(t, text[t])
  /\ Return(t, Delivered(t, text[t]))
  /\ asked' = [asked EXCEPT ![t] = TRUE]
  /\ UNCHANGED <<quietVars, textVars, faults>>

\* Mutant: libcurl's result is not looked at.
RemnantAlways(t) == IF ~Streaming(t) THEN Null ELSE text[t]

\* What a cut transfer leaves.  libcurl reports it; of a process that ends
\* early a stream knows nothing, and elsewhere the text does not parse.
Remnant(t) == IF curl \/ ~Streaming(t) THEN Null ELSE text[t]

CutTransfer(t) ==
  /\ pc[t] = "transfer" /\ received[t] < Length
  /\ Fault
  /\ Kept(t, Remnant(t))
  /\ Return(t, Delivered(t, Remnant(t)))
  /\ asked' = [asked EXCEPT ![t] = Remnant(t) # Null]
  /\ mangled' = IF curl THEN mangled ELSE mangled \cup {call[t]}
  /\ UNCHANGED <<buildVars, registryVars, callVars, calls, registrations, textVars>>

\* The server answers with an error, which is a successful transfer: nothing
\* fails on its status.  A stream finds no chunk in it and takes that for the
\* whole text; elsewhere it is no answer.
AnswerError(t) ==
  /\ pc[t] = "transfer" /\ received[t] = 0
  /\ LET r == IF Streaming(t) THEN text[t] ELSE Null IN
     Kept(t, r) /\ Return(t, Delivered(t, r))
  /\ UNCHANGED <<quietVars, textVars, asked, faults>>

-----------------------------------------------------------------------------
Work(t) ==
  \/ GetProvider(t)
  \/ ProvideElsewhere(t) \/ ProvideMock(t) \/ ProvideNothing(t)
  \/ GetCacheDriver(t) \/ Hit(t) \/ Miss(t)
  \/ SendFails(t) \/ ReceiveChunk(t) \/ LoseChunk(t)
  \/ EndTransfer(t) \/ CutTransfer(t) \/ AnswerError(t)

Finished ==
  /\ \/ Overrun
     \/ /\ calls = MaxCalls /\ registrations = MaxRegistrations
        /\ \A t \in Threads : pc[t] = "idle"
  /\ UNCHANGED vars

Next ==
  \/ InitRegistries
  \/ \E n \in Providers \cup {DefaultName} : RegisterProvider(n)
  \/ RegisterDriver
  \/ \E t \in Threads : Work(t) \/ \E f \in Calls, c \in Configs : Start(t, f, c)
  \/ \E t \in Threads : OverrunBuffer(t)
  \/ Finished

Spec == Init /\ [][Next]_vars

-----------------------------------------------------------------------------
(***************************************************************************)
(* Properties.                                                             *)
(***************************************************************************)
Texts == Seq(1..Length) \cup {Null, Generated, Foreign, Approval, Refusal}

\* The type of every variable of the bridge.
TypeOK ==
  /\ curl \in BOOLEAN /\ approves \in BOOLEAN /\ ready \in BOOLEAN
  /\ DOMAIN providers \subseteq Providers \cup {DefaultName}
  /\ \A n \in DOMAIN providers : providers[n] \in 1..made
  /\ driver \in (1..made) \cup {NoEntry}
  /\ entries \subseteq 0..made
  /\ made \in Nat
  /\ foreign \subseteq 1..made
  /\ pc \in [Threads -> {"idle", "provider", "enter", "lookup", "transfer", "undefined"}]
  /\ call \in [Threads -> Calls]
  /\ config \in [Threads -> Config]
  /\ provider \in [Threads -> (0..made) \cup {NoEntry}]
  /\ cache \in [Threads -> {NoEntry, OwnCache} \cup (1..made)]
  /\ received \in [Threads -> 0..Length]
  /\ text \in [Threads -> Seq(1..Length)]
  /\ short \in [Threads -> BOOLEAN]
  /\ heard \in [Threads -> Seq(Int)]
  /\ result \in [Threads -> Texts]
  /\ asked \in [Threads -> BOOLEAN]
  /\ saved \in [Caches -> [Calls -> Seq(1..Length) \cup {Null}]]
  /\ mangled \subseteq Calls
  /\ calls \in Nat /\ registrations \in Nat /\ faults \in Nat

\* What get_provider and get_cache_driver have handed out stays allocated for
\* as long as the call uses it, however often the name is registered again.
EntriesInUseAreLive ==
  /\ \A t \in Threads : provider[t] \in entries \cup {NoEntry}
  /\ \A t \in Threads : cache[t] \in entries \cup {NoEntry, OwnCache}
  /\ \A n \in DOMAIN providers : providers[n] \in entries
  /\ driver \in entries \cup {NoEntry}

\* The text a stream returns is what its callback heard, chunk by chunk, also
\* when chunks were lost, the answer came from a cache or the transfer was cut.
StreamsReturnWhatWasHeard ==
  \A t \in Threads :
    pc[t] = "idle" /\ call[t] \in Streams /\ result[t] # Null => result[t] = heard[t]

\* A cache holds no part of an answer: a transfer that libcurl reports as failed
\* is never entered.  The exceptions are the streams': the empty text of a
\* server's error, transfers that lost a chunk, and cut transfers of the build
\* without libcurl.
WholeAnswersAreSaved ==
  \A c \in Caches, f \in Calls :
    \/ saved[c][f] \in {Null, Answer}
    \/ f \in Streams /\ (saved[c][f] = <<>> \/ f \in mangled)

\* A stream of the default provider returns the whole text of the model's
\* answer, or NULL on an error, as the header says.
StreamsReturnAllOrNull ==
  \A t \in Threads :
    pc[t] = "idle" /\ call[t] \in Streams =>
      result[t] \in {Null, Generated, Foreign, Approval, Refusal, Answer}

\* With an API key configured, the default provider approves a rule only when
\* an answer was there to approve it: a broken call never approves.
ReviewsFailClosed ==
  \A t \in Threads :
    pc[t] = "idle" /\ call[t] = "review" /\ result[t] = Approval
        /\ ~config[t].mock /\ config[t].access # "none" =>
      asked[t] /\ approves
=============================================================================
