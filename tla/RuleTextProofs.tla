---------------------------- MODULE RuleTextProofs ----------------------------
(***************************************************************************)
(* Proofs about RuleText, for any threads, texts and numbers of failures.  *)
(*                                                                         *)
(* The heart is the ownership of stores, stated one store at a time        *)
(* (OneOwner), with what a parse under way holds (Parsing): the values of  *)
(* its declarations lie in the stores it has made itself.                  *)
(* Honest adds what a parse remembers of what went wrong, from which       *)
(* follow what it tells its caller and what it leaves behind.              *)
(***************************************************************************)
EXTENDS RuleText, SequenceTheorems, WellFoundedInduction, TLAPS

Busy == Reading \cup {"end"}

\* A parse under way.
Parsing ==
  \A t \in Threads :
    /\ pc[t] \in Busy => held[t] = NoRule
    /\ pc[t] \notin Busy \cup {"crashed"} => built[t] = {} /\ first[t] = NoRule /\ rule[t] = NoRule
    /\ pc[t] \notin {"clear", "crashed"} => unlinked[t] = <<>>
    /\ pc[t] \in Reading => pos[t] \in DOMAIN text[t]
    /\ StoreOf(first[t]) \subseteq built[t] /\ StoreOf(rule[t]) \subseteq built[t]

\* The template that EXTENDS is copying.
Copying ==
  \A t \in Threads :
    /\ pc[t] \notin {"copy", "crashed"} => found[t] = NoRule
    /\ pc[t] = "copy" => found[t] # NoRule

\* StoresHaveOneOwner, store by store.
OneOwner ==
  /\ \A s \in stores : s \in lost \cup StoresOf(registry) \/ \E t \in Threads : s \in Owned(t)
  /\ lost \subseteq stores /\ StoresOf(registry) \subseteq stores
  /\ \A t \in Threads : Owned(t) \subseteq stores
  /\ \A t, u \in Threads : t # u => Owned(t) \cap Owned(u) = {}
  /\ \A t \in Threads :
       /\ StoreOf(held[t]) \cap (built[t] \cup StoresOf(unlinked[t])) = {}
       /\ built[t] \cap StoresOf(unlinked[t]) = {}
       /\ Owned(t) \cap (StoresOf(registry) \cup lost) = {}
  /\ StoresOf(registry) \cap lost = {}
  /\ \A i, j \in DOMAIN registry : i # j => registry[i].store # registry[j].store

IInv == TypeOK /\ Parsing /\ Copying /\ OneOwner

-----------------------------------------------------------------------------
(***************************************************************************)
(* The operators of RuleText.                                              *)
(***************************************************************************)
LEMMA SmallestIndex ==
  ASSUME NEW T, T \subseteq Nat, T # {}
  PROVE  \E x \in T : \A y \in T : x <= y
<1>1. PICK x \in T : \A y \in T : <<y, x>> \notin OpToRel(<, Nat)
  BY WFMin, NatLessThanWellFounded, Zenon
<1>2. \A y \in T : ~(y < x)
  BY <1>1, Zenon DEF OpToRel
<1> QED
  BY <1>2

LEMMA NewestIsRegistered ==
  ASSUME registry \in Seq(Rules), NEW n, Registered(n) # {}
  PROVE  \E i \in DOMAIN registry : Newest(n) = registry[i] /\ registry[i].name = n
<1>1. Registered(n) \subseteq Nat
  BY DEF Registered
<1>2. \E i \in Registered(n) : \A j \in Registered(n) : i <= j
  BY <1>1, SmallestIndex
<1> QED
  BY <1>2 DEF Newest, Registered

LEMMA StoresOfNone == StoresOf(<<>>) = {}
  BY DEF StoresOf

LEMMA StoresOfLonger ==
  ASSUME NEW q \in Seq(Rules), NEW r \in Rules
  PROVE  /\ <<r>> \o q \in Seq(Rules)
         /\ StoresOf(<<r>> \o q) = {r.store} \cup StoresOf(q)
         /\ \A i \in DOMAIN (<<r>> \o q) :
              (<<r>> \o q)[i] = IF i = 1 THEN r ELSE q[i - 1]
<1>1. <<r>> \in Seq(Rules) /\ Len(<<r>>) = 1 /\ <<r>>[1] = r
  OBVIOUS
<1>2. /\ <<r>> \o q \in Seq(Rules) /\ Len(<<r>> \o q) = Len(q) + 1
      /\ \A i \in 1..(Len(q) + 1) : (<<r>> \o q)[i] = IF i = 1 THEN r ELSE q[i - 1]
  BY <1>1, ConcatProperties
<1>3. DOMAIN (<<r>> \o q) = 1..(Len(q) + 1) /\ DOMAIN q = 1..Len(q) /\ Len(q) \in Nat
  BY <1>2, LenProperties
<1>4. ASSUME NEW s \in StoresOf(<<r>> \o q) PROVE s \in {r.store} \cup StoresOf(q)
  <2>1. PICK i \in 1..(Len(q) + 1) : s = (<<r>> \o q)[i].store
    BY <1>3 DEF StoresOf
  <2>2. CASE i = 1
    BY <1>2, <2>1, <2>2
  <2>3. CASE i # 1
    <3>1. i - 1 \in DOMAIN q /\ s = q[i - 1].store
      BY <1>2, <1>3, <2>1, <2>3
    <3> QED
      BY <3>1 DEF StoresOf
  <2> QED
    BY <2>2, <2>3
<1>5. r.store \in StoresOf(<<r>> \o q)
  <2>1. 1 \in DOMAIN (<<r>> \o q) /\ (<<r>> \o q)[1] = r
    BY <1>2, <1>3
  <2> QED
    BY <2>1 DEF StoresOf
<1>6. ASSUME NEW s \in StoresOf(q) PROVE s \in StoresOf(<<r>> \o q)
  <2>1. PICK i \in 1..Len(q) : s = q[i].store
    BY <1>3 DEF StoresOf
  <2>2. i + 1 \in DOMAIN (<<r>> \o q) /\ (<<r>> \o q)[i + 1] = q[i]
    BY <1>2, <1>3
  <2> QED
    BY <2>1, <2>2 DEF StoresOf
<1> QED
  BY <1>2, <1>3, <1>4, <1>5, <1>6

LEMMA StoreOfOne ==
  /\ StoreOf(NoRule) = {}
  /\ \A r \in Rules : StoreOf(r) = {r.store} /\ r # NoRule
  BY RuleTextAssumption DEF StoreOf

-----------------------------------------------------------------------------
(***************************************************************************)
(* What the reductions have in common: they advance the parser, build the  *)
(* value of a declaration, and add at most two new stores, one of the      *)
(* text's and one that is lost.                                            *)
(***************************************************************************)
Grown(t) == \E mine, gone : Allocate(t, mine, gone)

LEMMA NothingGrows ==
  ASSUME TypeOK, NEW t \in Threads, UNCHANGED memVars
  PROVE  Allocate(t, {}, {})
  BY DEF Allocate, memVars, TypeOK

LEMMA GrownTypes ==
  ASSUME TypeOK, NEW t \in Threads, Grown(t)
  PROVE  /\ built' \in [Threads -> SUBSET Nat] /\ stores' \in SUBSET (1..born') /\ born' \in Nat
         /\ lost' \in SUBSET Nat
         /\ \A u \in Threads : built[u] \subseteq built'[u] /\ (u # t => built'[u] = built[u])
<1>1. PICK mine, gone : Allocate(t, mine, gone)
  BY DEF Grown
<1>2. born \in Nat /\ stores \subseteq 1..born
  BY DEF TypeOK
<1>3. born' \in Nat /\ born <= born' /\ mine \cup gone \subseteq 1..born'
  <2>1. CASE mine \cup gone = {}
    BY <1>1, <1>2, <2>1 DEF Allocate
  <2>2. CASE mine \cup gone # {}
    <3>1. born' = born + 2 /\ mine \subseteq {born + 1} /\ gone \subseteq {born + 2}
      BY <1>1, <2>2, Zenon DEF Allocate
    <3> QED
      BY <1>2, <3>1
  <2> QED
    BY <2>1, <2>2
<1>4. 1..born \subseteq 1..born' /\ 1..born' \subseteq Nat
  BY <1>2, <1>3
<1>5. stores' \subseteq 1..born'
  BY <1>1, <1>2, <1>3, <1>4 DEF Allocate
<1>6. lost' \subseteq Nat
  BY <1>1, <1>3, <1>4 DEF Allocate, TypeOK
<1>7. built' = [built EXCEPT ![t] = @ \cup mine] /\ mine \subseteq Nat
  BY <1>1, <1>3, <1>4 DEF Allocate
<1>8. built' \in [Threads -> SUBSET Nat]
  BY <1>7 DEF TypeOK
<1>9. \A u \in Threads : built[u] \subseteq built'[u] /\ (u # t => built'[u] = built[u])
  BY <1>7 DEF TypeOK
<1> QED
  BY <1>3, <1>5, <1>6, <1>8, <1>9

Reduced(t) ==
  /\ pc[t] \in Reading
  /\ pc' = [pc EXCEPT ![t] = IF pos[t] = Len(text[t]) THEN "end" ELSE "declare"]
  /\ pos' = [pos EXCEPT ![t] = @ + 1]
  /\ found' = [found EXCEPT ![t] = NoRule]
  /\ UNCHANGED <<text, wanted, listing, heap, held, unlinked, registry, parses>>
  /\ Grown(t)
  /\ \E v \in RuleOrNone :
       /\ StoreOf(v) \subseteq built'[t]
       /\ rule' = [rule EXCEPT ![t] = Latest(t, v)]
       /\ first' = [first EXCEPT ![t] = IF pos[t] = 1 THEN v ELSE @]
  /\ listed' \in [Threads -> BOOLEAN] /\ mishaps' \in [Threads -> SUBSET Mishaps]
  /\ faults' \in Nat

LEMMA RuleIsMade ==
  ASSUME TypeOK, Parsing, NEW t \in Threads, pc[t] \in Reading,
         NEW id \in 1..(born + 1), NEW gone, NEW whole \in BOOLEAN, NEW base \in Names \cup {NoName},
         InStore(t, id, gone)
  PROVE  /\ RuleOf(t, id, whole, base) \in Rules
         /\ StoreOf(RuleOf(t, id, whole, base)) \subseteq built'[t]
         /\ Grown(t)
<1>1. Declaration(t) \in Declarations /\ pos[t] \in Nat
  BY DEF Parsing, TypeOK, Declaration
<1>2. RuleOf(t, id, whole, base) \in Rules /\ RuleOf(t, id, whole, base).store = id
  BY <1>1 DEF RuleOf, Rules, Declarations, TypeOK
<1>3. Grown(t)
  BY DEF InStore, Grown
<1>4. id \in built'[t]
  <2>1. CASE heap[t]
    <3>1. built' = [built EXCEPT ![t] = @ \cup {id}]
      BY <2>1 DEF InStore, Allocate
    <3> QED
      BY <3>1 DEF TypeOK
  <2>2. CASE ~heap[t]
    BY <2>2, <1>3, GrownTypes DEF InStore
  <2> QED
    BY <2>1, <2>2
<1> QED
  BY <1>2, <1>3, <1>4, StoreOfOne

LEMMA MakeReduces ==
  ASSUME TypeOK, Parsing, NEW t \in Threads, pc[t] \in Reading,
         NEW whole \in BOOLEAN, NEW base \in Names \cup {NoName},
         NEW trouble \in SUBSET Mishaps, Make(t, whole, base, trouble)
  PROVE  Reduced(t)
<1>1. PICK id \in 1..(born + 1), gone \in Leavings(t) :
        /\ InStore(t, id, gone)
        /\ UNCHANGED listed
        /\ \/ /\ NoFault /\ gone = {}
              /\ Reduce(t, RuleOf(t, id, whole, base))
              /\ mishaps' = [mishaps EXCEPT ![t] = @ \cup trouble]
           \/ /\ Fault
              /\ Reduce(t, RuleOf(t, id, FALSE, base))
              /\ mishaps' = [mishaps EXCEPT ![t] = @ \cup trouble \cup {"fault"}]
  BY DEF Make
<1>2. mishaps' \in [Threads -> SUBSET Mishaps] /\ faults' \in Nat /\ listed' \in [Threads -> BOOLEAN]
  <2>1. mishaps[t] \cup trouble \in SUBSET Mishaps
          /\ mishaps[t] \cup trouble \cup {"fault"} \in SUBSET Mishaps
    BY DEF TypeOK, Mishaps
  <2>2. mishaps' \in [Threads -> SUBSET Mishaps]
    BY <1>1, <2>1 DEF TypeOK
  <2>3. faults' \in Nat
    <3>1. faults' = faults \/ faults' = faults + 1
      BY <1>1 DEF NoFault, Fault
    <3>2. faults \in Nat
      BY DEF TypeOK
    <3> QED
      BY <3>1, <3>2
  <2>4. listed' \in [Threads -> BOOLEAN]
    BY <1>1 DEF TypeOK
  <2> QED
    BY <2>2, <2>3, <2>4
<1>3. PICK w \in BOOLEAN : Reduce(t, RuleOf(t, id, w, base))
  BY <1>1
<1>4. /\ RuleOf(t, id, w, base) \in RuleOrNone
      /\ StoreOf(RuleOf(t, id, w, base)) \subseteq built'[t]
      /\ Grown(t)
  BY <1>1, RuleIsMade DEF RuleOrNone
<1> QED
  BY <1>2, <1>3, <1>4 DEF Reduced, Reduce, Goto

LEMMA NothingReduces ==
  ASSUME TypeOK, NEW t \in Threads, pc[t] \in Reading, MakeNothing(t)
  PROVE  Reduced(t)
<1>1. NoRule \in RuleOrNone /\ StoreOf(NoRule) \subseteq built'[t]
  BY StoreOfOne DEF RuleOrNone
<1>2. mishaps' \in [Threads -> SUBSET Mishaps] /\ faults' \in Nat /\ listed' \in [Threads -> BOOLEAN]
  BY DEF MakeNothing, Mishap, TypeOK, Mishaps, Fault
<1>3. Grown(t)
  BY DEF MakeNothing, Grown
<1> QED
  BY <1>1, <1>2, <1>3 DEF Reduced, Reduce, MakeNothing, Goto

Reductions(t) ==
  \/ DeclareRule(t) \/ DeclareStray(t) \/ Recover(t)
  \/ MissTemplate(t) \/ CopyTemplate(t)

LEMMA ReductionsReduce ==
  ASSUME TypeOK, Parsing, Copying, NEW t \in Threads, Reductions(t)
  PROVE  Reduced(t)
<1>1. NoRule \in RuleOrNone /\ StoreOf(NoRule) \subseteq built'[t]
  BY StoreOfOne DEF RuleOrNone
<1>2. CASE DeclareRule(t)
  <2>1. pc[t] \in Reading
    BY <1>2 DEF DeclareRule, At, Reading
  <2>2. CASE Make(t, TRUE, NoName, {})
    <3>1. TRUE \in BOOLEAN /\ NoName \in Names \cup {NoName} /\ {} \in SUBSET Mishaps
      OBVIOUS
    <3> QED
      BY <2>1, <2>2, <3>1, MakeReduces
  <2> QED
    BY <1>2, <2>1, <2>2, NothingReduces DEF DeclareRule
<1>3. CASE Recover(t)
  <2>1. pc[t] \in Reading
    BY <1>3 DEF Recover, Reading
  <2>2. CASE NoFault /\ Reduce(t, NoRule) /\ UNCHANGED <<noteVars, memVars>>
    <3>1. Grown(t)
      BY <2>2, NothingGrows DEF Grown
    <3>2. faults' \in Nat /\ mishaps' = mishaps /\ listed' = listed
      BY <2>2 DEF NoFault, noteVars, TypeOK
    <3>3. mishaps' \in [Threads -> SUBSET Mishaps] /\ listed' \in [Threads -> BOOLEAN]
      BY <3>2 DEF TypeOK
    <3> QED
      BY <1>1, <2>1, <2>2, <3>1, <3>2, <3>3 DEF Reduced, Reduce, Goto
  <2>3. CASE Make(t, FALSE, NoName, {})
    <3>1. FALSE \in BOOLEAN /\ NoName \in Names \cup {NoName} /\ {} \in SUBSET Mishaps
      OBVIOUS
    <3> QED
      BY <2>1, <2>3, <3>1, MakeReduces
  <2> QED
    BY <1>3, <2>1, <2>2, <2>3, NothingReduces DEF Recover
<1>5. CASE DeclareStray(t)
  <2>1. PICK id \in 1..(born + 1) : InStore(t, id, {}) /\ Reduce(t, RuleOf(t, id, TRUE, NoName))
    BY <1>5 DEF DeclareStray
  <2>2. pc[t] = "declare" /\ pc[t] \in Reading
    BY <1>5 DEF DeclareStray, At, Reading
  <2>3. /\ RuleOf(t, id, TRUE, NoName) \in RuleOrNone
        /\ StoreOf(RuleOf(t, id, TRUE, NoName)) \subseteq built'[t]
        /\ Grown(t)
    BY <2>1, <2>2, RuleIsMade DEF RuleOrNone
  <2>4. mishaps' \in [Threads -> SUBSET Mishaps] /\ faults' \in Nat /\ listed' \in [Threads -> BOOLEAN]
    BY <1>5 DEF DeclareStray, ListError, TypeOK, NoFault
  <2> QED
    BY <2>1, <2>2, <2>3, <2>4 DEF Reduced, Reduce, Goto
<1>6. CASE MissTemplate(t)
  <2>1. mishaps' \in [Threads -> SUBSET Mishaps] /\ faults' \in Nat /\ listed' \in [Threads -> BOOLEAN]
    BY <1>6 DEF MissTemplate, Mishap, TypeOK, Mishaps
  <2>2. Grown(t) /\ pc[t] \in Reading
    BY <1>6, NothingGrows DEF MissTemplate, Grown, At, Reading
  <2> QED
    BY <1>1, <1>6, <2>1, <2>2 DEF MissTemplate, Reduced, Reduce, Goto
<1>7. CASE CopyTemplate(t)
  <2>1. found[t] \in Rules /\ pc[t] = "copy"
    BY <1>7 DEF CopyTemplate, Copying, TypeOK, RuleOrNone
  <2>2. found[t].name \in Names \cup {NoName} /\ Readable(t) \subseteq BOOLEAN /\ pc[t] \in Reading
    BY <2>1 DEF Rules, Readable, Reading
  <2>3. ASSUME NEW whole \in Readable(t),
               Make(t, whole, found[t].name, IF whole THEN {} ELSE {"inherited"})
        PROVE  Reduced(t)
    <3>1. (IF whole THEN {} ELSE {"inherited"}) \in SUBSET Mishaps
      BY DEF Mishaps
    <3>2. whole \in BOOLEAN
      BY <2>2
    <3> QED
      BY <2>2, <2>3, <3>1, <3>2, MakeReduces
  <2> QED
    BY <1>7, <2>2, <2>3, NothingReduces DEF CopyTemplate
<1> QED
  BY <1>2, <1>3, <1>5, <1>6, <1>7 DEF Reductions

\* What else a thread may do.
LEMMA Moves ==
  ASSUME [Next]_vars
  PROVE  \/ UNCHANGED vars
         \/ \E t \in Threads :
              \/ \E s \in Texts, errors \in BOOLEAN : Refuse(t, s, errors) \/ Begin(t, s, errors)
              \/ Reductions(t) \/ SyntaxError(t) \/ Crash(t) \/ FindTemplate(t)
              \/ EndParse(t) \/ Own(t)
  BY DEF Next, Finished, Parse, Reductions, Extend

-----------------------------------------------------------------------------
(***************************************************************************)
(* Types.                                                                  *)
(***************************************************************************)
LEMMA TypeInit == Init => TypeOK
<1> SUFFICES ASSUME Init PROVE TypeOK
  OBVIOUS
<1>1. << >> \in Seq(Declarations) /\ << >> \in Seq(Rules)
  OBVIOUS
<1> QED
  BY <1>1 DEF Init, TypeOK, RuleOrNone

LEMMA TypeStep == TypeOK /\ Parsing /\ Copying /\ [Next]_vars => TypeOK'
<1> SUFFICES ASSUME TypeOK, Parsing, Copying, [Next]_vars PROVE TypeOK'
  OBVIOUS
<1> USE DEF Goto, NoFault, Fault, Reading, inputVars, valueVars, noteVars, memVars, ownerVars
<1>1. ASSUME NEW t \in Threads, NEW s \in Texts, NEW errors \in BOOLEAN, Refuse(t, s, errors)
      PROVE  TypeOK'
  <2>1. s \in Seq(Declarations) /\ NoRule \in RuleOrNone /\ {} \in SUBSET Mishaps
          /\ {"fault"} \in SUBSET Mishaps
    BY RuleTextAssumption DEF RuleOrNone, Mishaps
  <2>2. mishaps' \in [Threads -> SUBSET Mishaps]
    BY <1>1, <2>1 DEF Refuse, TypeOK
  <2>3. listed' \in [Threads -> BOOLEAN]
    BY <1>1 DEF Refuse, TypeOK
  <2>4. faults' \in Nat
    BY <1>1 DEF Refuse, TypeOK
  <2>5. /\ text' \in [Threads -> Seq(Declarations)] /\ pos' \in [Threads -> Nat \ {0}]
        /\ wanted' \in [Threads -> BOOLEAN] /\ first' \in [Threads -> RuleOrNone]
        /\ rule' \in [Threads -> RuleOrNone] /\ parses' \in Nat
    BY <1>1, <2>1 DEF Refuse, Started, TypeOK
  <2> QED
    BY <1>1, <2>2, <2>3, <2>4, <2>5 DEF Refuse, Started, TypeOK
<1>2. ASSUME NEW t \in Threads, NEW s \in Texts, NEW errors \in BOOLEAN, Begin(t, s, errors)
      PROVE  TypeOK'
  <2>1. s \in Seq(Declarations) /\ NoRule \in RuleOrNone /\ {} \in SUBSET Mishaps
          /\ {"fault"} \in SUBSET Mishaps
    BY RuleTextAssumption DEF RuleOrNone, Mishaps
  <2>2. mishaps' \in [Threads -> SUBSET Mishaps] /\ faults' \in Nat
    <3>1. \/ faults' = faults /\ mishaps' = [mishaps EXCEPT ![t] = {}]
          \/ faults' = faults + 1 /\ mishaps' = [mishaps EXCEPT ![t] = {"fault"}]
      BY <1>2 DEF Begin
    <3>2. mishaps \in [Threads -> SUBSET Mishaps] /\ faults \in Nat
      BY DEF TypeOK
    <3> QED
      BY <2>1, <3>1, <3>2
  <2>4. PICK failed : /\ listing' = [listing EXCEPT ![t] = errors /\ failed # "list"]
                      /\ heap' = [heap EXCEPT ![t] = failed = "arena"]
    BY <1>2 DEF Begin
  <2>5. listing' \in [Threads -> BOOLEAN] /\ heap' \in [Threads -> BOOLEAN]
    BY <2>4 DEF TypeOK
  <2>6. /\ text' \in [Threads -> Seq(Declarations)] /\ pos' \in [Threads -> Nat \ {0}]
        /\ wanted' \in [Threads -> BOOLEAN] /\ first' \in [Threads -> RuleOrNone]
        /\ rule' \in [Threads -> RuleOrNone] /\ parses' \in Nat
    BY <1>2, <2>1 DEF Begin, Started, TypeOK
  <2>3. /\ built' \in [Threads -> SUBSET Nat] /\ stores' \in SUBSET (1..born') /\ born' \in Nat
    <3>1. 1..born \subseteq 1..(born + 1) /\ born + 1 \in 1..(born + 1) /\ born + 1 \in Nat
      BY DEF TypeOK
    <3>2. CASE UNCHANGED <<built, stores, born>>
      BY <3>2 DEF TypeOK
    <3>3. CASE /\ born' = born + 1 /\ stores' = stores \cup {born + 1}
               /\ built' = [built EXCEPT ![t] = {born + 1}]
      BY <3>1, <3>3 DEF TypeOK
    <3> QED
      BY <1>2, <3>2, <3>3 DEF Begin
  <2> QED
    BY <1>2, <2>2, <2>3, <2>5, <2>6 DEF Begin, Started, TypeOK
<1>3. ASSUME NEW t \in Threads, Reductions(t) PROVE TypeOK'
  <2>1. Reduced(t)
    BY <1>3, ReductionsReduce
  <2>2. /\ built' \in [Threads -> SUBSET Nat] /\ stores' \in SUBSET (1..born') /\ born' \in Nat
        /\ lost' \in SUBSET Nat
    BY <2>1, GrownTypes DEF Reduced
  <2>3. PICK v \in RuleOrNone :
          /\ rule' = [rule EXCEPT ![t] = Latest(t, v)]
          /\ first' = [first EXCEPT ![t] = IF pos[t] = 1 THEN v ELSE @]
    BY <2>1 DEF Reduced
  <2>4. first' \in [Threads -> RuleOrNone] /\ rule' \in [Threads -> RuleOrNone]
          /\ found' \in [Threads -> RuleOrNone]
    <3>1. Latest(t, v) \in RuleOrNone
      BY DEF Latest, TypeOK
    <3> QED
      BY <2>1, <2>3, <3>1 DEF TypeOK, Reduced, RuleOrNone
  <2>5. pos' \in [Threads -> Nat \ {0}]
    BY <2>1 DEF Reduced, TypeOK
  <2>6. pc' \in [Threads -> Reading \cup {"idle", "end", "clear", "crashed"}]
    BY <2>1 DEF Reduced, Reading, TypeOK
  <2> QED
    BY <2>1, <2>2, <2>4, <2>5, <2>6 DEF Reduced, TypeOK
<1>4. ASSUME NEW t \in Threads, FindTemplate(t) PROVE TypeOK'
  <2>1. Newest(Declaration(t).base) \in RuleOrNone
    <3>1. PICK i \in DOMAIN registry : Newest(Declaration(t).base) = registry[i]
      BY <1>4, NewestIsRegistered DEF FindTemplate, TypeOK
    <3> QED
      BY <3>1 DEF TypeOK, RuleOrNone
  <2> QED
    BY <1>4, <2>1 DEF FindTemplate, TypeOK
<1>5. ASSUME NEW t \in Threads, EndParse(t) PROVE TypeOK'
  <2>1. Given(t) \in RuleOrNone /\ NoRule \in RuleOrNone
    BY DEF Given, TypeOK, RuleOrNone
  <2> QED
    BY <1>5, <2>1 DEF EndParse, TypeOK
<1>6. ASSUME NEW t \in Threads, Own(t) PROVE TypeOK'
  <2>1. NoRule \in RuleOrNone /\ << >> \in Seq(Rules)
    BY DEF RuleOrNone
  <2>2. CASE FreeRule(t)
    BY <2>1, <2>2 DEF FreeRule, TypeOK
  <2>3. CASE Register(t)
    <3>1. held[t] \in Rules
      BY <2>3 DEF Register, Holding, TypeOK, RuleOrNone
    <3>2. registry' \in Seq(Rules) /\ lost' \in SUBSET Nat /\ faults' \in Nat
      <4>1. StoreOf(held[t]) \subseteq Nat
        BY <3>1, StoreOfOne DEF Rules
      <4>2. <<held[t]>> \o registry \in Seq(Rules)
        BY <3>1, StoresOfLonger DEF TypeOK
      <4>3. \/ faults' = faults /\ registry' = <<held[t]>> \o registry /\ lost' = lost
            \/ faults' = faults + 1 /\ lost' = lost \cup StoreOf(held[t]) /\ registry' = registry
        BY <2>3 DEF Register
      <4>4. registry \in Seq(Rules) /\ lost \in SUBSET Nat /\ faults \in Nat
        BY DEF TypeOK
      <4>5. registry' \in Seq(Rules)
        BY <4>2, <4>3, <4>4, Zenon
      <4>6. lost' \in SUBSET Nat
        BY <4>1, <4>3, <4>4, Zenon
      <4>7. faults' = faults \/ faults' = faults + 1
        BY <4>3, Zenon
      <4> QED
        BY <4>4, <4>5, <4>6, <4>7
    <3> QED
      BY <2>1, <2>3, <3>2 DEF Register, TypeOK
  <2>4. CASE UnlinkTemplates(t)
    BY <2>1, <2>4 DEF UnlinkTemplates, TypeOK
  <2>5. CASE FreeTemplates(t)
    BY <2>1, <2>5 DEF FreeTemplates, TypeOK
  <2> QED
    BY <1>6, <2>2, <2>3, <2>4, <2>5 DEF Own
<1>7. CASE UNCHANGED vars
  BY <1>7 DEF vars, TypeOK
<1>8. ASSUME NEW t \in Threads, SyntaxError(t) PROVE TypeOK'
  <2>1. mishaps[t] \cup {"error"} \in SUBSET Mishaps /\ mishaps[t] \cup {"error", "fault"} \in SUBSET Mishaps
    BY DEF TypeOK, Mishaps
  <2>2. mishaps' \in [Threads -> SUBSET Mishaps] /\ faults' \in Nat
    <3>1. /\ \/ mishaps' = [mishaps EXCEPT ![t] = @ \cup {"error"}]
             \/ mishaps' = [mishaps EXCEPT ![t] = @ \cup {"error", "fault"}]
          /\ faults' = faults \/ faults' = faults + 1
      BY <1>8 DEF SyntaxError, Mishap
    <3>2. mishaps \in [Threads -> SUBSET Mishaps] /\ faults \in Nat
      BY DEF TypeOK
    <3> QED
      BY <2>1, <3>1, <3>2
  <2>3. listed' \in [Threads -> BOOLEAN]
    BY <1>8, Zenon DEF SyntaxError, ListError, TypeOK
  <2>4. Grown(t)
    BY <1>8 DEF SyntaxError, Grown
  <2>5. /\ built' \in [Threads -> SUBSET Nat] /\ stores' \in SUBSET (1..born') /\ born' \in Nat
        /\ lost' \in SUBSET Nat
    BY <2>4, GrownTypes
  <2> QED
    BY <1>8, <2>2, <2>3, <2>5 DEF SyntaxError, TypeOK
<1>9. ASSUME NEW t \in Threads, Crash(t) PROVE TypeOK'
  BY <1>9 DEF Crash, TypeOK
<1> QED
  BY <1>1, <1>2, <1>3, <1>4, <1>5, <1>6, <1>7, <1>8, <1>9, Moves

-----------------------------------------------------------------------------
(***************************************************************************)
(* A parse under way, and the template it copies.                          *)
(***************************************************************************)
LEMMA ParsingStep == TypeOK /\ Parsing /\ Copying /\ [Next]_vars => Parsing'
<1> SUFFICES ASSUME TypeOK, Parsing, Copying, [Next]_vars PROVE Parsing'
  OBVIOUS
<1> USE DEF Goto, Busy, Reading, inputVars, valueVars, noteVars, memVars, ownerVars
<1>1. ASSUME NEW t \in Threads, NEW s \in Texts, NEW errors \in BOOLEAN, Refuse(t, s, errors)
      PROVE  Parsing'
  BY <1>1, StoreOfOne DEF Refuse, Started, TypeOK, Parsing
<1>2. ASSUME NEW t \in Threads, NEW s \in Texts, NEW errors \in BOOLEAN, Begin(t, s, errors)
      PROVE  Parsing'
  <2>1. 1 \in DOMAIN s
    BY RuleTextAssumption, EmptySeq, LenProperties
  <2>2. ASSUME NEW u \in Threads \ {t} PROVE built'[u] = built[u]
    BY <1>2 DEF Begin, TypeOK
  <2> QED
    BY <1>2, <2>1, <2>2, StoreOfOne DEF Begin, Started, TypeOK, Parsing
<1>3. ASSUME NEW t \in Threads, Reductions(t) PROVE Parsing'
  <2>1. Reduced(t)
    BY <1>3, ReductionsReduce
  <2>2. \A u \in Threads : built[u] \subseteq built'[u] /\ (u # t => built'[u] = built[u])
    BY <2>1, GrownTypes DEF Reduced
  <2>3. PICK v \in RuleOrNone :
          /\ StoreOf(v) \subseteq built'[t]
          /\ rule' = [rule EXCEPT ![t] = Latest(t, v)]
          /\ first' = [first EXCEPT ![t] = IF pos[t] = 1 THEN v ELSE @]
    BY <2>1 DEF Reduced
  <2>4. StoreOf(rule'[t]) \subseteq built'[t] /\ StoreOf(first'[t]) \subseteq built'[t]
    <3>1. StoreOf(first[t]) \subseteq built'[t]
      BY <2>2 DEF Parsing
    <3>2. rule'[t] = Latest(t, v) /\ first'[t] \in {v, first[t]}
      BY <2>3 DEF TypeOK
    <3>3. rule'[t] \in {v, first[t]}
      BY <3>2 DEF Latest
    <3> QED
      BY <2>3, <3>1, <3>2, <3>3
  <2>5. pc'[t] = "declare" => pos'[t] \in DOMAIN text'[t]
    <3>1. pos[t] \in 1..Len(text[t]) /\ DOMAIN text[t] = 1..Len(text[t]) /\ Len(text[t]) \in Nat
      BY <2>1, LenProperties DEF Reduced, Parsing, TypeOK
    <3>2. pc'[t] = "declare" => pos[t] # Len(text[t])
      BY <2>1 DEF Reduced, TypeOK
    <3>3. pos'[t] = pos[t] + 1 /\ text' = text
      BY <2>1 DEF Reduced, TypeOK
    <3> QED
      BY <3>1, <3>2, <3>3
  <2>6. pc'[t] \in {"declare", "end"} /\ held'[t] = NoRule /\ unlinked'[t] = <<>>
    BY <2>1 DEF Reduced, Parsing, TypeOK
  <2>7. ASSUME NEW u \in Threads \ {t}
        PROVE  /\ pc'[u] = pc[u] /\ pos'[u] = pos[u] /\ text'[u] = text[u] /\ held'[u] = held[u]
               /\ unlinked'[u] = unlinked[u] /\ first'[u] = first[u] /\ rule'[u] = rule[u]
    BY <2>1, <2>3 DEF Reduced, TypeOK
  <2> QED
    BY <2>2, <2>4, <2>5, <2>6, <2>7 DEF Parsing
<1>4. ASSUME NEW t \in Threads, FindTemplate(t) PROVE Parsing'
  BY <1>4 DEF FindTemplate, At, TypeOK, Parsing
<1>5. ASSUME NEW t \in Threads, EndParse(t) PROVE Parsing'
  BY <1>5, StoreOfOne DEF EndParse, TypeOK, Parsing
<1>6. ASSUME NEW t \in Threads, Own(t) PROVE Parsing'
  <2>1. CASE FreeRule(t)
    BY <2>1 DEF FreeRule, Holding, TypeOK, Parsing
  <2>2. CASE Register(t)
    BY <2>2 DEF Register, Holding, TypeOK, Parsing
  <2>3. CASE UnlinkTemplates(t)
    BY <2>3 DEF UnlinkTemplates, TypeOK, Parsing
  <2>4. CASE FreeTemplates(t)
    BY <2>4 DEF FreeTemplates, TypeOK, Parsing
  <2> QED
    BY <1>6, <2>1, <2>2, <2>3, <2>4 DEF Own
<1>7. CASE UNCHANGED vars
  BY <1>7 DEF vars, Parsing
<1>8. ASSUME NEW t \in Threads, SyntaxError(t) PROVE Parsing'
  <2>1. Grown(t)
    BY <1>8 DEF SyntaxError, Grown
  <2>2. \A u \in Threads : built[u] \subseteq built'[u] /\ (u # t => built'[u] = built[u])
    BY <2>1, GrownTypes
  <2>3. /\ pc[t] = "declare" /\ pc' = [pc EXCEPT ![t] = "recover"]
        /\ UNCHANGED <<text, pos, first, rule, held, unlinked>>
    BY <1>8 DEF SyntaxError, At
  <2> QED
    BY <2>2, <2>3 DEF Parsing, TypeOK
<1>9. ASSUME NEW t \in Threads, Crash(t) PROVE Parsing'
  BY <1>9 DEF Crash, Parsing
<1> QED
  BY <1>1, <1>2, <1>3, <1>4, <1>5, <1>6, <1>7, <1>8, <1>9, Moves

LEMMA CopyingStep == TypeOK /\ Parsing /\ Copying /\ [Next]_vars => Copying'
<1> SUFFICES ASSUME TypeOK, Parsing, Copying, [Next]_vars PROVE Copying'
  OBVIOUS
<1> USE DEF Goto, inputVars, valueVars, noteVars, memVars, ownerVars
<1>1. ASSUME NEW t \in Threads, NEW s \in Texts, NEW errors \in BOOLEAN,
             Refuse(t, s, errors) \/ Begin(t, s, errors)
      PROVE  Copying'
  BY <1>1 DEF Refuse, Begin, Started, TypeOK, Copying
<1>2. ASSUME NEW t \in Threads, Reductions(t) PROVE Copying'
  <2>1. Reduced(t)
    BY <1>2, ReductionsReduce
  <2> QED
    BY <2>1 DEF Reduced, TypeOK, Copying
<1>3. ASSUME NEW t \in Threads, FindTemplate(t) PROVE Copying'
  <2>1. PICK i \in DOMAIN registry : Newest(Declaration(t).base) = registry[i]
    BY <1>3, NewestIsRegistered DEF FindTemplate, TypeOK
  <2>2. registry[i] \in Rules
    BY <2>1 DEF TypeOK
  <2>3. registry[i] # NoRule
    BY <2>2, StoreOfOne
  <2> QED
    BY <1>3, <2>1, <2>3 DEF FindTemplate, TypeOK, Copying
<1>4. ASSUME NEW t \in Threads, EndParse(t) PROVE Copying'
  BY <1>4 DEF EndParse, TypeOK, Copying
<1>5. ASSUME NEW t \in Threads, Own(t) PROVE Copying'
  BY <1>5 DEF Own, FreeRule, Register, UnlinkTemplates, FreeTemplates, TypeOK, Copying
<1>6. CASE UNCHANGED vars
  BY <1>6 DEF vars, Copying
<1>7. ASSUME NEW t \in Threads, SyntaxError(t) \/ Crash(t) PROVE Copying'
  BY <1>7 DEF SyntaxError, At, Crash, TypeOK, Copying
<1> QED
  BY <1>1, <1>2, <1>3, <1>4, <1>5, <1>6, <1>7, Moves

-----------------------------------------------------------------------------
(***************************************************************************)
(* Ownership.                                                              *)
(***************************************************************************)
\* The threads beside t own what they did.
OnlyOwner(t) == \A u \in Threads \ {t} :
  held'[u] = held[u] /\ built'[u] = built[u] /\ unlinked'[u] = unlinked[u]

\* New stores go to a parse or are lost.
LEMMA NewStores ==
  ASSUME OneOwner, NEW t \in Threads, OnlyOwner(t), NEW mine, NEW gone,
         (mine \cup gone) \cap stores = {}, mine \cap gone = {},
         stores' = stores \cup mine \cup gone, lost' = lost \cup gone,
         built'[t] = built[t] \cup mine,
         held'[t] = held[t], unlinked'[t] = unlinked[t], registry' = registry
  PROVE  OneOwner'
<1>1. Owned(t)' = Owned(t) \cup mine /\ \A u \in Threads \ {t} : Owned(u)' = Owned(u)
  BY DEF Owned, OnlyOwner
<1>2. \A u \in Threads : Owned(u) \subseteq stores /\ Owned(u) \cap (mine \cup gone) = {}
  BY DEF OneOwner
<1>3. /\ StoresOf(registry) \subseteq stores /\ lost \subseteq stores
      /\ (StoresOf(registry) \cup lost) \cap (mine \cup gone) = {}
  BY DEF OneOwner
<1>4. ASSUME NEW s \in stores'
      PROVE  s \in lost' \cup StoresOf(registry') \/ \E u \in Threads : s \in Owned(u)'
  <2>1. CASE s \in mine \cup gone
    BY <1>1, <2>1
  <2>2. CASE s \in stores
    <3>1. s \in lost \cup StoresOf(registry) \/ \E u \in Threads : s \in Owned(u)
      BY <2>2 DEF OneOwner
    <3> QED
      BY <1>1, <3>1
  <2> QED
    BY <1>4, <2>1, <2>2
<1>5. /\ lost' \subseteq stores' /\ StoresOf(registry') \subseteq stores'
      /\ \A u \in Threads : Owned(u)' \subseteq stores'
  BY <1>1, <1>2, <1>3
<1>6. \A u, w \in Threads : u # w => Owned(u)' \cap Owned(w)' = {}
  BY <1>1, <1>2 DEF OneOwner
<1>7. \A u \in Threads :
        /\ StoreOf(held'[u]) \cap (built'[u] \cup StoresOf(unlinked'[u])) = {}
        /\ built'[u] \cap StoresOf(unlinked'[u]) = {}
  <2>1. \A u \in Threads :
          /\ StoreOf(held[u]) \cap (built[u] \cup StoresOf(unlinked[u])) = {}
          /\ built[u] \cap StoresOf(unlinked[u]) = {}
    BY DEF OneOwner
  <2>2. mine \cap (StoreOf(held[t]) \cup StoresOf(unlinked[t])) = {}
    BY <1>2 DEF Owned
  <2> QED
    BY <2>1, <2>2 DEF OnlyOwner
<1>8. \A u \in Threads : Owned(u)' \cap (StoresOf(registry') \cup lost') = {}
  <2>1. \A u \in Threads : Owned(u) \cap (StoresOf(registry) \cup lost) = {}
    BY DEF OneOwner
  <2> QED
    BY <1>1, <1>2, <1>3, <2>1
<1>9. /\ StoresOf(registry') \cap lost' = {}
      /\ \A i, j \in DOMAIN registry' : i # j => registry'[i].store # registry'[j].store
  BY <1>3 DEF OneOwner
<1> QED
  BY <1>4, <1>5, <1>6, <1>7, <1>8, <1>9 DEF OneOwner

LEMMA GrownOwner ==
  ASSUME TypeOK, OneOwner, NEW t \in Threads, Grown(t), UNCHANGED <<held, unlinked, registry>>
  PROVE  OneOwner'
<1>1. PICK mine, gone : Allocate(t, mine, gone)
  BY DEF Grown
<1>2. mine \subseteq {born + 1} /\ gone \subseteq {born + 2} /\ stores \subseteq 1..born /\ born \in Nat
  BY <1>1 DEF Allocate, TypeOK
<1>3. (mine \cup gone) \cap stores = {} /\ mine \cap gone = {}
  BY <1>2
<1>4. OnlyOwner(t) /\ built'[t] = built[t] \cup mine
  BY <1>1 DEF Allocate, OnlyOwner, TypeOK
<1> QED
  BY <1>1, <1>3, <1>4, NewStores DEF Allocate

LEMMA OwnerStep == IInv /\ [Next]_vars => OneOwner'
<1> SUFFICES ASSUME TypeOK, Parsing, Copying, OneOwner, [Next]_vars PROVE OneOwner'
  BY DEF IInv
<1> USE DEF Goto, Reading, inputVars, valueVars, noteVars, ownerVars
<1>1. CASE UNCHANGED <<held, built, unlinked, registry, stores, lost>>
  BY <1>1 DEF OneOwner, Owned
<1>2. ASSUME NEW t \in Threads, NEW s \in Texts, NEW errors \in BOOLEAN, Begin(t, s, errors)
      PROVE  OneOwner'
  <2>1. UNCHANGED <<held, unlinked, registry, lost>>
    BY <1>2 DEF Begin, Started
  <2>2. built[t] = {}
    BY <1>2 DEF Begin, Started, Parsing, Busy
  <2>3. CASE UNCHANGED <<built, stores, born>>
    BY <1>1, <2>1, <2>3
  <2>4. CASE stores' = stores \cup {born + 1} /\ built' = [built EXCEPT ![t] = {born + 1}]
    <3>1. OnlyOwner(t) /\ built'[t] = built[t] \cup {born + 1}
      BY <2>1, <2>2, <2>4 DEF OnlyOwner, TypeOK
    <3>2. born + 1 \notin stores
      BY DEF TypeOK
    <3>3. ({born + 1} \cup {}) \cap stores = {} /\ {born + 1} \cap {} = {}
      BY <3>2
    <3>4. stores' = stores \cup {born + 1} \cup {} /\ lost' = lost \cup {}
      BY <2>1, <2>4
    <3> QED
      BY <2>1, <3>1, <3>3, <3>4, NewStores
  <2> QED
    BY <1>2, <2>3, <2>4 DEF Begin
<1>3. ASSUME NEW t \in Threads, Reductions(t) PROVE OneOwner'
  <2>1. Reduced(t)
    BY <1>3, ReductionsReduce
  <2> QED
    BY <2>1, GrownOwner DEF Reduced
<1>4. ASSUME NEW t \in Threads, EndParse(t) PROVE OneOwner'
  <2>1. held[t] = NoRule /\ unlinked[t] = <<>> /\ StoreOf(rule[t]) \subseteq built[t]
    BY <1>4 DEF EndParse, Parsing, Busy
  <2>2. /\ Freed(t) \subseteq built[t] /\ StoreOf(Given(t)) \subseteq built[t]
        /\ Freed(t) \cap StoreOf(Given(t)) = {}
    BY <2>1, StoreOfOne DEF Freed, Given
  <2>3. OnlyOwner(t)
    BY <1>4 DEF EndParse, OnlyOwner, TypeOK
  <2>4. /\ held'[t] = Given(t) /\ built'[t] = {} /\ unlinked'[t] = <<>>
        /\ stores' = stores \ Freed(t)
        /\ lost' = lost \cup (built[t] \ (Freed(t) \cup StoreOf(Given(t))))
        /\ registry' = registry
    BY <1>4, <2>1 DEF EndParse, TypeOK
  <2>5. Owned(t) = built[t] /\ Owned(t)' = StoreOf(Given(t))
    BY <2>1, <2>4, StoreOfOne, StoresOfNone DEF Owned
  <2>6. \A u \in Threads \ {t} : Owned(u)' = Owned(u) /\ Owned(u) \cap built[t] = {}
    BY <2>3, <2>5 DEF OnlyOwner, OneOwner, Owned
  <2>7. StoresOf(registry) \cap built[t] = {} /\ lost \cap built[t] = {} /\ built[t] \subseteq stores
    BY <2>5 DEF OneOwner
  <2>8. ASSUME NEW s \in stores'
        PROVE  s \in lost' \cup StoresOf(registry') \/ \E u \in Threads : s \in Owned(u)'
    <3>1. CASE s \in built[t]
      BY <2>4, <2>5, <2>8, <3>1
    <3>2. CASE s \notin built[t]
      BY <2>4, <2>5, <2>6, <2>8, <3>2 DEF OneOwner
    <3> QED
      BY <3>1, <3>2
  <2>9. lost' \subseteq stores' /\ StoresOf(registry') \subseteq stores'
    BY <2>2, <2>4, <2>7 DEF OneOwner
  <2>10. \A u \in Threads : Owned(u)' \subseteq stores'
    BY <2>2, <2>4, <2>5, <2>6, <2>7 DEF OneOwner
  <2>11. \A u, w \in Threads : u # w => Owned(u)' \cap Owned(w)' = {}
    BY <2>2, <2>5, <2>6 DEF OneOwner
  <2>12. \A u \in Threads :
           /\ StoreOf(held'[u]) \cap (built'[u] \cup StoresOf(unlinked'[u])) = {}
           /\ built'[u] \cap StoresOf(unlinked'[u]) = {}
    BY <2>3, <2>4, StoresOfNone DEF OnlyOwner, OneOwner
  <2>13. \A u \in Threads : Owned(u)' \cap (StoresOf(registry') \cup lost') = {}
    BY <2>2, <2>4, <2>5, <2>6, <2>7 DEF OneOwner
  <2>14. StoresOf(registry') \cap lost' = {}
           /\ \A i, j \in DOMAIN registry' : i # j => registry'[i].store # registry'[j].store
    BY <2>4, <2>7 DEF OneOwner
  <2> QED
    BY <2>8, <2>9, <2>10, <2>11, <2>12, <2>13, <2>14 DEF OneOwner
<1>5. ASSUME NEW t \in Threads, FreeRule(t) PROVE OneOwner'
  <2>1. /\ stores' = stores \ StoreOf(held[t]) /\ held'[t] = NoRule /\ OnlyOwner(t)
        /\ UNCHANGED <<built, unlinked, registry, lost>>
    BY <1>5 DEF FreeRule, OnlyOwner, TypeOK
  <2>2. Owned(t)' = Owned(t) \ StoreOf(held[t])
    BY <2>1, StoreOfOne DEF Owned, OneOwner
  <2>3. \A u \in Threads \ {t} : Owned(u)' = Owned(u) /\ Owned(u) \cap StoreOf(held[t]) = {}
    BY <2>1 DEF OnlyOwner, OneOwner, Owned
  <2>4. StoreOf(held[t]) \cap (StoresOf(registry) \cup lost) = {} /\ StoreOf(held[t]) \subseteq Owned(t)
    BY DEF OneOwner, Owned
  <2>5. \A s \in stores' : s \in lost' \cup StoresOf(registry') \/ \E u \in Threads : s \in Owned(u)'
    BY <2>1, <2>2, <2>3 DEF OneOwner
  <2>6. lost' \subseteq stores' /\ StoresOf(registry') \subseteq stores'
          /\ \A u \in Threads : Owned(u)' \subseteq stores'
    BY <2>1, <2>2, <2>3, <2>4 DEF OneOwner
  <2>7. \A u, w \in Threads : u # w => Owned(u)' \cap Owned(w)' = {}
    BY <2>2, <2>3 DEF OneOwner
  <2>8. \A u \in Threads :
          /\ StoreOf(held'[u]) \cap (built'[u] \cup StoresOf(unlinked'[u])) = {}
          /\ built'[u] \cap StoresOf(unlinked'[u]) = {}
          /\ Owned(u)' \cap (StoresOf(registry') \cup lost') = {}
    BY <2>1, <2>2, <2>3, StoreOfOne DEF OnlyOwner, OneOwner
  <2> QED
    BY <2>1, <2>5, <2>6, <2>7, <2>8 DEF OneOwner
<1>6. ASSUME NEW t \in Threads, Register(t) PROVE OneOwner'
  <2> DEFINE mine == StoreOf(held[t])
  <2>1. /\ held[t] \in Rules /\ held'[t] = NoRule /\ OnlyOwner(t)
        /\ UNCHANGED <<built, unlinked, stores>>
    BY <1>6 DEF Register, Holding, OnlyOwner, TypeOK, RuleOrNone
  <2>2. Owned(t)' = Owned(t) \ mine /\ mine \subseteq Owned(t)
    BY <2>1, StoreOfOne DEF Owned, OneOwner
  <2>3. \A u \in Threads \ {t} : Owned(u)' = Owned(u) /\ Owned(u) \cap mine = {}
    BY <2>1 DEF OnlyOwner, OneOwner, Owned
  <2>4. mine \cap (StoresOf(registry) \cup lost) = {}
    BY <2>2 DEF OneOwner
  <2>5. /\ StoresOf(registry') \cup lost' = StoresOf(registry) \cup lost \cup mine
        /\ StoresOf(registry') \cap lost' = {}
    <3>1. CASE registry' = <<held[t]>> \o registry /\ UNCHANGED lost
      <4>1. StoresOf(<<held[t]>> \o registry) = mine \cup StoresOf(registry)
        <5>1. registry \in Seq(Rules)
          BY DEF TypeOK
        <5>2. mine = {held[t].store}
          BY <2>1, StoreOfOne
        <5>3. StoresOf(<<held[t]>> \o registry) = {held[t].store} \cup StoresOf(registry)
          BY <2>1, <5>1, StoresOfLonger, Zenon
        <5> QED
          BY <5>2, <5>3, Zenon
      <4>2. StoresOf(registry') = mine \cup StoresOf(registry)
        BY <3>1, <4>1, Zenon
      <4> QED
        BY <2>4, <3>1, <4>2 DEF OneOwner
    <3>2. CASE lost' = lost \cup mine /\ UNCHANGED registry
      BY <2>4, <3>2 DEF OneOwner
    <3> QED
      BY <1>6, <3>1, <3>2 DEF Register
  <2>6. \A i, j \in DOMAIN registry' : i # j => registry'[i].store # registry'[j].store
    <3>1. CASE registry' = <<held[t]>> \o registry
      <4> DEFINE long == <<held[t]>> \o registry
      <4>1. /\ \A i \in DOMAIN long : long[i] = IF i = 1 THEN held[t] ELSE registry[i - 1]
            /\ long \in Seq(Rules)
        BY <2>1, StoresOfLonger DEF TypeOK
      <4>2. Len(long) = Len(registry) + 1 /\ DOMAIN long = 1..Len(long) /\ Len(registry) \in Nat
        BY <2>1, LenProperties, ConcatProperties DEF TypeOK
      <4>3. \A k \in 1..Len(registry) : registry[k].store # held[t].store
        <5>1. mine = {held[t].store}
          BY <2>1, StoreOfOne
        <5> QED
          BY <2>4, <5>1, LenProperties DEF StoresOf, TypeOK
      <4>4. \A i, j \in 1..Len(registry) : i # j => registry[i].store # registry[j].store
        BY LenProperties DEF OneOwner, TypeOK
      <4>5. ASSUME NEW i \in DOMAIN long, NEW j \in DOMAIN long, i # j
            PROVE  long[i].store # long[j].store
        <5>1. i \in 1..Len(registry) + 1 /\ j \in 1..Len(registry) + 1
          BY <4>2, <4>5
        <5>2. CASE i = 1
          BY <4>1, <4>2, <4>3, <4>5, <5>1, <5>2
        <5>3. CASE j = 1
          BY <4>1, <4>2, <4>3, <4>5, <5>1, <5>3
        <5>4. CASE i # 1 /\ j # 1
          BY <4>1, <4>2, <4>4, <4>5, <5>1, <5>4
        <5> QED
          BY <5>2, <5>3, <5>4
      <4> QED
        BY <3>1, <4>5, Zenon
    <3>2. CASE UNCHANGED registry
      BY <3>2 DEF OneOwner
    <3> QED
      BY <1>6, <3>1, <3>2 DEF Register
  <2>7. \A s \in stores' : s \in lost' \cup StoresOf(registry') \/ \E u \in Threads : s \in Owned(u)'
    BY <2>1, <2>2, <2>3, <2>5 DEF OneOwner
  <2>8. lost' \subseteq stores' /\ StoresOf(registry') \subseteq stores'
          /\ \A u \in Threads : Owned(u)' \subseteq stores'
    BY <2>1, <2>2, <2>3, <2>5 DEF OneOwner
  <2>9. \A u, w \in Threads : u # w => Owned(u)' \cap Owned(w)' = {}
    BY <2>2, <2>3 DEF OneOwner
  <2>10. \A u \in Threads : Owned(u)' \cap (StoresOf(registry') \cup lost') = {}
    BY <2>2, <2>3, <2>4, <2>5 DEF OneOwner
  <2>11. \A u \in Threads :
           /\ StoreOf(held'[u]) \cap (built'[u] \cup StoresOf(unlinked'[u])) = {}
           /\ built'[u] \cap StoresOf(unlinked'[u]) = {}
    BY <2>1, StoreOfOne DEF OnlyOwner, OneOwner
  <2> QED
    BY <2>5, <2>6, <2>7, <2>8, <2>9, <2>10, <2>11 DEF OneOwner
<1>7. ASSUME NEW t \in Threads, UnlinkTemplates(t) PROVE OneOwner'
  <2>1. /\ unlinked[t] = <<>> /\ unlinked'[t] = registry /\ registry' = <<>> /\ OnlyOwner(t)
        /\ UNCHANGED <<held, built, stores, lost>>
    BY <1>7 DEF UnlinkTemplates, Parsing, OnlyOwner, TypeOK, memVars
  <2>2. Owned(t)' = Owned(t) \cup StoresOf(registry) /\ StoresOf(registry') = {}
    BY <2>1, StoresOfNone DEF Owned
  <2>3. \A u \in Threads \ {t} : Owned(u)' = Owned(u)
    BY <2>1 DEF OnlyOwner, Owned
  <2>4. \A s \in stores' : s \in lost' \cup StoresOf(registry') \/ \E u \in Threads : s \in Owned(u)'
    BY <2>1, <2>2, <2>3 DEF OneOwner
  <2>5. \A u, w \in Threads : u # w => Owned(u)' \cap Owned(w)' = {}
    BY <2>2, <2>3 DEF OneOwner
  <2>6. \A u \in Threads : Owned(u)' \subseteq stores' /\ Owned(u)' \cap lost' = {}
    BY <2>1, <2>2, <2>3 DEF OneOwner
  <2>7. \A u \in Threads :
          /\ StoreOf(held'[u]) \cap (built'[u] \cup StoresOf(unlinked'[u])) = {}
          /\ built'[u] \cap StoresOf(unlinked'[u]) = {}
    BY <2>1 DEF OnlyOwner, OneOwner, Owned
  <2>8. DOMAIN registry' = {}
    BY <2>1
  <2> QED
    BY <2>1, <2>2, <2>4, <2>5, <2>6, <2>7, <2>8 DEF OneOwner
<1>8. ASSUME NEW t \in Threads, FreeTemplates(t) PROVE OneOwner'
  <2> DEFINE mine == StoresOf(unlinked[t])
  <2>1. /\ unlinked'[t] = <<>> /\ OnlyOwner(t) /\ stores' = stores \ mine
        /\ UNCHANGED <<held, built, registry, lost>>
    BY <1>8 DEF FreeTemplates, OnlyOwner, TypeOK
  <2>2. Owned(t)' = Owned(t) \ mine /\ mine \subseteq Owned(t)
    BY <2>1, StoresOfNone DEF Owned, OneOwner
  <2>3. \A u \in Threads \ {t} : Owned(u)' = Owned(u) /\ Owned(u) \cap mine = {}
    BY <2>1 DEF OnlyOwner, OneOwner, Owned
  <2>4. mine \cap (StoresOf(registry) \cup lost) = {}
    BY <2>2 DEF OneOwner
  <2>5. \A s \in stores' : s \in lost' \cup StoresOf(registry') \/ \E u \in Threads : s \in Owned(u)'
    BY <2>1, <2>2, <2>3 DEF OneOwner
  <2>6. lost' \subseteq stores' /\ StoresOf(registry') \subseteq stores'
          /\ \A u \in Threads : Owned(u)' \subseteq stores'
    BY <2>1, <2>2, <2>3, <2>4 DEF OneOwner
  <2>7. \A u, w \in Threads : u # w => Owned(u)' \cap Owned(w)' = {}
    BY <2>2, <2>3 DEF OneOwner
  <2>8. \A u \in Threads :
          /\ StoreOf(held'[u]) \cap (built'[u] \cup StoresOf(unlinked'[u])) = {}
          /\ built'[u] \cap StoresOf(unlinked'[u]) = {}
          /\ Owned(u)' \cap (StoresOf(registry') \cup lost') = {}
    BY <2>1, <2>2, <2>3, StoresOfNone DEF OnlyOwner, OneOwner
  <2> QED
    BY <2>1, <2>5, <2>6, <2>7, <2>8 DEF OneOwner
<1>9. ASSUME NEW t \in Threads, NEW s \in Texts, NEW errors \in BOOLEAN, Refuse(t, s, errors)
      PROVE  OneOwner'
  BY <1>1, <1>9 DEF Refuse, Started
<1>10. CASE UNCHANGED vars
  BY <1>1, <1>10 DEF vars, memVars
<1>11. ASSUME NEW t \in Threads, FindTemplate(t) PROVE OneOwner'
  BY <1>1, <1>11 DEF FindTemplate, memVars
<1>12. ASSUME NEW t \in Threads, SyntaxError(t) PROVE OneOwner'
  BY <1>12, GrownOwner DEF SyntaxError, Grown
<1>13. ASSUME NEW t \in Threads, Crash(t) PROVE OneOwner'
  BY <1>1, <1>13 DEF Crash, memVars
<1> QED
  BY <1>2, <1>3, <1>4, <1>5, <1>6, <1>7, <1>8, <1>9, <1>10, <1>11, <1>12, <1>13, Moves DEF Own

-----------------------------------------------------------------------------
LEMMA InitHolds == Init => IInv
<1> SUFFICES ASSUME Init PROVE IInv
  OBVIOUS
<1>1. TypeOK
  BY TypeInit
<1>2. Parsing
  BY StoreOfOne DEF Init, Parsing, Busy, Reading
<1>3. Copying
  BY StoreOfOne DEF Init, Copying
<1>4. OneOwner
  BY StoreOfOne, StoresOfNone DEF Init, OneOwner, Owned
<1> QED
  BY <1>1, <1>2, <1>3, <1>4 DEF IInv

LEMMA IInvStep == IInv /\ [Next]_vars => IInv'
  BY TypeStep, ParsingStep, CopyingStep, OwnerStep DEF IInv

LEMMA Invariance == Spec => []IInv
  BY InitHolds, IInvStep, PTL DEF Spec

\* Every reachable state of the parser and its registry is well typed.
THEOREM TypeCorrect == Spec => []TypeOK
<1>1. IInv => TypeOK
  BY DEF IInv
<1> QED
  BY <1>1, Invariance, PTL

\* Every store that cdsl_parse_string allocates has one owner until it is
\* freed, or is lost: however parses, registrations and clears interleave, and
\* wherever memory runs out.
THEOREM Ownership == Spec => []StoresHaveOneOwner
<1>1. IInv => StoresHaveOneOwner
  <2> SUFFICES ASSUME IInv PROVE StoresHaveOneOwner
    OBVIOUS
  <2> DEFINE all == (UNION {Owned(t) : t \in Threads})
  <2>1. \A s : s \in all <=> \E t \in Threads : s \in Owned(t)
    OBVIOUS
  <2>2. \A s \in stores : s \in all \cup StoresOf(registry) \cup lost
    BY <2>1 DEF IInv, OneOwner
  <2>3. all \subseteq stores /\ StoresOf(registry) \subseteq stores /\ lost \subseteq stores
    BY <2>1 DEF IInv, OneOwner
  <2>4. stores = all \cup StoresOf(registry) \cup lost
    BY <2>2, <2>3
  <2>5. \A t, u \in Threads : t # u => Owned(t) \cap Owned(u) = {}
    BY DEF IInv, OneOwner
  <2>6. \A t \in Threads :
          /\ StoreOf(held[t]) \cap (built[t] \cup StoresOf(unlinked[t])) = {}
          /\ built[t] \cap StoresOf(unlinked[t]) = {}
          /\ Owned(t) \cap (StoresOf(registry) \cup lost) = {}
    BY DEF IInv, OneOwner
  <2>7. /\ StoresOf(registry) \cap lost = {}
        /\ \A i, j \in DOMAIN registry : i # j => registry[i].store # registry[j].store
    BY DEF IInv, OneOwner
  <2> QED
    BY <2>4, <2>5, <2>6, <2>7 DEF StoresHaveOneOwner
<1> QED
  BY <1>1, Invariance, PTL

\* No rule that a caller holds, the registry hands out or a parser is building
\* lies in a freed store, whoever parses, registers or clears meanwhile.
THEOREM RulesInUseLive == Spec => []RulesAreLive
<1>1. IInv => RulesAreLive
  BY DEF IInv, Parsing, OneOwner, Owned, RulesAreLive
<1> QED
  BY <1>1, Invariance, PTL

-----------------------------------------------------------------------------
(***************************************************************************)
(* What a parse tells its caller, and what it leaves behind.               *)
(***************************************************************************)
\* The list of errors is there if it was wanted, and an error is in it, unless
\* memory ran out.
Heard(t) ==
  \/ "fault" \in mishaps[t]
  \/ /\ listing[t] = wanted[t]
     /\ "error" \in mishaps[t] /\ wanted[t] => listed[t]

\* The rule of the last declaration, whole.
WholeAt(r, p) == r # NoRule /\ r.whole /\ r.at = p

\* Once a declaration is reduced, there is no rule, or none that is whole, only
\* with a reason; an error is in the list, if the caller wanted one.
HonestAt(t) ==
  /\ ~heap[t] => \A a, b \in built[t] : a = b
  /\ pc[t] \in Busy =>
       /\ Heard(t)
       /\ heap[t] => "fault" \in mishaps[t]
       /\ pos[t] > 1 => rule[t] # NoRule \/ mishaps[t] \cap {"error", "unresolved", "fault"} # {}
       /\ pos[t] > 1 => WholeAt(rule[t], pos[t] - 1) \/ mishaps[t] # {}
       /\ pc[t] = "recover" => "error" \in mishaps[t]
       /\ pc[t] = "end" => pos[t] = Len(text[t]) + 1 /\ pos[t] > 1

Honest == \A t \in Threads : HonestAt(t)

\* What a reduction adds to the notes of its parse.
Told(t) ==
  /\ \A u \in Threads \ {t} : mishaps'[u] = mishaps[u] /\ listed'[u] = listed[u]
  /\ mishaps[t] \subseteq mishaps'[t]
  /\ listed'[t] = listed[t] \/ listed'[t] = listing[t]
  /\ \/ "error" \notin mishaps'[t] \/ "error" \in mishaps[t]
     \/ listed'[t] = listing[t] \/ "fault" \in mishaps'[t]

\* What it does to the rule and the stores.
Yielded(t) ==
  /\ \A u \in Threads \ {t} : rule'[u] = rule[u] /\ built'[u] = built[u]
  /\ ~heap[t] => built'[t] = built[t]
  /\ lost' = lost \/ faults' > faults
  /\ rule'[t] # NoRule \/ mishaps'[t] \cap {"error", "unresolved", "fault"} # {}
  /\ WholeAt(rule'[t], pos[t]) \/ mishaps'[t] # {}

LEMMA RuleYields ==
  ASSUME TypeOK, Parsing, NEW t \in Threads, pc[t] \in Reading,
         NEW id \in 1..(born + 1), NEW gone, NEW whole \in BOOLEAN, NEW base \in Names \cup {NoName},
         InStore(t, id, gone), gone = {} \/ faults' > faults,
         Reduce(t, RuleOf(t, id, whole, base)), whole \/ mishaps'[t] # {}
  PROVE  Yielded(t)
<1> DEFINE r == RuleOf(t, id, whole, base)
<1>1. r \in Rules /\ r # NoRule
  BY RuleIsMade, StoreOfOne
<1>2. r.whole = whole /\ r.at = pos[t]
  BY DEF RuleOf
<1>3. rule' = [rule EXCEPT ![t] = Latest(t, r)]
  BY DEF Reduce
<1> HIDE DEF r
<1>4. Latest(t, r) = r
  BY <1>1 DEF Latest
<1>5. rule'[t] = r /\ \A u \in Threads \ {t} : rule'[u] = rule[u]
  BY <1>3, <1>4 DEF TypeOK
<1>6. WholeAt(rule'[t], pos[t]) \/ mishaps'[t] # {}
  <2>1. CASE whole
    BY <1>1, <1>2, <1>5, <2>1 DEF WholeAt
  <2>2. CASE ~whole
    BY <2>2
  <2> QED
    BY <2>1, <2>2
<1>7. lost' = lost \/ faults' > faults
  BY DEF InStore, Allocate
<1>8. /\ \A u \in Threads \ {t} : built'[u] = built[u]
      /\ ~heap[t] => built'[t] = built[t]
  BY DEF InStore, Allocate, TypeOK
<1> QED
  BY <1>1, <1>5, <1>6, <1>7, <1>8 DEF Yielded

LEMMA NothingYields ==
  ASSUME TypeOK, NEW t \in Threads, Reduce(t, NoRule), built' = built,
         lost' = lost \/ faults' > faults,
         mishaps'[t] \cap {"error", "unresolved", "fault"} # {}
  PROVE  Yielded(t)
  BY DEF Yielded, Reduce, TypeOK

LEMMA MakeSays ==
  ASSUME TypeOK, Parsing, NEW t \in Threads, pc[t] \in Reading,
         NEW whole \in BOOLEAN, NEW base \in Names \cup {NoName},
         NEW trouble \in SUBSET {"inherited"}, whole \/ trouble \cup mishaps[t] # {},
         Make(t, whole, base, trouble)
  PROVE  Told(t) /\ Yielded(t)
<1>1. PICK id \in 1..(born + 1), gone \in Leavings(t), w \in BOOLEAN, more \in SUBSET {"inherited", "fault"} :
        /\ InStore(t, id, gone) /\ listed' = listed
        /\ gone = {} \/ faults' > faults
        /\ Reduce(t, RuleOf(t, id, w, base))
        /\ mishaps' = [mishaps EXCEPT ![t] = @ \cup more]
        /\ w \/ more \cup mishaps[t] # {}
  <2>1. PICK id \in 1..(born + 1), gone \in Leavings(t) :
          /\ InStore(t, id, gone)
          /\ UNCHANGED listed
          /\ \/ /\ NoFault /\ gone = {}
                /\ Reduce(t, RuleOf(t, id, whole, base))
                /\ mishaps' = [mishaps EXCEPT ![t] = @ \cup trouble]
             \/ /\ Fault
                /\ Reduce(t, RuleOf(t, id, FALSE, base))
                /\ mishaps' = [mishaps EXCEPT ![t] = @ \cup trouble \cup {"fault"}]
    BY DEF Make
  <2>2. CASE /\ gone = {} /\ Reduce(t, RuleOf(t, id, whole, base))
             /\ mishaps' = [mishaps EXCEPT ![t] = @ \cup trouble]
    <3>1. trouble \in SUBSET {"inherited", "fault"}
      OBVIOUS
    <3> QED
      BY <2>1, <2>2, <3>1
  <2>3. CASE /\ Fault /\ Reduce(t, RuleOf(t, id, FALSE, base))
             /\ mishaps' = [mishaps EXCEPT ![t] = @ \cup trouble \cup {"fault"}]
    <3>0. faults' > faults
      BY <2>3 DEF Fault, TypeOK
    <3>1. trouble \cup {"fault"} \in SUBSET {"inherited", "fault"} /\ trouble \cup {"fault"} # {}
      OBVIOUS
    <3>2. mishaps' = [mishaps EXCEPT ![t] = @ \cup (trouble \cup {"fault"})]
      BY <2>3
    <3> QED
      BY <2>1, <2>3, <3>0, <3>1, <3>2
  <2> QED
    BY <2>1, <2>2, <2>3
<1>2. /\ mishaps'[t] = mishaps[t] \cup more
      /\ \A u \in Threads \ {t} : mishaps'[u] = mishaps[u]
  BY <1>1 DEF TypeOK
<1>3. Told(t)
  BY <1>1, <1>2 DEF Told
<1>4. w \/ mishaps'[t] # {}
  BY <1>1, <1>2
<1> QED
  BY <1>1, <1>3, <1>4, RuleYields

LEMMA NothingSays ==
  ASSUME TypeOK, NEW t \in Threads, MakeNothing(t)
  PROVE  Told(t) /\ Yielded(t)
<1>1. /\ mishaps'[t] = mishaps[t] \cup {"fault"} /\ faults' = faults + 1 /\ faults \in Nat
      /\ \A u \in Threads \ {t} : mishaps'[u] = mishaps[u]
      /\ Reduce(t, NoRule) /\ UNCHANGED <<built, listed>>
  BY DEF MakeNothing, Allocate, Mishap, Fault, TypeOK
<1>2. faults' > faults
  BY <1>1
<1> QED
  BY <1>1, <1>2, NothingYields DEF Told

\* A reduction never hides what went wrong.
LEMMA ReductionsSay ==
  ASSUME TypeOK, Parsing, Copying, Honest, NEW t \in Threads, Reductions(t)
  PROVE  Told(t) /\ Yielded(t)
<1>1. CASE DeclareRule(t)
  <2>1. pc[t] \in Reading
    BY <1>1 DEF DeclareRule, At, Reading
  <2>2. CASE Make(t, TRUE, NoName, {})
    <3>1. TRUE \in BOOLEAN /\ NoName \in Names \cup {NoName} /\ {} \in SUBSET {"inherited"}
      OBVIOUS
    <3> QED
      BY <2>1, <2>2, <3>1, MakeSays
  <2> QED
    BY <1>1, <2>2, NothingSays DEF DeclareRule
<1>2. CASE Recover(t)
  <2>1. "error" \in mishaps[t] /\ pc[t] \in Reading
    BY <1>2 DEF Recover, Honest, HonestAt, Busy, Reading
  <2>2. CASE NoFault /\ Reduce(t, NoRule) /\ UNCHANGED <<noteVars, memVars>>
    <3>1. /\ Reduce(t, NoRule) /\ built' = built /\ lost' = lost /\ mishaps' = mishaps /\ listed' = listed
          /\ mishaps'[t] \cap {"error", "unresolved", "fault"} # {}
      BY <2>1, <2>2 DEF noteVars, memVars
    <3> QED
      BY <3>1, NothingYields DEF Told
  <2>3. CASE Make(t, FALSE, NoName, {})
    <3>1. FALSE \in BOOLEAN /\ NoName \in Names \cup {NoName} /\ {} \in SUBSET {"inherited"}
          /\ {} \cup mishaps[t] # {}
      BY <2>1
    <3> QED
      BY <2>1, <2>3, <3>1, MakeSays
  <2> QED
    BY <1>2, <2>2, <2>3, NothingSays DEF Recover
<1>4. CASE DeclareStray(t)
  <2>1. PICK id \in 1..(born + 1) : InStore(t, id, {}) /\ Reduce(t, RuleOf(t, id, TRUE, NoName))
    BY <1>4 DEF DeclareStray
  <2>2. /\ pc[t] = "declare" /\ listed'[t] = listing[t] /\ mishaps' = mishaps
        /\ \A u \in Threads \ {t} : listed'[u] = listed[u]
    BY <1>4 DEF DeclareStray, At, ListError, TypeOK
  <2>3. Told(t)
    BY <2>2 DEF Told
  <2>4. TRUE \in BOOLEAN /\ pc[t] \in Reading
    BY <2>2 DEF Reading
  <2> QED
    BY <2>1, <2>3, <2>4, RuleYields
<1>5. CASE MissTemplate(t)
  <2>1. /\ pc[t] = "declare" /\ Reduce(t, NoRule) /\ UNCHANGED <<built, lost, listed>>
        /\ mishaps'[t] = mishaps[t] \cup {"unresolved"}
        /\ \A u \in Threads \ {t} : mishaps'[u] = mishaps[u]
    BY <1>5 DEF MissTemplate, At, memVars, Mishap, TypeOK
  <2>2. Told(t)
    BY <2>1 DEF Told
  <2>3. mishaps'[t] \cap {"error", "unresolved", "fault"} # {}
    BY <2>1
  <2> QED
    BY <2>1, <2>2, <2>3, NothingYields
<1>6. CASE CopyTemplate(t)
  <2>1. found[t] \in Rules /\ pc[t] = "copy"
    BY <1>6 DEF CopyTemplate, Copying, TypeOK, RuleOrNone
  <2>2. found[t].name \in Names \cup {NoName} /\ Readable(t) \subseteq BOOLEAN /\ pc[t] \in Reading
    BY <2>1 DEF Rules, Readable, Reading
  <2>3. ASSUME NEW whole \in Readable(t), NEW trouble, trouble = IF whole THEN {} ELSE {"inherited"},
               Make(t, whole, found[t].name, trouble)
        PROVE  Told(t) /\ Yielded(t)
    <3>1. whole \in BOOLEAN /\ trouble \in SUBSET {"inherited"} /\ (whole \/ trouble \cup mishaps[t] # {})
      BY <2>2, <2>3
    <3> QED
      BY <2>2, <2>3, <3>1, MakeSays
  <2> QED
    BY <1>6, <2>3, NothingSays DEF CopyTemplate
<1> QED
  BY <1>1, <1>2, <1>4, <1>5, <1>6 DEF Reductions

LEMMA HonestStep == IInv /\ Honest /\ [Next]_vars => Honest'
<1> SUFFICES ASSUME TypeOK, Parsing, Copying, Honest, [Next]_vars PROVE Honest'
  BY DEF IInv
<1> USE DEF Goto, Busy, Reading
\* Whoever else is parsing remembers what it did.
<1> DEFINE Same(u) ==
      /\ pc'[u] = pc[u] /\ pos'[u] = pos[u] /\ text'[u] = text[u] /\ wanted'[u] = wanted[u]
      /\ listing'[u] = listing[u] /\ listed'[u] = listed[u] /\ mishaps'[u] = mishaps[u]
      /\ heap'[u] = heap[u] /\ built'[u] = built[u] /\ rule'[u] = rule[u]
<1>0. ASSUME NEW u \in Threads, Same(u) PROVE HonestAt(u)'
  BY <1>0 DEF Honest, HonestAt, Heard, WholeAt
<1>1. ASSUME NEW t \in Threads, NEW s \in Texts, NEW errors \in BOOLEAN, Refuse(t, s, errors)
      PROVE  Honest'
  <2>1. pc' = pc /\ pc[t] \notin Busy /\ UNCHANGED <<heap, built>>
    BY <1>1 DEF Refuse, Started
  <2>2. \A u \in Threads \ {t} : Same(u)
    BY <1>1 DEF Refuse, Started, TypeOK
  <2>3. HonestAt(t)'
    BY <2>1 DEF Honest, HonestAt
  <2> QED
    BY <1>0, <2>2, <2>3 DEF Honest
<1>2. ASSUME NEW t \in Threads, NEW s \in Texts, NEW errors \in BOOLEAN, Begin(t, s, errors)
      PROVE  Honest'
  <2>1. pc'[t] = "declare" /\ pos'[t] = 1 /\ wanted'[t] = errors
    BY <1>2 DEF Begin, Started, TypeOK
  <2>2. PICK failed \in {"nothing", "arena", "list"} :
          /\ IF failed = "nothing" THEN mishaps' = [mishaps EXCEPT ![t] = {}]
                                   ELSE mishaps' = [mishaps EXCEPT ![t] = {"fault"}]
          /\ listing' = [listing EXCEPT ![t] = errors /\ failed # "list"]
          /\ heap' = [heap EXCEPT ![t] = failed = "arena"]
          /\ built' = built \/ built' = [built EXCEPT ![t] = {born + 1}]
    BY <1>2 DEF Begin
  <2>3. /\ \/ "fault" \in mishaps'[t]
           \/ "error" \notin mishaps'[t] /\ listing'[t] = wanted'[t] /\ ~heap'[t]
        /\ \A u \in Threads \ {t} :
             mishaps'[u] = mishaps[u] /\ listing'[u] = listing[u] /\ heap'[u] = heap[u] /\ built'[u] = built[u]
    <3>1. CASE failed = "nothing"
      BY <2>1, <2>2, <3>1 DEF TypeOK
    <3>2. CASE failed # "nothing"
      BY <2>2, <3>2 DEF TypeOK
    <3> QED
      BY <3>1, <3>2
  <2>4. \A a, b \in built'[t] : a = b
    <3>1. built[t] = {}
      BY <1>2 DEF Begin, Started, Parsing
    <3> QED
      BY <2>2, <3>1 DEF TypeOK
  <2>5. HonestAt(t)'
    BY <2>1, <2>3, <2>4 DEF HonestAt, Heard
  <2>6. \A u \in Threads \ {t} : Same(u)
    BY <1>2, <2>3 DEF Begin, Started, TypeOK
  <2> QED
    BY <1>0, <2>5, <2>6 DEF Honest
<1>3. ASSUME NEW t \in Threads, Reductions(t) PROVE Honest'
  <2>1. Reduced(t) /\ Told(t) /\ Yielded(t)
    BY <1>3, ReductionsReduce, ReductionsSay
  <2>2. /\ pc[t] \in Reading
        /\ pos[t] \in Nat \ {0} /\ pos'[t] = pos[t] + 1
        /\ pc'[t] = IF pos[t] = Len(text[t]) THEN "end" ELSE "declare"
        /\ \A u \in Threads \ {t} : pc'[u] = pc[u] /\ pos'[u] = pos[u]
        /\ UNCHANGED <<text, wanted, listing, heap>>
    BY <2>1 DEF Reduced, TypeOK
  <2>3. Heard(t) /\ (heap[t] => "fault" \in mishaps[t])
    BY <2>2 DEF Honest, HonestAt
  <2>4. Heard(t)' /\ (heap'[t] => "fault" \in mishaps'[t])
    BY <2>1, <2>2, <2>3 DEF Heard, Told
  <2>5. pos'[t] - 1 = pos[t] /\ pos'[t] > 1
    BY <2>2
  <2>6. ~heap'[t] => \A a, b \in built'[t] : a = b
    BY <2>1, <2>2 DEF Honest, HonestAt, Yielded
  <2>7. /\ rule'[t] # NoRule \/ mishaps'[t] \cap {"error", "unresolved", "fault"} # {}
        /\ WholeAt(rule'[t], pos'[t] - 1) \/ mishaps'[t] # {}
    BY <2>1, <2>5 DEF Yielded
  <2>8. /\ pc'[t] = "end" => pos'[t] = Len(text'[t]) + 1
        /\ pc'[t] # "recover"
    BY <2>2
  <2>9. HonestAt(t)'
    BY <2>4, <2>5, <2>6, <2>7, <2>8 DEF HonestAt, WholeAt
  <2>10. \A u \in Threads \ {t} : Same(u)
    BY <2>1, <2>2 DEF Told, Yielded
  <2> QED
    BY <1>0, <2>9, <2>10 DEF Honest
<1>4. ASSUME NEW t \in Threads, FindTemplate(t) PROVE Honest'
  <2>1. /\ pc[t] = "declare" /\ pc' = [pc EXCEPT ![t] = "copy"]
        /\ UNCHANGED <<text, pos, wanted, listing, heap, rule, listed, mishaps, built>>
    BY <1>4 DEF FindTemplate, At, inputVars, noteVars, memVars
  <2>2. \A u \in Threads \ {t} : Same(u)
    BY <2>1 DEF TypeOK
  <2>3. HonestAt(t)'
    BY <2>1 DEF Honest, HonestAt, Heard, WholeAt, TypeOK
  <2> QED
    BY <1>0, <2>2, <2>3 DEF Honest
<1>5. ASSUME NEW t \in Threads, EndParse(t) \/ Own(t) PROVE Honest'
  <2>1. /\ pc'[t] \in {"idle", "clear"} /\ \A u \in Threads \ {t} : pc'[u] = pc[u]
        /\ UNCHANGED <<text, pos, wanted, listing, heap, listed, mishaps>>
    BY <1>5 DEF EndParse, Own, FreeRule, Register, UnlinkTemplates, FreeTemplates, Holding,
                ownerVars, inputVars, valueVars, noteVars, memVars, TypeOK
  <2>2. /\ \A u \in Threads \ {t} : rule'[u] = rule[u] /\ built'[u] = built[u]
        /\ built'[t] = built[t] \/ built'[t] = {}
    BY <1>5 DEF EndParse, Own, FreeRule, Register, UnlinkTemplates, FreeTemplates,
                ownerVars, inputVars, valueVars, noteVars, memVars, TypeOK
  <2>3. HonestAt(t)'
    BY <2>1, <2>2 DEF Honest, HonestAt
  <2> QED
    BY <1>0, <2>1, <2>2, <2>3 DEF Honest
<1>6. CASE UNCHANGED vars
  <2>1. \A u \in Threads : Same(u)
    BY <1>6 DEF vars, inputVars, valueVars, noteVars, memVars
  <2> QED
    BY <1>0, <2>1 DEF Honest
<1>7. ASSUME NEW t \in Threads, SyntaxError(t) PROVE Honest'
  <2>1. /\ pc[t] = "declare" /\ pc' = [pc EXCEPT ![t] = "recover"]
        /\ UNCHANGED <<text, pos, wanted, listing, heap, rule>>
    BY <1>7 DEF SyntaxError, At, inputVars, valueVars
  <2>2. built' = built
    BY <1>7 DEF SyntaxError, Allocate, TypeOK
  <2>3. /\ \A u \in Threads \ {t} : mishaps'[u] = mishaps[u] /\ listed'[u] = listed[u]
        /\ mishaps[t] \subseteq mishaps'[t] /\ "error" \in mishaps'[t]
        /\ listed'[t] = listing[t] \/ "fault" \in mishaps'[t]
    <3>1. CASE ListError(t) /\ Mishap(t, "error")
      BY <3>1 DEF ListError, Mishap, TypeOK
    <3>2. CASE UNCHANGED listed /\ mishaps' = [mishaps EXCEPT ![t] = @ \cup {"error", "fault"}]
      BY <3>2 DEF TypeOK
    <3> QED
      BY <1>7, <3>1, <3>2 DEF SyntaxError
  <2>4. \A u \in Threads \ {t} : Same(u)
    BY <2>1, <2>2, <2>3 DEF TypeOK
  <2>5. Heard(t)'
    BY <2>1, <2>3 DEF Heard, Honest, HonestAt
  <2>6. pc'[t] = "recover"
    BY <2>1 DEF TypeOK
  <2>7. HonestAt(t)'
    BY <2>1, <2>2, <2>3, <2>5, <2>6 DEF Honest, HonestAt, WholeAt
  <2> QED
    BY <1>0, <2>4, <2>7 DEF Honest
<1>8. ASSUME NEW t \in Threads, Crash(t) PROVE Honest'
  BY <1>8 DEF Crash, inputVars, valueVars, noteVars, memVars, Honest, HonestAt
<1> QED
  BY <1>1, <1>2, <1>3, <1>4, <1>5, <1>6, <1>7, <1>8, Moves

LEMMA Honesty == Spec => [](IInv /\ Honest)
<1>1. Init => Honest
  BY StoreOfOne DEF Init, Honest, HonestAt, Busy, Reading
<1> QED
  BY <1>1, HonestStep, InitHolds, IInvStep, PTL DEF Spec

\* The rule that cdsl_parse_string returns is the last one of the text, whole,
\* or the caller hears otherwise, for any texts parsed by any threads.
THEOREM HonestReturns == Spec => ReturnsAreHonest
<1>1. ASSUME IInv, Honest, [Next]_vars, NEW t \in Threads, pc[t] = "end", pc'[t] = "idle"
      PROVE  \/ held'[t] # NoRule /\ held'[t].whole /\ held'[t].at = Len(text[t])
             \/ listed[t]
             \/ ~wanted[t] /\ held'[t] = NoRule /\ "error" \in mishaps[t]
             \/ mishaps[t] \cap {"unresolved", "inherited", "fault"} # {}
  <2>1. EndParse(t)
    <3>1. PICK u \in Threads :
             \/ \E s \in Texts, errors \in BOOLEAN : Refuse(u, s, errors) \/ Begin(u, s, errors)
             \/ Reductions(u) \/ SyntaxError(u) \/ Crash(u) \/ FindTemplate(u) \/ EndParse(u) \/ Own(u)
      BY <1>1, Moves DEF vars
    <3>0. ~Crash(u)
      BY <1>1 DEF Crash
    <3>2. u = t
      <4> SUFFICES ASSUME u # t PROVE pc'[t] = pc[t]
        BY <1>1
      <4>1. Reductions(u) => pc'[t] = pc[t]
        BY <1>1, ReductionsReduce DEF IInv, Reduced, TypeOK
      <4>2. \A s, errors : Refuse(u, s, errors) \/ Begin(u, s, errors) => pc'[t] = pc[t]
        BY <1>1 DEF IInv, TypeOK, Refuse, Begin, Goto
      <4>3. FindTemplate(u) \/ SyntaxError(u) \/ EndParse(u) \/ Own(u) => pc'[t] = pc[t]
        BY <1>1 DEF IInv, TypeOK, FindTemplate, SyntaxError, EndParse, Own, FreeRule, Register, UnlinkTemplates,
                    FreeTemplates, Goto, ownerVars
      <4> QED
        BY <3>1, <3>0, <4>1, <4>2, <4>3
    <3>3. ~Reductions(t)
      BY <1>1, ReductionsReduce DEF IInv, Reduced, Reading
    <3>4. \A s, errors : ~Refuse(t, s, errors) /\ ~Begin(t, s, errors)
      BY <1>1 DEF Refuse, Begin, Started
    <3>5. ~FindTemplate(t) /\ ~SyntaxError(t) /\ ~Own(t)
      BY <1>1 DEF FindTemplate, SyntaxError, At, Own, FreeRule, Register, UnlinkTemplates, FreeTemplates, Holding
    <3> QED
      BY <3>0, <3>1, <3>2, <3>3, <3>4, <3>5
  <2>2. /\ Heard(t) /\ pos[t] > 1 /\ pos[t] = Len(text[t]) + 1 /\ Len(text[t]) \in Nat
        /\ WholeAt(rule[t], pos[t] - 1) \/ mishaps[t] # {}
    <3>1. Len(text[t]) \in Nat
      BY <1>1, LenProperties DEF IInv, TypeOK
    <3> QED
      BY <1>1, <3>1 DEF Honest, HonestAt, Busy
  <2>3. held'[t] = Given(t)
    BY <1>1, <2>1 DEF EndParse, IInv, TypeOK
  <2>4. CASE Failing(t)
    <3>1. CASE "fault" \in mishaps[t]
      BY <3>1
    <3>2. CASE "fault" \notin mishaps[t] /\ wanted[t]
      BY <2>2, <2>4, <3>2 DEF Heard, Failing
    <3>3. CASE ~wanted[t]
      BY <2>3, <2>4, <3>3 DEF Given, GivenUp, Failing
    <3> QED
      BY <3>1, <3>2, <3>3
  <2>5. CASE ~Failing(t) /\ mishaps[t] # {}
    BY <1>1, <2>5 DEF Failing, IInv, TypeOK, Mishaps
  <2>6. CASE ~Failing(t) /\ WholeAt(rule[t], pos[t] - 1)
    <3>1. held'[t] = rule[t] /\ pos[t] - 1 = Len(text[t])
      BY <2>2, <2>3, <2>6 DEF Given, GivenUp
    <3> QED
      BY <2>6, <3>1 DEF WholeAt
  <2> QED
    BY <2>2, <2>4, <2>5, <2>6
<1>2. IInv /\ Honest /\ [Next]_vars =>
        \A t \in Threads : pc[t] = "end" /\ pc'[t] = "idle" =>
             \/ held'[t] # NoRule /\ held'[t].whole /\ held'[t].at = Len(text[t])
             \/ listed[t]
             \/ ~wanted[t] /\ held'[t] = NoRule /\ "error" \in mishaps[t]
             \/ mishaps[t] \cap {"unresolved", "inherited", "fault"} # {}
  BY <1>1
<1> QED
  BY <1>2, Honesty, PTL DEF Spec, ReturnsAreHonest

\* A store is lost for good only where memory ran out, or with a text that
\* names an unknown template and yields neither a rule nor an error.
THEOREM KnownLeaks == Spec => LeaksAreKnown
<1>1. ASSUME IInv, Honest, [Next]_vars, lost' # lost
      PROVE  faults' > faults \/ \E t \in Threads : pc'[t] # pc[t] /\ Excused(t)
  <2>1. PICK t \in Threads :
             \/ \E s \in Texts, errors \in BOOLEAN : Refuse(t, s, errors) \/ Begin(t, s, errors)
             \/ Reductions(t) \/ SyntaxError(t) \/ Crash(t) \/ FindTemplate(t) \/ EndParse(t) \/ Own(t)
    BY <1>1, Moves DEF vars, memVars
  <2>2. CASE Reductions(t)
    BY <1>1, <2>2, ReductionsSay DEF IInv, Yielded
  <2>3. CASE EndParse(t)
    <3>1. /\ pc[t] = "end" /\ pc'[t] = "idle"
          /\ lost' = lost \cup (built[t] \ (Freed(t) \cup StoreOf(Given(t))))
      BY <1>1, <2>3 DEF EndParse, Goto, IInv, TypeOK
    <3>2. /\ ~heap[t] => \A a, b \in built[t] : a = b
          /\ heap[t] => "fault" \in mishaps[t]
          /\ rule[t] # NoRule \/ mishaps[t] \cap {"error", "unresolved", "fault"} # {}
          /\ StoreOf(rule[t]) \subseteq built[t]
      BY <1>1, <3>1 DEF Honest, HonestAt, Busy, IInv, Parsing
    <3>3. ASSUME ~heap[t], rule[t] # NoRule PROVE FALSE
      <4>1. StoreOf(rule[t]) = Freed(t) \cup StoreOf(Given(t))
        BY <3>3, StoreOfOne DEF Freed, Given
      <4>2. built[t] = StoreOf(rule[t])
        <5>1. PICK s : StoreOf(rule[t]) = {s}
          BY <3>3 DEF StoreOf
        <5> QED
          BY <3>2, <3>3, <5>1
      <4> QED
        BY <1>1, <3>1, <4>1, <4>2
    <3>4. ASSUME ~heap[t], rule[t] = NoRule PROVE ~Failing(t)
      BY <1>1, <3>1, <3>4 DEF Freed
    <3>5. Excused(t)
      BY <3>1, <3>2, <3>3, <3>4 DEF Failing, Excused
    <3> QED
      BY <3>1, <3>5
  <2>4. CASE Register(t)
    BY <1>1, <2>4 DEF Register, Fault, IInv, TypeOK
  <2>5. CASE FindTemplate(t) \/ FreeRule(t) \/ UnlinkTemplates(t) \/ FreeTemplates(t) \/ Crash(t)
    BY <1>1, <2>5 DEF FindTemplate, FreeRule, UnlinkTemplates, FreeTemplates, Crash, memVars
  <2>6. CASE \E s \in Texts, errors \in BOOLEAN : Refuse(t, s, errors) \/ Begin(t, s, errors)
    BY <1>1, <2>6 DEF Refuse, Begin, Started
  <2>7. CASE SyntaxError(t)
    <3>1. pc[t] = "declare" /\ pc'[t] = "recover"
      BY <1>1, <2>7 DEF SyntaxError, At, Goto, IInv, TypeOK
    <3>2. heap[t]
      BY <1>1, <2>7 DEF SyntaxError, Leavings, Allocate
    <3>3. Excused(t)
      BY <1>1, <3>1, <3>2 DEF Honest, HonestAt, Busy, Reading, Excused
    <3> QED
      BY <3>1, <3>3
  <2> QED
    BY <2>1, <2>2, <2>3, <2>4, <2>5, <2>6, <2>7 DEF Own
<1>2. IInv /\ Honest /\ [Next]_vars =>
        (lost' # lost => faults' > faults \/ \E t \in Threads : pc'[t] # pc[t] /\ Excused(t))
  BY <1>1
<1> QED
  BY <1>2, Honesty, PTL DEF Spec, LeaksAreKnown
=============================================================================
