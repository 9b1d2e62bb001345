--------------------------- MODULE Pairing_proofs ---------------------------
(***************************************************************************)
(* The credentials of an account, for any number of tokens, flows and late *)
(* writes.  The types hold under every race.  Under Calm, one flow at a    *)
(* time at work on an entry that does not go away under it, begun with the *)
(* credentials of the token that works if some store has them, the         *)
(* doorbell does not go silent unnoticed.                                  *)
(*                                                                         *)
(* The argument: Google replaces a token only when the credentials that    *)
(* gave it are dead, so whoever holds another token than the one Intratone *)
(* pushes to holds one that is dead, or a flow is about to move the        *)
(* pushes and no store has a token that works.  That is why it does no     *)
(* harm when the running entry, or an entry before it, puts back a token   *)
(* that a flow has replaced: what the listener then registers is not the   *)
(* token in its store, and _check_token_registration raises the repair.    *)
(***************************************************************************)
EXTENDS Pairing, TLAPS

\* The condition of the safety theorem.
Calm == Races = {}

\* Credentials that give another token than the one stored have replaced it.
Sound(r) == r.token # None /\ r.creds # None /\ (r.creds # r.token => r.token \in dead)

\* What is there without an entry, and whose listener runs.
EntryInv ==
    /\ entry # "loaded" => fcm = Off
    /\ entry = "none" => cache = NoCreds /\ writing = NoCreds /\ rotated = None /\ late = {}
    /\ entry = "none" => AtWork = {}

StoresInv ==
    /\ \A s \in Stores : s # NoCreds => Sound(s)
    /\ NoCreds \notin late
    /\ entry # "none" => file # NoCreds /\ target # None
    /\ entry = "loaded" => cache # NoCreds
    /\ rotated # None => cache # NoCreds /\ cache.creds \in dead

\* A token that Intratone does not push to is dead, whoever holds it.
TargetInv == entry # "none" => \A s \in Stores : s.token \in dead \union {target, None}

Writes == {"save", "video"}

\* A pairing has the account to itself from its check on.
PairInv ==
    \A f \in Flows : flow[f].kind = "pair" =>
        /\ flow[f].pc \in {"register", "auth", "check"} \union Writes =>
               flow[f].token # None /\ flow[f].creds = flow[f].token
        /\ flow[f].pc \in Writes =>
               entry = "none" /\ \A g \in Flows \ {f} : flow[g].pc \notin Writes
        /\ flow[f].pc = "video" => file = [token |-> flow[f].token, creds |-> flow[f].creds]

\* No store has a token that works.
Stale == \A s \in Stores : s.token \in dead \union {None}

AgainInv ==
    \A f \in Flows : flow[f].kind \in Again =>
        /\ flow[f].pc = "fcm" => flow[f].creds = target \/ Stale
        /\ flow[f].pc = "register" =>
               /\ flow[f].token # None /\ flow[f].creds = flow[f].token
               /\ flow[f].token = target \/ Stale
        /\ flow[f].pc \in {"auth", "check", "save"} =>
               flow[f].token = target /\ flow[f].creds = target

\* What a silent reauth is about to write back.
SilentInv ==
    \A f \in Flows : flow[f].kind = "silent" /\ flow[f].pc = "save" =>
        Sound(flow[f]) /\ flow[f].token \in dead \union {target}

\* Where a flow of each kind can be.
StepsInv ==
    \A f \in Flows :
        /\ flow[f].pc = "video" => flow[f].kind = "pair"
        /\ flow[f].pc = "load" => flow[f].kind = "silent"
        /\ flow[f].pc = "saved" => flow[f].kind # "pair"
        /\ flow[f].kind = "silent" => flow[f].pc \in {"form", "auth", "load", "save", "saved"}

OneAtWork == \A f, g \in AtWork : f = g

\* The repair is what the last check of the token found.
CheckedInv ==
    fcm.pc = "up" /\ ~reload => (issue <=> cache.token # None /\ fcm.live # cache.token)

Laws ==
    /\ EntryInv
    /\ StoresInv
    /\ TargetInv
    /\ PairInv
    /\ AgainInv
    /\ SilentInv
    /\ StepsInv
    /\ OneAtWork
    /\ CheckedInv

Inv == TypeOK /\ Laws
-----------------------------------------------------------------------------
(* Types.                                                                  *)

FlowType == [pc : Steps, kind : Kinds, creds : 0 .. issued, token : 0 .. issued]

LEMMA TypeFacts ==
    ASSUME TypeOK
    PROVE  /\ issued \in Nat /\ issued <= MaxTokens /\ MaxTokens \in Nat /\ Reserved \in Nat
           /\ None \in 0 .. issued /\ NoCreds \in Creds
           /\ Off \in [pc : {"off", "registering", "login", "up"}, live : 0 .. issued]
           /\ cache.creds \in 0 .. issued /\ cache.token \in 0 .. issued
           /\ file.creds \in 0 .. issued /\ file.token \in 0 .. issued
           /\ writing \in Creds /\ late \subseteq Creds
           /\ \A f \in Flows :
                flow[f] \in FlowType /\ flow[f].pc \in Steps /\ flow[f].kind \in Kinds
                /\ flow[f].creds \in 0 .. issued /\ flow[f].token \in 0 .. issued
<1>1. issued \in 0 .. MaxTokens /\ MaxTokens \in Nat /\ Reserved \in Nat
  BY TokensAssumption DEF TypeOK
<1>2. None \in 0 .. issued /\ NoCreds \in Creds
  BY <1>1 DEF None, NoCreds, Creds
<1>3. Off \in [pc : {"off", "registering", "login", "up"}, live : 0 .. issued]
  BY <1>2 DEF Off
<1>4. writing \in Creds /\ file \in Creds /\ cache \in Creds /\ late \subseteq Creds
  BY <1>2 DEF TypeOK
<1>5. \A f \in Flows : flow[f] \in FlowType
  BY DEF TypeOK, FlowType
<1> QED
  BY <1>1, <1>2, <1>3, <1>4, <1>5 DEF Creds, FlowType

LEMMA InitType == Init => TypeOK
<1> SUFFICES ASSUME Init PROVE TypeOK
  OBVIOUS
<1>1. issued = 0 /\ dead = {} /\ target = 0 /\ rotated = 0 /\ entry = "none"
  BY DEF Init, None
<1>2. None \in 0 .. issued /\ issued \in 0 .. MaxTokens
  BY <1>1, TokensAssumption DEF None
<1>3. NoCreds \in Creds
  BY <1>2 DEF NoCreds, Creds
<1>4. file \in Creds /\ cache \in Creds /\ writing \in Creds
  BY <1>3 DEF Init
<1>5. fcm \in [pc : {"off", "registering", "login", "up"}, live : 0 .. issued]
  BY <1>2 DEF Init
<1>6. flow \in [Flows -> [pc : Steps, kind : Kinds, creds : 0 .. issued, token : 0 .. issued]]
  BY <1>2 DEF Init, Blank, Kinds, Steps
<1>7. issue \in BOOLEAN /\ reload \in BOOLEAN /\ late = {}
  BY DEF Init
<1> QED
  BY <1>1, <1>2, <1>4, <1>5, <1>6, <1>7 DEF TypeOK

\* Google issues its tokens in order.
LEMMA RegistersType ==
    ASSUME TypeOK, NEW creds \in 0 .. issued, NEW token \in Tokens,
           NEW limit \in 0 .. MaxTokens, Registers(creds, token, limit)
    PROVE  /\ issued' \in 0 .. MaxTokens /\ issued <= issued' /\ token \in 1 .. issued'
           /\ 0 .. issued \subseteq 0 .. issued' /\ 1 .. issued \subseteq 1 .. issued'
BY TypeFacts DEF TypeOK, Registers, Tokens, None

\* With more tokens, what was of its type still is.
LEMMA MoreTokens ==
    ASSUME TypeOK, 0 .. issued \subseteq 0 .. issued'
    PROVE  Creds \subseteq Creds' /\ FlowType \subseteq FlowType'
BY DEF Creds, FlowType

LEMMA SameTokens ==
    ASSUME UNCHANGED issued
    PROVE  Creds' = Creds /\ FlowType' = FlowType
BY DEF Creds, FlowType

LEMMA ListenerType == TypeOK /\ Listener => TypeOK'
<1> SUFFICES ASSUME TypeOK, Listener PROVE TypeOK'
  OBVIOUS
<1>1. CASE ListenerRegisters
  <2>1. PICK token \in Tokens :
          /\ Registers(cache.creds, token, MaxTokens)
          /\ fcm' = [pc |-> "login", live |-> token]
          /\ rotated' = IF token = cache.creds THEN rotated ELSE token
    BY <1>1 DEF ListenerRegisters
  <2>2. /\ issued' \in 0 .. MaxTokens /\ token \in 1 .. issued'
        /\ 0 .. issued \subseteq 0 .. issued' /\ 1 .. issued \subseteq 1 .. issued'
    BY <2>1, RegistersType, TypeFacts
  <2>3. Creds \subseteq Creds' /\ FlowType \subseteq FlowType'
    BY <2>2, MoreTokens
  <2>4. flow' \in [Flows -> FlowType'] /\ cache' \in Creds' /\ file' \in Creds' /\ writing' \in Creds'
        /\ late' \subseteq Creds'
    BY <1>1, <2>3, TypeFacts DEF ListenerRegisters, TypeOK, FlowType
  <2>5. rotated' \in 0 .. issued'
    BY <2>1, <2>2 DEF TypeOK
  <2>6. fcm' \in [pc : {"off", "registering", "login", "up"}, live : 0 .. issued']
    BY <2>1, <2>2
  <2> QED
    BY <1>1, <2>2, <2>4, <2>5, <2>6 DEF ListenerRegisters, TypeOK, FlowType
<1>2. CASE TokenChecked
  <2>1. issue' \in BOOLEAN
    BY <1>2, Zenon DEF TokenChecked
  <2> QED
    <3>1. fcm' \in [pc : {"off", "registering", "login", "up"}, live : 0 .. issued]
      BY <1>2 DEF TokenChecked, TypeOK
    <3> QED
      BY <1>2, <2>1, <3>1, SameTokens DEF TokenChecked, Kept, TypeOK, google
<1>3. CASE ListenerCrashes
  BY <1>3, TypeFacts, SameTokens DEF ListenerCrashes, TypeOK, running, google, None
<1> QED
  BY <1>1, <1>2, <1>3 DEF Listener

LEMMA StoreType == TypeOK /\ Store => TypeOK'
<1> SUFFICES ASSUME TypeOK, Store PROVE TypeOK'
  OBVIOUS
<1>1. CASE PersistCreds
  <2>1. cache' \in Creds /\ writing' \in Creds
    BY <1>1, TypeFacts DEF PersistCreds, TypeOK, Creds
  <2> QED
    BY <1>1, <2>1, TypeFacts, SameTokens DEF PersistCreds, TypeOK, google, None
<1>2. CASE JwtRefreshed \/ Written \/ LateSave
  BY <1>2, TypeFacts, SameTokens DEF JwtRefreshed, Written, LateSave, TypeOK, google
<1> QED
  BY <1>1, <1>2 DEF Store

\* What outlives an entry was in its store.
LEMMA OutlivesType ==
    ASSUME TypeOK, Outlives
    PROVE  late' \subseteq Creds /\ writing' \in Creds /\ rotated' \in 0 .. issued
<1>1. [cache EXCEPT !.creds = IF rotated = None THEN @ ELSE rotated] \in Creds
  BY TypeFacts DEF TypeOK, Creds
<1>2. Unfinished \subseteq Creds
  BY <1>1, TypeFacts DEF Unfinished, TypeOK
<1> QED
  BY <1>2, TypeFacts DEF Outlives, NothingPending

LEMMA LifecycleType == TypeOK /\ Lifecycle => TypeOK'
<1> SUFFICES ASSUME TypeOK, Lifecycle PROVE TypeOK'
  OBVIOUS
<1>2. CASE Setup
  BY <1>2, TypeFacts, OutlivesType, SameTokens DEF Setup, TypeOK, google, None
<1>3. CASE Unload
  BY <1>3, TypeFacts, SameTokens DEF Unload, TypeOK, google, running
<1>4. CASE Crash
  <2>1. flow' \in [Flows -> FlowType]
    BY <1>4, TypeFacts DEF Crash, Blank, FlowType, Steps, Kinds
  <2> QED
    BY <1>4, <2>1, TypeFacts DEF Crash, Ended, NothingPending, TypeOK, google, FlowType, Creds
<1>5. CASE Remove
  <2>1. late' \subseteq Creds /\ writing' \in Creds /\ rotated' \in 0 .. issued
    BY <1>5, TypeFacts, OutlivesType DEF Remove, Ended, NothingPending
  <2> QED
    BY <1>5, <2>1, TypeFacts, SameTokens DEF Remove, TypeOK, google, None
<1> QED
  BY <1>2, <1>3, <1>4, <1>5 DEF Lifecycle

\* A step of a flow that only moves it.
LEMMA GoesType ==
    ASSUME TypeOK, NEW f \in Flows, NEW step \in Steps, Goes(f, step)
    PROVE  /\ flow' \in [Flows -> FlowType]
           /\ flow'[f] = [flow[f] EXCEPT !.pc = step]
           /\ flow'[f].pc = step /\ flow'[f].kind = flow[f].kind
           /\ flow'[f].token = flow[f].token /\ flow'[f].creds = flow[f].creds
           /\ \A g \in Flows \ {f} : flow'[g] = flow[g]
BY TypeFacts DEF TypeOK, FlowType, Goes

\* A flow that leaves its form blank.
LEMMA ForgetsType ==
    ASSUME TypeOK, NEW f \in Flows, Forgets(f)
    PROVE  /\ flow' \in [Flows -> FlowType]
           /\ flow'[f] = Blank
           /\ \A g \in Flows \ {f} : flow'[g] = flow[g]
<1>1. Blank \in FlowType
  BY TypeFacts DEF Blank, FlowType, Steps, Kinds
<1> QED
  BY <1>1 DEF TypeOK, FlowType, Forgets

\* A flow that is given credentials and a token is nowhere else changed.
LEMMA SetsType ==
    ASSUME TypeOK, NEW f \in Flows, NEW r \in FlowType', 0 .. issued \subseteq 0 .. issued',
           flow' = [flow EXCEPT ![f] = r]
    PROVE  /\ flow' \in [Flows -> FlowType']
           /\ flow'[f] = r
           /\ \A g \in Flows \ {f} : flow'[g] = flow[g]
<1>1. flow \in [Flows -> FlowType']
  BY TypeFacts, MoreTokens DEF TypeOK, FlowType
<1> QED
  BY <1>1

\* What a submitted form starts.
LEMMA SubmitStarts ==
    ASSUME TypeOK, NEW f \in Flows, Submit(f)
    PROVE  \E kind \in Kinds :
             /\ Offered(kind)
             /\ "flows" \in Races \/ kind = "pair" \/ AtWork = {}
             /\ "behind" \in Races \/ kind \notin Again \/ ~Behind
             /\ flow'[f] = [pc |-> IF kind = "silent" THEN "auth" ELSE "fcm", kind |-> kind,
                            token |-> None, creds |-> IF kind \in Again THEN file.creds ELSE None]
             /\ flow'[f].pc = IF kind = "silent" THEN "auth" ELSE "fcm"
             /\ flow'[f].kind = kind
             /\ flow'[f].token = None
             /\ flow'[f].creds = IF kind \in Again THEN file.creds ELSE None
             /\ flow' \in [Flows -> FlowType]
             /\ \A g \in Flows \ {f} : flow'[g] = flow[g]
<1>1. PICK kind \in Kinds :
        /\ Offered(kind)
        /\ "flows" \in Races \/ kind = "pair" \/ AtWork = {}
        /\ "behind" \in Races \/ kind \notin Again \/ ~Behind
        /\ flow' = [flow EXCEPT ![f] =
               [pc |-> IF kind = "silent" THEN "auth" ELSE "fcm", kind |-> kind,
                token |-> None, creds |-> IF kind \in Again THEN file.creds ELSE None]]
  BY DEF Submit
<1> DEFINE r == [pc |-> IF kind = "silent" THEN "auth" ELSE "fcm", kind |-> kind,
                 token |-> None, creds |-> IF kind \in Again THEN file.creds ELSE None]
<1>2. r \in FlowType
  BY TypeFacts DEF FlowType, Steps
<1>3. UNCHANGED issued
  BY DEF Submit, google
<1>4. FlowType' = FlowType
  BY <1>3, SameTokens
<1> HIDE DEF r
<1>5. flow' = [flow EXCEPT ![f] = r]
  BY <1>1 DEF r
<1>6. flow' \in [Flows -> FlowType] /\ flow'[f] = r /\ \A g \in Flows \ {f} : flow'[g] = flow[g]
  BY <1>2, <1>3, <1>4, <1>5, SetsType
<1> QED
  BY <1>1, <1>6 DEF r

\* What the registration of a flow brings it.
LEMMA FlowRegistersToken ==
    ASSUME TypeOK, NEW f \in Flows, FlowRegisters(f)
    PROVE  \E token \in 1 .. issued' :
             /\ Registers(flow[f].creds, token, MaxTokens - Reserved)
             /\ flow'[f].pc = "register" /\ flow'[f].kind = flow[f].kind
             /\ flow'[f].token = token /\ flow'[f].creds = token
             /\ flow' \in [Flows -> FlowType']
             /\ \A g \in Flows \ {f} : flow'[g] = flow[g]
             /\ issued' \in 0 .. MaxTokens
             /\ 0 .. issued \subseteq 0 .. issued' /\ 1 .. issued \subseteq 1 .. issued'
<1>1. PICK token \in Tokens :
        /\ Registers(flow[f].creds, token, MaxTokens - Reserved)
        /\ flow' = [flow EXCEPT ![f].pc = "register", ![f].token = token, ![f].creds = token]
  BY DEF FlowRegisters
<1>2. MaxTokens - Reserved \in 0 .. MaxTokens
  BY TokensAssumption
<1>3. /\ issued' \in 0 .. MaxTokens /\ token \in 1 .. issued'
      /\ 0 .. issued \subseteq 0 .. issued' /\ 1 .. issued \subseteq 1 .. issued'
  BY <1>1, <1>2, RegistersType, TypeFacts
<1> DEFINE r == [flow[f] EXCEPT !.pc = "register", !.token = token, !.creds = token]
<1>4. r \in FlowType'
  <2>1. flow[f] \in FlowType'
    BY <1>3, TypeFacts, MoreTokens
  <2>2. token \in 0 .. issued' /\ "register" \in Steps
    BY <1>3 DEF Steps
  <2> QED
    BY <2>1, <2>2 DEF FlowType
<1>5. flow' = [flow EXCEPT ![f] = r]
  BY <1>1 DEF TypeOK
<1> HIDE DEF r
<1>6. flow' \in [Flows -> FlowType'] /\ flow'[f] = r /\ \A g \in Flows \ {f} : flow'[g] = flow[g]
  BY <1>3, <1>4, <1>5, SetsType
<1> QED
  BY <1>1, <1>3, <1>6, TypeFacts DEF r, FlowType

LEMMA LoadedFlow ==
    ASSUME TypeOK, NEW f \in Flows, Load(f)
    PROVE  /\ flow' \in [Flows -> FlowType]
           /\ flow'[f].pc = "save" /\ flow'[f].kind = flow[f].kind
           /\ flow'[f].token = file.token /\ flow'[f].creds = file.creds
           /\ \A g \in Flows \ {f} : flow'[g] = flow[g]
BY TypeFacts DEF Load, TypeOK, FlowType, Steps

LEMMA FlowStepType == TypeOK /\ (\E f \in Flows : Flow(f)) => TypeOK'
<1> SUFFICES ASSUME TypeOK, NEW f \in Flows, Flow(f) PROVE TypeOK'
  OBVIOUS
<1>1. CASE Submit(f)
  <2>1. flow' \in [Flows -> FlowType]
    BY <1>1, SubmitStarts
  <2> QED
    BY <1>1, <2>1, SameTokens DEF Submit, TypeOK, google, running, FlowType
<1>2. CASE FlowRegisters(f)
  <2>1. /\ flow' \in [Flows -> FlowType']
        /\ issued' \in 0 .. MaxTokens
        /\ 0 .. issued \subseteq 0 .. issued' /\ 1 .. issued \subseteq 1 .. issued'
    BY <1>2, FlowRegistersToken
  <2>2. Creds \subseteq Creds'
    BY <2>1, MoreTokens
  <2>3. fcm' \in [pc : {"off", "registering", "login", "up"}, live : 0 .. issued']
    BY <1>2, <2>1 DEF FlowRegisters, TypeOK
  <2>4. /\ file' \in Creds' /\ cache' \in Creds' /\ writing' \in Creds'
        /\ rotated' \in 0 .. issued' /\ target' \in 0 .. issued' /\ late' \subseteq Creds'
    BY <1>2, <2>1, <2>2, TypeFacts DEF FlowRegisters, TypeOK, running
  <2> QED
    BY <1>2, <2>1, <2>3, <2>4 DEF FlowRegisters, TypeOK, FlowType
<1>3. CASE RegisterCodes(f) \/ CreateEntry(f)
  <2>1. flow' \in [Flows -> FlowType] /\ UNCHANGED issued
    BY <1>3, GoesType, ForgetsType DEF RegisterCodes, CreateEntry, google, Steps
  <2> QED
    BY <1>3, <2>1, TypeFacts, SameTokens DEF RegisterCodes, CreateEntry, TypeOK, google, running, FlowType
<1>4. CASE Authenticated(f) \/ GivesUp(f) \/ UniqueId(f) \/ Finish(f)
  <2>1. flow' \in [Flows -> FlowType] /\ UNCHANGED issued
    BY <1>4, GoesType, ForgetsType DEF Authenticated, GivesUp, UniqueId, Finish, AfterAuth, google, Steps
  <2>2. issue' \in BOOLEAN /\ reload' \in BOOLEAN
    BY <1>4, Zenon DEF Authenticated, GivesUp, UniqueId, Finish, TypeOK, Scheduled
  <2> QED
    BY <1>4, <2>1, <2>2, SameTokens
    DEF Authenticated, GivesUp, UniqueId, Finish, TypeOK, google, running, FlowType
<1>5. CASE Load(f)
  BY <1>5, LoadedFlow, SameTokens DEF Load, TypeOK, google, running, FlowType
<1>6. CASE Save(f)
  <2>1. flow' \in [Flows -> FlowType] /\ UNCHANGED issued
    BY <1>6, GoesType DEF Save, google, Steps
  <2>2. file' \in Creds
    BY <1>6, TypeFacts DEF Save, Creds
  <2> QED
    BY <1>6, <2>1, <2>2, SameTokens DEF Save, TypeOK, google, running, FlowType
<1> QED
  BY <1>1, <1>2, <1>3, <1>4, <1>5, <1>6 DEF Flow

\* The variables keep their types, under every race.
THEOREM TypeCorrect == Spec => []TypeOK
<1>1. TypeOK /\ [Next]_vars => TypeOK'
  <2> SUFFICES ASSUME TypeOK, [Next]_vars PROVE TypeOK'
    OBVIOUS
  <2>1. CASE Rotate
    BY <2>1, SameTokens DEF Rotate, TypeOK, running
  <2>2. CASE UNCHANGED vars
    BY <2>2, SameTokens DEF vars, google, running, TypeOK
  <2> QED
    BY <2>1, <2>2, ListenerType, StoreType, LifecycleType, FlowStepType DEF Next
<1> QED
  BY <1>1, InitType, PTL DEF Spec
-----------------------------------------------------------------------------
(***************************************************************************)
(* The laws, action by action.                                             *)
(***************************************************************************)

\* At first there is no entry.
LEMMA InitLaws ==
    ASSUME Init
    PROVE  Laws
<1>1. EntryInv
  BY DEF EntryInv, AtWork, Init, Off, Blank
<1>2. StoresInv
  BY DEF Stores, NoCreds, StoresInv, Sound, Init, Blank, Off
<1>3. TargetInv
  BY DEF Stores, NoCreds, TargetInv, Init, Blank
<1>4. PairInv
  BY DEF PairInv, Init, Blank, Writes
<1>5. AgainInv
  BY DEF Stores, NoCreds, AgainInv, Stale, Init, Blank
<1>6. SilentInv
  BY DEF SilentInv, Sound, Init, Blank
<1>7. StepsInv
  BY DEF StepsInv, Init, Blank
<1>8. OneAtWork
  BY DEF OneAtWork, AtWork, Init, Blank
<1>9. CheckedInv
  BY DEF CheckedInv, Init
<1> QED
  BY <1>1, <1>2, <1>3, <1>4, <1>5, <1>6, <1>7, <1>8, <1>9 DEF Laws

\* Google gives up a token.
LEMMA RotateLaws ==
    ASSUME Inv, Rotate
    PROVE  Laws'
<1>1. EntryInv'
  BY DEF Inv, EntryInv, AtWork, Rotate, Laws, running
<1>2. StoresInv'
  BY DEF Inv, Stores, StoresInv, Sound, Rotate, Laws, running
<1>3. TargetInv'
  BY DEF Inv, Stores, TargetInv, Rotate, Laws, running
<1>4. PairInv'
  BY DEF Inv, PairInv, Rotate, Laws, running
<1>5. AgainInv'
  BY DEF Inv, Stores, AgainInv, Stale, Rotate, Laws, running
<1>6. SilentInv'
  BY DEF Inv, SilentInv, Sound, Rotate, Laws, running
<1>7. StepsInv'
  BY DEF Inv, StepsInv, Rotate, Laws
<1>8. OneAtWork'
  BY DEF Inv, OneAtWork, AtWork, Rotate, Laws
<1>9. CheckedInv'
  BY DEF Inv, CheckedInv, Rotate, Laws, running
<1> QED
  BY <1>1, <1>2, <1>3, <1>4, <1>5, <1>6, <1>7, <1>8, <1>9 DEF Laws

\* The listener registers: new credentials are due only when the old ones are dead.
LEMMA RegistersLaws ==
    ASSUME Inv, ListenerRegisters
    PROVE  Laws'
<1>1. EntryInv'
  BY DEF Inv, EntryInv, AtWork, Off, ListenerRegisters, Registers, Creds, Laws
<1>2. StoresInv'
  BY DEF Inv, Stores, StoresInv, Sound, EntryInv, Off, ListenerRegisters, Registers, Creds, Laws
<1>3. TargetInv'
  BY DEF Inv, Stores, TargetInv, ListenerRegisters, Registers, Creds, Laws
<1>4. PairInv'
  BY DEF Inv, PairInv, ListenerRegisters, Registers, Creds, Laws
<1>5. AgainInv'
  BY DEF Inv, Stores, AgainInv, Stale, ListenerRegisters, Registers, Creds, Laws
<1>6. SilentInv'
  BY DEF Inv, SilentInv, Sound, ListenerRegisters, Registers, Creds, Laws
<1>7. StepsInv'
  BY DEF Inv, StepsInv, ListenerRegisters, Registers, Creds, Laws
<1>8. OneAtWork'
  BY DEF Inv, OneAtWork, AtWork, ListenerRegisters, Registers, Creds, Laws
<1>9. CheckedInv'
  BY DEF Inv, CheckedInv, ListenerRegisters, Registers, Creds, Laws
<1> QED
  BY <1>1, <1>2, <1>3, <1>4, <1>5, <1>6, <1>7, <1>8, <1>9 DEF Laws

\* The check of the token raises the repair, or closes it.
LEMMA CheckedLaws ==
    ASSUME Inv, TokenChecked
    PROVE  Laws'
<1>1. EntryInv'
  BY DEF Inv, EntryInv, AtWork, Off, TokenChecked, Kept, Laws
<1>2. StoresInv'
  BY DEF Inv, Stores, StoresInv, Sound, TokenChecked, Kept, Laws, google
<1>3. TargetInv'
  BY DEF Inv, Stores, TargetInv, TokenChecked, Kept, Laws, google
<1>4. PairInv'
  BY DEF Inv, PairInv, TokenChecked, Kept, Laws, google
<1>5. AgainInv'
  BY DEF Inv, Stores, AgainInv, Stale, TokenChecked, Kept, Laws, google
<1>6. SilentInv'
  BY DEF Inv, SilentInv, Sound, TokenChecked, Kept, Laws, google
<1>7. StepsInv'
  BY DEF Inv, StepsInv, TokenChecked, Kept, Laws, google
<1>8. OneAtWork'
  BY DEF Inv, OneAtWork, AtWork, TokenChecked, Kept, Laws
<1>9. CheckedInv'
  BY DEF Inv, CheckedInv, TokenChecked, Kept, Laws, TypeOK
<1> QED
  BY <1>1, <1>2, <1>3, <1>4, <1>5, <1>6, <1>7, <1>8, <1>9 DEF Laws

\* The listener crashes.
LEMMA CrashesLaws ==
    ASSUME Inv, ListenerCrashes
    PROVE  Laws'
<1>1. EntryInv'
  BY DEF Inv, EntryInv, AtWork, Off, ListenerCrashes, Laws
<1>2. StoresInv'
  BY DEF Inv, Stores, StoresInv, Sound, ListenerCrashes, Laws, google, running
<1>3. TargetInv'
  BY DEF Inv, Stores, TargetInv, ListenerCrashes, Laws, google, running
<1>4. PairInv'
  BY DEF Inv, PairInv, ListenerCrashes, Laws, google, running
<1>5. AgainInv'
  BY DEF Inv, Stores, AgainInv, Stale, ListenerCrashes, Laws, google, running
<1>6. SilentInv'
  BY DEF Inv, SilentInv, Sound, ListenerCrashes, Laws, google, running
<1>7. StepsInv'
  BY DEF Inv, StepsInv, ListenerCrashes, Laws, google
<1>8. OneAtWork'
  BY DEF Inv, OneAtWork, AtWork, ListenerCrashes, Laws
<1>9. CheckedInv'
  BY DEF Inv, CheckedInv, ListenerCrashes, Laws
<1> QED
  BY <1>1, <1>2, <1>3, <1>4, <1>5, <1>6, <1>7, <1>8, <1>9 DEF Laws

\* New credentials are stored beside the token that the dead ones gave.
LEMMA PersistLaws ==
    ASSUME Inv, PersistCreds
    PROVE  Laws'
<1>0. /\ \A s \in Stores' : s \in Stores \/ (s.token = cache.token /\ Sound(s))
      /\ cache'.token = cache.token /\ Sound(cache') /\ cache # NoCreds /\ cache' # NoCreds
      /\ cache \in Stores
  <2>1. cache # NoCreds /\ Sound(cache) /\ cache.creds \in dead /\ cache \in Stores
    BY DEF Inv, Laws, StoresInv, Stores, PersistCreds
  <2>2. cache' \in [token : {cache.token}, creds : {rotated}] /\ writing' = cache'
    BY DEF PersistCreds, Inv, TypeOK, Creds
  <2>3. cache'.token = cache.token /\ Sound(cache')
    BY <2>1, <2>2 DEF Sound, PersistCreds, google
  <2>4. cache' # NoCreds
    BY <2>1, <2>3 DEF Sound, NoCreds
  <2>5. \A s \in Stores' : s \in Stores \/ s = cache'
    BY <2>2 DEF Stores, PersistCreds
  <2> QED
    BY <2>1, <2>3, <2>4, <2>5 DEF Sound, PersistCreds, google
<1>1. EntryInv'
  BY DEF Inv, EntryInv, AtWork, PersistCreds, Laws
<1>2. StoresInv'
  BY <1>0 DEF Inv, StoresInv, Sound, PersistCreds, Laws, google, NoCreds
<1>3. TargetInv'
  BY <1>0 DEF Inv, TargetInv, PersistCreds, Laws, google, NoCreds
<1>4. PairInv'
  BY DEF Inv, PairInv, PersistCreds, Laws, google
<1>5. AgainInv'
  BY <1>0 DEF Inv, AgainInv, Stale, PersistCreds, Laws, google
<1>6. SilentInv'
  BY DEF Inv, SilentInv, Sound, PersistCreds, Laws, google
<1>7. StepsInv'
  BY DEF Inv, StepsInv, PersistCreds, Laws, google
<1>8. OneAtWork'
  BY DEF Inv, OneAtWork, AtWork, PersistCreds, Laws
<1>9. CheckedInv'
  BY DEF Inv, CheckedInv, PersistCreds, Laws
<1> QED
  BY <1>1, <1>2, <1>3, <1>4, <1>5, <1>6, <1>7, <1>8, <1>9 DEF Laws

\* The cache is written.
LEMMA RefreshedLaws ==
    ASSUME Inv, JwtRefreshed
    PROVE  Laws'
<1>1. EntryInv'
  BY DEF Inv, Laws, EntryInv, AtWork, JwtRefreshed
<1>2. StoresInv'
  BY DEF Inv, Stores, StoresInv, Sound, JwtRefreshed, Laws, google
<1>3. TargetInv'
  BY DEF Inv, Stores, TargetInv, JwtRefreshed, Laws, google
<1>4. PairInv'
  BY DEF Inv, PairInv, JwtRefreshed, Laws, google
<1>5. AgainInv'
  BY DEF Inv, Stores, AgainInv, Stale, JwtRefreshed, Laws, google
<1>6. SilentInv'
  BY DEF Inv, SilentInv, Sound, JwtRefreshed, Laws, google
<1>7. StepsInv'
  BY DEF Inv, StepsInv, JwtRefreshed, Laws, google
<1>8. OneAtWork'
  BY DEF Inv, OneAtWork, AtWork, JwtRefreshed, Laws
<1>9. CheckedInv'
  BY DEF Inv, CheckedInv, JwtRefreshed, Laws
<1> QED
  BY <1>1, <1>2, <1>3, <1>4, <1>5, <1>6, <1>7, <1>8, <1>9 DEF Laws

\* A write ends: what it puts in the file was in some store.
LEMMA WrittenLaws ==
    ASSUME Inv, Written
    PROVE  Laws'
<1>1. EntryInv'
  BY DEF Inv, EntryInv, AtWork, Written, Laws
<1>2. StoresInv'
  BY DEF Inv, Stores, StoresInv, Sound, Written, Laws, google
<1>3. TargetInv'
  BY DEF Inv, Stores, TargetInv, Written, Laws, google, NoCreds
<1>4. PairInv'
  BY DEF Inv, PairInv, Writes, EntryInv, Written, Laws, google
<1>5. AgainInv'
  BY DEF Inv, Stores, AgainInv, Stale, Written, Laws, google, NoCreds
<1>6. SilentInv'
  BY DEF Inv, SilentInv, Sound, EntryInv, StoresInv, TargetInv, Written, Laws, google
<1>7. StepsInv'
  BY DEF Inv, StepsInv, Written, Laws, google
<1>8. OneAtWork'
  BY DEF Inv, OneAtWork, AtWork, Written, Laws
<1>9. CheckedInv'
  BY DEF Inv, CheckedInv, Written, Laws
<1> QED
  BY <1>1, <1>2, <1>3, <1>4, <1>5, <1>6, <1>7, <1>8, <1>9 DEF Laws

\* So does one that an earlier entry began.
LEMMA LateLaws ==
    ASSUME Inv, LateSave
    PROVE  Laws'
<1>1. EntryInv'
  BY DEF Inv, EntryInv, AtWork, LateSave, Laws
<1>2. StoresInv'
  BY DEF Inv, Stores, StoresInv, Sound, LateSave, Laws, google
<1>3. TargetInv'
  BY DEF Inv, Stores, TargetInv, LateSave, Laws, google
<1>4. PairInv'
  BY DEF Inv, PairInv, Writes, EntryInv, LateSave, Laws, google
<1>5. AgainInv'
  BY DEF Inv, Stores, AgainInv, Stale, LateSave, Laws, google
<1>6. SilentInv'
  BY DEF Inv, SilentInv, Sound, EntryInv, StoresInv, TargetInv, LateSave, Laws, google
<1>7. StepsInv'
  BY DEF Inv, StepsInv, LateSave, Laws, google
<1>8. OneAtWork'
  BY DEF Inv, OneAtWork, AtWork, LateSave, Laws
<1>9. CheckedInv'
  BY DEF Inv, CheckedInv, LateSave, Laws
<1> QED
  BY <1>1, <1>2, <1>3, <1>4, <1>5, <1>6, <1>7, <1>8, <1>9 DEF Laws

\* Set-up: the running entry has what the file has.
LEMMA SetupLaws ==
    ASSUME Inv, Setup
    PROVE  Laws'
<1>0. /\ \A s \in Stores' : s \in Stores \/ s = NoCreds \/ (s.token = cache.token /\ Sound(s))
      /\ rotated' = None /\ writing' = NoCreds /\ file \in Stores /\ file \in Creds
      /\ UNCHANGED <<dead, target, file>> /\ cache' = file /\ NoCreds \notin late'
  <2>1. late' \subseteq late \union Unfinished /\ rotated' = None /\ writing' = NoCreds
    BY DEF Setup, Outlives, NothingPending
  <2>2. rotated # None => cache # NoCreds /\ Sound(cache) /\ cache.creds \in dead
    BY DEF Inv, Laws, StoresInv, Stores
  <2> DEFINE rest == [cache EXCEPT !.creds = IF rotated = None THEN @ ELSE rotated]
  <2>3. rest = cache \/ (rest.token = cache.token /\ Sound(rest))
    BY <2>2, TypeFacts DEF Inv, TypeOK, Creds, Sound, None
  <2>4. \A s \in Unfinished : s \in Stores \/ (s.token = cache.token /\ Sound(s))
    BY <2>3 DEF Unfinished, Stores
  <2> QED
    BY <2>1, <2>4 DEF Setup, Stores, google, Inv, Laws, StoresInv, TypeOK, Unfinished
<1>1. EntryInv'
  BY DEF Inv, EntryInv, AtWork, Setup
<1>2. StoresInv'
  BY <1>0 DEF Inv, Stores, StoresInv, Sound, Setup, Laws, google, NoCreds
<1>3. TargetInv'
  BY <1>0 DEF Inv, Stores, TargetInv, Setup, Laws, google, NoCreds
<1>4. PairInv'
  BY DEF Inv, PairInv, Setup, Laws, google
<1>5. AgainInv'
  <2>1. cache \in Stores /\ NoCreds.token = None
    BY DEF Stores, NoCreds
  <2>2. Stale => Stale'
    BY <1>0, <2>1 DEF Stale
  <2>3. UNCHANGED <<target, flow>>
    BY DEF Setup
  <2> QED
    BY <2>2, <2>3 DEF Inv, Laws, AgainInv
<1>6. SilentInv'
  BY DEF Inv, SilentInv, Sound, Setup, Laws, google
<1>7. StepsInv'
  BY DEF Inv, StepsInv, Setup, Laws, google
<1>8. OneAtWork'
  BY DEF Inv, OneAtWork, AtWork, Setup, Laws
<1>9. CheckedInv'
  BY DEF Inv, CheckedInv, Setup, Laws
<1> QED
  BY <1>1, <1>2, <1>3, <1>4, <1>5, <1>6, <1>7, <1>8, <1>9 DEF Laws

\* Unload.
LEMMA UnloadLaws ==
    ASSUME Inv, Unload
    PROVE  Laws'
<1>1. EntryInv'
  BY DEF Inv, EntryInv, AtWork, Unload
<1>2. StoresInv'
  BY DEF Inv, Stores, StoresInv, Sound, Unload, Laws, google, running
<1>3. TargetInv'
  BY DEF Inv, Stores, TargetInv, Unload, Laws, google, running
<1>4. PairInv'
  BY DEF Inv, PairInv, Unload, Laws, google, running
<1>5. AgainInv'
  BY DEF Inv, Stores, AgainInv, Stale, Unload, Laws, google, running
<1>6. SilentInv'
  BY DEF Inv, SilentInv, Sound, Unload, Laws, google, running
<1>7. StepsInv'
  BY DEF Inv, StepsInv, Unload, Laws, google
<1>8. OneAtWork'
  BY DEF Inv, OneAtWork, AtWork, Unload, Laws
<1>9. CheckedInv'
  BY DEF Inv, CheckedInv, Unload, Off, Laws
<1> QED
  BY <1>1, <1>2, <1>3, <1>4, <1>5, <1>6, <1>7, <1>8, <1>9 DEF Laws

\* Home Assistant dies.
LEMMA CrashLaws ==
    ASSUME Inv, Crash
    PROVE  Laws'
<1>1. EntryInv'
  BY DEF Inv, EntryInv, AtWork, Crash, Blank, Ended, NothingPending, NoCreds
<1>2. StoresInv'
  BY DEF Inv, Stores, StoresInv, Sound, Crash, Blank, Ended, NothingPending, NoCreds, Laws, google
<1>3. TargetInv'
  BY DEF Inv, Stores, TargetInv, Crash, Blank, Ended, NothingPending, NoCreds, Laws, google
<1>4. PairInv'
  BY DEF Inv, PairInv, Crash, Blank, Ended, NothingPending, NoCreds, Writes, Laws, TypeOK, google
<1>5. AgainInv'
  BY DEF Inv, Stores, AgainInv, Stale, Crash, Blank, Ended, NothingPending, NoCreds, TypeOK
<1>6. SilentInv'
  BY DEF Inv, SilentInv, Sound, Crash, Blank, Ended, NothingPending, NoCreds, TypeOK
<1>7. StepsInv'
  BY DEF Inv, StepsInv, Crash, Blank, Ended, NothingPending, NoCreds, TypeOK
<1>8. OneAtWork'
  BY DEF Inv, OneAtWork, AtWork, Crash, Blank, Ended, NothingPending, NoCreds, TypeOK
<1>9. CheckedInv'
  BY DEF Inv, CheckedInv, Crash, Blank, Ended, NothingPending, NoCreds, Off
<1> QED
  BY <1>1, <1>2, <1>3, <1>4, <1>5, <1>6, <1>7, <1>8, <1>9 DEF Laws

\* The entry is removed, with no flow at work.
LEMMA RemoveLaws ==
    ASSUME Inv, Remove, Calm
    PROVE  Laws'
<1>1. EntryInv'
  BY DEF Inv, EntryInv, AtWork, Remove, Ended, NothingPending, NoCreds, Calm, Laws
<1>2. StoresInv'
  BY DEF Inv, Stores, StoresInv, Sound, Remove, Ended, NothingPending, NoCreds, Calm, Laws
<1>3. TargetInv'
  BY DEF Inv, Stores, TargetInv, Remove, Ended, NothingPending, NoCreds, Calm, AtWork
<1>4. PairInv'
  BY DEF Inv, PairInv, Writes, Remove, Ended, NothingPending, NoCreds, Calm, Laws
<1>5. AgainInv'
  BY DEF Inv, AgainInv, Again, Remove, Calm, AtWork
<1>6. SilentInv'
  BY DEF Inv, SilentInv, Sound, Remove, Ended, NothingPending, NoCreds, Calm, AtWork
<1>7. StepsInv'
  BY DEF Inv, StepsInv, Remove, Ended, NothingPending, NoCreds, Calm, Laws
<1>8. OneAtWork'
  BY DEF Inv, OneAtWork, AtWork, Remove, Ended, NothingPending, NoCreds, Calm, Laws
<1>9. CheckedInv'
  BY DEF Inv, CheckedInv, Remove, Ended, NothingPending, NoCreds, Calm, AtWork, NoCreds
<1> QED
  BY <1>1, <1>2, <1>3, <1>4, <1>5, <1>6, <1>7, <1>8, <1>9 DEF Laws

\* A flow at work on the entry is alone.
LEMMA Alone ==
    ASSUME Inv, NEW f \in Flows, flow[f].pc # "form", flow[f].kind # "pair"
    PROVE  /\ entry # "none"
           /\ \A g \in Flows \ {f} : flow[g].pc = "form" \/ flow[g].kind = "pair"
           /\ \A g \in Flows : flow[g].kind = "pair" => flow[g].pc \notin Writes
BY DEF Inv, Laws, EntryInv, OneAtWork, AtWork, PairInv

\* Nobody is at work on an entry that is not there.
LEMMA Vacant ==
    ASSUME Inv, entry = "none"
    PROVE  \A g \in Flows : flow[g].pc = "form" \/ flow[g].kind = "pair"
BY DEF Inv, Laws, EntryInv, AtWork

\* Going from one step to the next.
Moved(f, step) ==
    /\ flow'[f].pc = step /\ flow'[f].kind = flow[f].kind
    /\ flow'[f].token = flow[f].token /\ flow'[f].creds = flow[f].creds
    /\ \A g \in Flows \ {f} : flow'[g] = flow[g]

\* Who is at work.
LEMMA SameAtWork ==
    ASSUME NEW f \in Flows, flow'[f].kind = flow[f].kind, flow[f].pc # "form", flow'[f].pc # "form",
           \A g \in Flows \ {f} : flow'[g] = flow[g]
    PROVE  AtWork' = AtWork
BY DEF AtWork

LEMMA GoesMoved ==
    ASSUME Inv, NEW f \in Flows, NEW step \in Steps, Goes(f, step)
    PROVE  Moved(f, step)
BY GoesType DEF Inv, Moved

\* Ending with a blank form.
Left(f) == flow'[f] = Blank /\ \A g \in Flows \ {f} : flow'[g] = flow[g]

LEMMA ForgetsLeft ==
    ASSUME Inv, NEW f \in Flows, Forgets(f)
    PROVE  Left(f)
BY ForgetsType DEF Inv, Left

\* Intratone pushes to the token of the flow: every other one is dead by now.
LEMMA CodesLaws ==
    ASSUME Inv, NEW f \in Flows, RegisterCodes(f)
    PROVE  Laws'
<1>1. Moved(f, "auth")
  BY GoesMoved DEF RegisterCodes, Steps
<1>2. EntryInv'
  BY <1>1
  DEF Inv, Laws, EntryInv, AtWork, RegisterCodes, At, Moved, running
<1>3. StoresInv'
  BY <1>1
  DEF Inv, Laws, Stores, StoresInv, Sound, AgainInv, RegisterCodes, At, Moved, google, running
<1>4. TargetInv'
  BY <1>1
  DEF Inv, Laws, Stores, TargetInv, AgainInv, Stale, StoresInv, Sound, RegisterCodes, At, Moved, google, running
<1>5. PairInv'
  BY <1>1
  DEF Inv, Laws, PairInv, Writes, RegisterCodes, At, Moved
<1>6. AgainInv'
  BY <1>1, Alone
  DEF Inv, Laws, Stores, AgainInv, Stale, Again, RegisterCodes, At, Moved, google, running
<1>7. SilentInv'
  BY <1>1, Alone
  DEF Inv, Laws, SilentInv, Sound, Again, RegisterCodes, At, Moved, google
<1>8. StepsInv'
  BY <1>1
  DEF Inv, Laws, StepsInv, RegisterCodes, Moved
<1>9. OneAtWork'
  BY <1>1
  DEF Inv, Laws, OneAtWork, AtWork, RegisterCodes, At, Moved
<1>10. CheckedInv'
  BY <1>1
  DEF Inv, Laws, CheckedInv, RegisterCodes, Moved, running
<1> QED
  BY <1>2, <1>3, <1>4, <1>5, <1>6, <1>7, <1>8, <1>9, <1>10 DEF Laws

\* A flow gets a JWT.
LEMMA AuthenticatedLaws ==
    ASSUME Inv, NEW f \in Flows, Authenticated(f)
    PROVE  Laws'
<1> DEFINE next ==
      IF flow[f].kind = "repair" THEN "save"
      ELSE IF flow[f].kind = "silent" THEN "load" ELSE "check"
<1>1. Moved(f, next)
  <2>1. AfterAuth(flow[f].kind) = next
    BY DEF AfterAuth
  <2>2. AfterAuth(flow[f].kind) \in Steps
    BY <2>1 DEF Steps
  <2> QED
    BY <2>1, <2>2, GoesMoved DEF Authenticated
<1>2. EntryInv'
  BY <1>1
  DEF Inv, Laws, EntryInv, AtWork, Authenticated, At, Moved, running
<1>3. StoresInv'
  BY <1>1
  DEF Inv, Laws, Stores, StoresInv, Sound, Authenticated, Moved, google, running
<1>4. TargetInv'
  BY <1>1
  DEF Inv, Laws, Stores, TargetInv, Authenticated, Moved, google, running
<1>5. PairInv'
  BY <1>1, Alone
  DEF Inv, Laws, PairInv, Writes, Authenticated, At, Moved
<1>6. AgainInv'
  BY <1>1
  DEF Inv, Laws, Stores, AgainInv, Stale, Authenticated, At, Moved, google, running
<1>7. SilentInv'
  BY <1>1
  DEF Inv, Laws, SilentInv, Sound, Authenticated, Moved, google
<1>8. StepsInv'
  BY <1>1
  DEF Inv, Laws, StepsInv, Authenticated, Moved
<1>9. OneAtWork'
  BY <1>1
  DEF Inv, Laws, OneAtWork, AtWork, Authenticated, At, Moved
<1>10. CheckedInv'
  BY <1>1
  DEF Inv, Laws, CheckedInv, Authenticated, Moved, running
<1> QED
  BY <1>2, <1>3, <1>4, <1>5, <1>6, <1>7, <1>8, <1>9, <1>10 DEF Laws

\* A flow is given up.
LEMMA GivesUpLaws ==
    ASSUME Inv, NEW f \in Flows, GivesUp(f)
    PROVE  Laws'
<1>1. Left(f)
  BY ForgetsLeft DEF GivesUp
<1>2. EntryInv'
  BY <1>1
  DEF Inv, Laws, EntryInv, AtWork, GivesUp, Left, Blank, running
<1>3. StoresInv'
  BY <1>1
  DEF Inv, Laws, Stores, StoresInv, Sound, GivesUp, Left, Blank, google, running
<1>4. TargetInv'
  BY <1>1
  DEF Inv, Laws, Stores, TargetInv, GivesUp, Left, Blank, google, running
<1>5. PairInv'
  BY <1>1
  DEF Inv, Laws, PairInv, Writes, GivesUp, Left, Blank
<1>6. AgainInv'
  BY <1>1
  DEF Inv, Laws, Stores, AgainInv, Stale, GivesUp, Left, Blank, google, running
<1>7. SilentInv'
  BY <1>1
  DEF Inv, Laws, SilentInv, Sound, GivesUp, Left, Blank, google
<1>8. StepsInv'
  BY <1>1
  DEF Inv, Laws, StepsInv, GivesUp, Left, Blank
<1>9. OneAtWork'
  BY <1>1
  DEF Inv, Laws, OneAtWork, AtWork, GivesUp, Left, Blank
<1>10. CheckedInv'
  BY <1>1
  DEF Inv, Laws, CheckedInv, GivesUp, Left, Blank, running
<1> QED
  BY <1>2, <1>3, <1>4, <1>5, <1>6, <1>7, <1>8, <1>9, <1>10 DEF Laws

\* A pairing goes on if it has the account to itself.
LEMMA UniqueIdLaws ==
    ASSUME Inv, NEW f \in Flows, UniqueId(f)
    PROVE  Laws'
<1>1. Left(f) \/ (NotConfigured(f) /\ Moved(f, "save"))
  BY ForgetsLeft, GoesMoved DEF UniqueId, Steps
<1>2. EntryInv'
  BY <1>1
  DEF Inv, Laws, EntryInv, AtWork, UniqueId, At, NotConfigured, Moved, Left, Blank, running
<1>3. StoresInv'
  BY <1>1
  DEF Inv, Laws, Stores, StoresInv, Sound, UniqueId, NotConfigured, Moved, Left, Blank, google, running
<1>4. TargetInv'
  BY <1>1
  DEF Inv, Laws, Stores, TargetInv, UniqueId, NotConfigured, Moved, Left, Blank, google, running
<1>5. PairInv'
  BY <1>1, Alone
  DEF Inv, Laws, PairInv, Writes, UniqueId, At, NotConfigured, Moved, Left, Blank
<1>6. AgainInv'
  BY <1>1
  DEF Inv, Laws, Stores, AgainInv, Stale, UniqueId, At, NotConfigured, Moved, Left, Blank, google, running
<1>7. SilentInv'
  BY <1>1
  DEF Inv, Laws, SilentInv, Sound, StepsInv, UniqueId, At, NotConfigured, Moved, Left, Blank, google
<1>8. StepsInv'
  BY <1>1
  DEF Inv, Laws, StepsInv, UniqueId, NotConfigured, Moved, Left, Blank
<1>9. OneAtWork'
  BY <1>1
  DEF Inv, Laws, OneAtWork, AtWork, UniqueId, At, NotConfigured, Moved, Left, Blank
<1>10. CheckedInv'
  BY <1>1
  DEF Inv, Laws, CheckedInv, UniqueId, NotConfigured, Moved, Left, Blank, running
<1> QED
  BY <1>2, <1>3, <1>4, <1>5, <1>6, <1>7, <1>8, <1>9, <1>10 DEF Laws

\* The store of a flow is written: nothing else is behind it.
LEMMA SaveLaws ==
    ASSUME Inv, NEW f \in Flows, Save(f)
    PROVE  Laws'
<1>1. Moved(f, IF flow[f].kind = "pair" THEN "video" ELSE "saved")
  <2>1. PICK step \in Steps : Goes(f, step) /\ step = IF flow[f].kind = "pair" THEN "video" ELSE "saved"
    BY DEF Save, Steps
  <2> QED
    BY <2>1, GoesMoved
<1>2. EntryInv'
  BY <1>1
  DEF Inv, Laws, EntryInv, AtWork, Save, At, Moved, running
<1>3. StoresInv'
  BY <1>1, Alone, TypeFacts
  DEF Inv, Laws, Stores, StoresInv, Sound, AgainInv, PairInv, SilentInv, StepsInv, Again, Kinds, Save,
      At, Moved, Writes, google, running, NoCreds
<1>4. TargetInv'
  BY <1>1, TypeFacts
  DEF Inv, Laws, Stores, TargetInv, AgainInv, PairInv, SilentInv, StepsInv, Again, Kinds, Save,
      At, Moved, Writes, google, running
<1>5. PairInv'
  BY <1>1, Alone, Vacant
  DEF Inv, Laws, PairInv, Writes, Save, At, Moved
<1>6. AgainInv'
  BY <1>1, Alone, Vacant
  DEF Inv, Stores, AgainInv, Stale, Again, PairInv, Save, At, Moved, Writes
<1>7. SilentInv'
  BY <1>1, Alone, Vacant
  DEF Inv, SilentInv, Sound, PairInv, Save, At, Moved, Writes
<1>8. StepsInv'
  BY <1>1
  DEF Inv, Laws, StepsInv, Save, Moved
<1>9. OneAtWork'
  BY <1>1
  DEF Inv, Laws, OneAtWork, AtWork, Save, At, Moved
<1>10. CheckedInv'
  BY <1>1
  DEF Inv, Laws, CheckedInv, Save, Moved, running
<1> QED
  BY <1>2, <1>3, <1>4, <1>5, <1>6, <1>7, <1>8, <1>9, <1>10 DEF Laws

\* A flow ends and a reload is due.
LEMMA FinishLaws ==
    ASSUME Inv, NEW f \in Flows, Finish(f)
    PROVE  Laws'
<1>1. Left(f)
  BY ForgetsLeft DEF Finish
<1>2. EntryInv'
  BY <1>1
  DEF Inv, Laws, EntryInv, AtWork, Finish, Scheduled, Left, Blank, running
<1>3. StoresInv'
  BY <1>1
  DEF Inv, Laws, Stores, StoresInv, Sound, Finish, Scheduled, Left, Blank, google, running
<1>4. TargetInv'
  BY <1>1
  DEF Inv, Laws, Stores, TargetInv, Finish, Scheduled, Left, Blank, google, running
<1>5. PairInv'
  BY <1>1
  DEF Inv, Laws, PairInv, Writes, Finish, Scheduled, Left, Blank
<1>6. AgainInv'
  BY <1>1
  DEF Inv, Laws, Stores, AgainInv, Stale, Finish, Scheduled, Left, Blank, google, running
<1>7. SilentInv'
  BY <1>1
  DEF Inv, Laws, SilentInv, Sound, Finish, Scheduled, Left, Blank, google
<1>8. StepsInv'
  BY <1>1
  DEF Inv, Laws, StepsInv, Finish, Scheduled, Left, Blank
<1>9. OneAtWork'
  BY <1>1
  DEF Inv, Laws, OneAtWork, AtWork, Finish, Scheduled, Left, Blank
<1>10. CheckedInv'
  BY <1>1, TypeFacts
  DEF Inv, Laws, CheckedInv, EntryInv, Off, Finish, Scheduled, Left, Blank
<1> QED
  BY <1>2, <1>3, <1>4, <1>5, <1>6, <1>7, <1>8, <1>9, <1>10 DEF Laws

\* The entry is created with what the pairing saved.
LEMMA CreateLaws ==
    ASSUME Inv, NEW f \in Flows, CreateEntry(f)
    PROVE  Laws'
<1>1. Left(f)
  BY ForgetsLeft DEF CreateEntry
<1>2. EntryInv'
  BY <1>1
  DEF Inv, Laws, EntryInv, AtWork, CreateEntry, Left, Blank
<1>3. StoresInv'
  BY <1>1
  DEF Inv, Laws, Stores, StoresInv, Sound, EntryInv, PairInv, StepsInv, CreateEntry, At, Left, Blank, Writes, running, NoCreds
<1>4. TargetInv'
  BY <1>1
  DEF Inv, Laws, Stores, TargetInv, EntryInv, PairInv, StepsInv, Sound, CreateEntry, At, Left, Blank, running, NoCreds
<1>5. PairInv'
  BY <1>1
  DEF Inv, Laws, PairInv, Writes, CreateEntry, At, Left, Blank
<1>6. AgainInv'
  BY <1>1, Vacant
  DEF Inv, Stores, AgainInv, Stale, Again, EntryInv, PairInv, StepsInv, Sound, CreateEntry, Left, Blank
<1>7. SilentInv'
  BY <1>1, Vacant
  DEF Inv, SilentInv, Sound, EntryInv, PairInv, StepsInv, CreateEntry, Left, Blank
<1>8. StepsInv'
  BY <1>1
  DEF Inv, Laws, StepsInv, CreateEntry, Left, Blank
<1>9. OneAtWork'
  BY <1>1
  DEF Inv, Laws, OneAtWork, AtWork, CreateEntry, Left, Blank
<1>10. CheckedInv'
  BY <1>1
  DEF Inv, Laws, CheckedInv, CreateEntry, Left, Blank, running
<1> QED
  BY <1>2, <1>3, <1>4, <1>5, <1>6, <1>7, <1>8, <1>9, <1>10 DEF Laws

\* A silent reauth has what the file has.
LEMMA LoadLaws ==
    ASSUME Inv, NEW f \in Flows, Load(f)
    PROVE  Laws'
<1>1. /\ flow'[f].pc = "save" /\ flow'[f].kind = flow[f].kind /\ flow[f].kind = "silent"
      /\ flow'[f].token = file.token /\ flow'[f].creds = file.creds
      /\ \A g \in Flows \ {f} : flow'[g] = flow[g]
  BY LoadedFlow DEF Inv, Laws, StepsInv, Load, At
<1>2. EntryInv'
  BY <1>1, Alone
  DEF Inv, Laws, EntryInv, AtWork, Load, At
<1>3. StoresInv'
  BY <1>1
  DEF Inv, Laws, Stores, StoresInv, Sound, Load, google, running
<1>4. TargetInv'
  BY <1>1
  DEF Inv, Laws, Stores, TargetInv, Load, google, running
<1>5. PairInv'
  <2>1. \A g \in Flows : flow[g].kind = "pair" => flow[g].pc \notin Writes /\ flow'[g] = flow[g]
    BY <1>1, Alone DEF Load, At
  <2> QED
    BY <1>1, <2>1 DEF Inv, Laws, PairInv, Writes
<1>6. AgainInv'
  BY <1>1, Alone
  DEF Inv, Stores, AgainInv, Stale, Again, Load, At
<1>7. SilentInv'
  <2>1. entry # "none" /\ \A g \in Flows \ {f} : flow[g].pc = "form" \/ flow[g].kind = "pair"
    BY <1>1, Alone DEF Load, At
  <2>2. Sound(file) /\ file.token \in dead \union {target}
    BY <2>1 DEF Inv, Laws, Stores, StoresInv, TargetInv, Sound
  <2>3. UNCHANGED <<dead, target, file>>
    BY DEF Load, google
  <2> QED
    BY <1>1, <2>1, <2>2, <2>3 DEF SilentInv, Sound
<1>8. StepsInv'
  BY <1>1
  DEF Inv, Laws, StepsInv, Load
<1>9. OneAtWork'
  BY <1>1
  DEF Inv, Laws, OneAtWork, AtWork, Load, At
<1>10. CheckedInv'
  BY <1>1
  DEF Inv, Laws, CheckedInv, Load, running
<1> QED
  BY <1>2, <1>3, <1>4, <1>5, <1>6, <1>7, <1>8, <1>9, <1>10 DEF Laws

\* Google gives a flow another token only if its credentials are dead.
LEMMA FlowRegistersLaws ==
    ASSUME Inv, NEW f \in Flows, FlowRegisters(f)
    PROVE  Laws'
<1>0. PICK token \in 1 .. issued' :
             /\ Registers(flow[f].creds, token, MaxTokens - Reserved)
             /\ flow'[f].pc = "register" /\ flow'[f].kind = flow[f].kind
             /\ flow'[f].token = token /\ flow'[f].creds = token
             /\ \A g \in Flows \ {f} : flow'[g] = flow[g]
  BY FlowRegistersToken DEF Inv
<1>1. /\ flow'[f].pc = "register" /\ flow'[f].kind = flow[f].kind
      /\ flow'[f].token = token /\ flow'[f].creds = token /\ token # None
      /\ token \notin dead
      /\ flow[f].creds \in dead \union {None} => token \notin 0 .. issued
      /\ flow[f].creds \notin dead \union {None} => token = flow[f].creds
      /\ \A g \in Flows \ {f} : flow'[g] = flow[g]
  BY <1>0 DEF Registers, Inv, TypeOK, None
<1>2. EntryInv'
  <2>1. AtWork' = AtWork
    BY <1>1, SameAtWork DEF FlowRegisters, At
  <2> QED
    BY <2>1 DEF Inv, Laws, EntryInv, FlowRegisters, running
<1>3. StoresInv'
  BY <1>1
  DEF Inv, Laws, Stores, StoresInv, Sound, FlowRegisters, running
<1>4. TargetInv'
  BY <1>1
  DEF Inv, Laws, Stores, TargetInv, FlowRegisters, running
<1>5. PairInv'
  BY <1>1
  DEF Inv, Laws, PairInv, Writes, FlowRegisters
<1>6. AgainInv'
  <2>1. CASE flow[f].kind \notin Again
    BY <1>1, <2>1 DEF Inv, Laws, Stores, AgainInv, Stale, FlowRegisters, running
  <2>2. CASE flow[f].kind \in Again
    <3>1. entry # "none" /\ \A g \in Flows \ {f} : flow[g].pc = "form" \/ flow[g].kind = "pair"
      BY <1>1, <2>2, Alone DEF FlowRegisters, At, Again
    <3>2. flow[f].creds = target \/ Stale
      BY <2>2 DEF Inv, Laws, Stores, AgainInv, FlowRegisters, At
    <3>3. (\A s \in Stores : s.token \in dead \union {target, None}) /\ target # None
      BY <3>1 DEF Inv, Laws, Stores, StoresInv, TargetInv
    <3>4. UNCHANGED <<dead, target, file, running>>
      BY DEF FlowRegisters
    <3>5. token = target \/ Stale
      BY <1>1, <3>2, <3>3 DEF Stale
    <3> QED
      BY <1>1, <3>1, <3>4, <3>5 DEF AgainInv, Again, Stale, Stores, running
  <2> QED
    BY <2>1, <2>2
<1>7. SilentInv'
  BY <1>1
  DEF Inv, Laws, SilentInv, Sound, FlowRegisters
<1>8. StepsInv'
  BY <1>1
  DEF Inv, Laws, StepsInv, FlowRegisters, At
<1>9. OneAtWork'
  <2>1. AtWork' = AtWork
    BY <1>1, SameAtWork DEF FlowRegisters, At
  <2> QED
    BY <2>1 DEF Inv, Laws, OneAtWork
<1>10. CheckedInv'
  BY <1>1
  DEF Inv, Laws, CheckedInv, FlowRegisters, running
<1> QED
  BY <1>2, <1>3, <1>4, <1>5, <1>6, <1>7, <1>8, <1>9, <1>10 DEF Laws

\* A form is submitted: what its flow has is what works, or nothing in the stores does.
LEMMA SubmitLaws ==
    ASSUME Inv, NEW f \in Flows, Calm, Submit(f)
    PROVE  Laws'
<1>0. PICK kind \in Kinds :
        /\ Offered(kind)
        /\ kind = "pair" \/ AtWork = {}
        /\ kind \in Again => ~Behind
        /\ flow'[f].pc = IF kind = "silent" THEN "auth" ELSE "fcm"
        /\ flow'[f].kind = kind
        /\ flow'[f].token = None
        /\ flow'[f].creds = IF kind \in Again THEN file.creds ELSE None
        /\ \A g \in Flows \ {f} : flow'[g] = flow[g]
  BY SubmitStarts DEF Inv, Calm
<1>1. /\ flow'[f].pc = IF flow'[f].kind = "silent" THEN "auth" ELSE "fcm"
      /\ flow'[f].kind = "pair" \/ (AtWork = {} /\ entry # "none")
      /\ flow'[f].kind \in Again => flow'[f].creds = file.creds /\ ~Behind
      /\ \A g \in Flows \ {f} : flow'[g] = flow[g]
  BY <1>0 DEF Offered
<1>2. EntryInv'
  BY <1>1
  DEF Inv, Laws, EntryInv, AtWork, Submit, running
<1>3. StoresInv'
  BY <1>1
  DEF Inv, Laws, Stores, StoresInv, Sound, Submit, google, running
<1>4. TargetInv'
  BY <1>1
  DEF Inv, Laws, Stores, TargetInv, Submit, google, running
<1>5. PairInv'
  BY <1>1
  DEF Inv, Laws, PairInv, Writes, Submit
<1>6. AgainInv'
  BY <1>1
  DEF Inv, Laws, Stores, AgainInv, Stale, Behind, Again, StoresInv, TargetInv, Sound, Submit, google, running
<1>7. SilentInv'
  BY <1>1
  DEF Inv, Laws, SilentInv, Sound, Submit, google
<1>8. StepsInv'
  BY <1>1
  DEF Inv, Laws, StepsInv, Submit
<1>9. OneAtWork'
  BY <1>1
  DEF Inv, Laws, OneAtWork, AtWork, Submit
<1>10. CheckedInv'
  BY <1>1
  DEF Inv, Laws, CheckedInv, Submit, running
<1> QED
  BY <1>2, <1>3, <1>4, <1>5, <1>6, <1>7, <1>8, <1>9, <1>10 DEF Laws

\* Every step keeps the laws.
LEMMA NextLaws == ASSUME Calm, Inv, [Next]_vars PROVE Laws'
<1>1. CASE Rotate
  BY <1>1, RotateLaws
<1>2. CASE Listener
  BY <1>2, RegistersLaws, CheckedLaws, CrashesLaws DEF Listener
<1>3. CASE Store
  BY <1>3, PersistLaws, RefreshedLaws, WrittenLaws, LateLaws DEF Store
<1>4. CASE Lifecycle
  BY <1>4, SetupLaws, UnloadLaws, CrashLaws, RemoveLaws DEF Lifecycle
<1>5. CASE \E f \in Flows : Flow(f)
  BY <1>5, SubmitLaws, FlowRegistersLaws, CodesLaws, AuthenticatedLaws, GivesUpLaws,
     UniqueIdLaws, LoadLaws, SaveLaws, FinishLaws, CreateLaws DEF Flow
<1>6. CASE UNCHANGED vars
  BY <1>6 DEF Inv, Laws, vars, google, running, Stores, EntryInv, StoresInv, Sound, TargetInv,
     PairInv, AgainInv, Stale, SilentInv, StepsInv, OneAtWork, CheckedInv, AtWork
<1> QED
  BY <1>1, <1>2, <1>3, <1>4, <1>5, <1>6 DEF Next

LEMMA CalmInvariant == ASSUME Calm PROVE Spec => []Inv
<1>1. TypeOK /\ Laws /\ [Next]_vars => Laws'
  BY NextLaws DEF Inv
<1>2. TypeOK /\ Laws => Inv
  BY DEF Inv
<1> QED
  BY <1>1, <1>2, InitLaws, TypeCorrect, PTL DEF Spec

\* In a calm system, a doorbell whose pushes go to a token that its listener
\* is not on is reported, whatever was overwritten or given up on the way.
THEOREM CalmSilenceSignalled == ASSUME Calm PROVE Spec => []SilenceSignalled
<1>1. Inv => SilenceSignalled
  BY DEF Inv, Laws, SilenceSignalled, Settled, Stores, EntryInv, StoresInv, TargetInv, CheckedInv, Sound
<1> QED
  BY <1>1, CalmInvariant, PTL
=============================================================================
