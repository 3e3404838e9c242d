----------------------- MODULE ContextAssemblyProofs -----------------------
(***************************************************************************)
(* Proofs about ContextAssembly and the ManagerRegistry it extends, for    *)
(* any keys, configurations, callers and number of managers.               *)
(***************************************************************************)
EXTENDS ContextAssembly, TLAPS

-----------------------------------------------------------------------------
(***************************************************************************)
(* Types.  Shape is TypeOK without what it says of the lost processes.     *)
(***************************************************************************)

Shape ==
  /\ created \in 0 .. MaxManagers
  /\ managers \in [Key -> 0 .. created]
  /\ configOf \in [Manager -> Config \cup {None}]
  /\ open \subseteq 1 .. created
  /\ pc \in [Caller -> Place]
  /\ key \in [Caller -> Key \cup {None}] /\ config \in [Caller -> Config \cup {None}]
  /\ own \in [Caller -> 0 .. created]
  /\ closing \in BOOLEAN /\ visited \subseteq Key
  /\ overlapped \in BOOLEAN
  /\ failed \subseteq 1 .. created /\ reopened \subseteq 1 .. created
  /\ dropped \subseteq 1 .. created
  /\ diaryOpen \subseteq Caller

\* One more manager leaves room for all that was there.
LEMMA CreateShape ==
  ASSUME Shape, NEW c \in Caller, NEW f \in Config \cup {None}, Create(c, f)
  PROVE  /\ created' = created + 1 /\ created' \in 0 .. MaxManagers
         /\ configOf' \in [Manager -> Config \cup {None}]
         /\ own' \in [Caller -> 0 .. created']
         /\ open' \subseteq 1 .. created'
         /\ pc' \in [Caller -> Place]
         /\ [Key -> 0 .. created] \subseteq [Key -> 0 .. created']
         /\ 1 .. created \subseteq 1 .. created'
<1>1. created \in Nat /\ created' = created + 1 /\ created' \in 0 .. MaxManagers
  BY ConstantsAssumption DEF Shape, Create
<1>2. 0 .. created \subseteq 0 .. created' /\ 1 .. created \subseteq 1 .. created'
      /\ created + 1 \in 1 .. created' /\ 1 .. created' \subseteq 0 .. created'
  BY <1>1
<1>3. [Key -> 0 .. created] \subseteq [Key -> 0 .. created']
  BY <1>2
<1>4. own' \in [Caller -> 0 .. created']
  BY <1>2 DEF Shape, Create
<1>5. configOf' \in [Manager -> Config \cup {None}]
  BY DEF Shape, Create
<1>6. open' \subseteq 1 .. created'
  BY <1>2 DEF Shape, Create
<1>7. pc' \in [Caller -> Place]
  BY DEF Shape, Create, Goto, Place
<1> QED
  BY <1>1, <1>2, <1>3, <1>4, <1>5, <1>6, <1>7

LEMMA DropsShape ==
  ASSUME Shape, NEW k, Drops(k)
  PROVE  dropped' \subseteq 1 .. created
BY DEF Shape, Drops

\* A call that waits for the first status of a manager is the only one that
\* has it, and its process runs.
Making ==
  \A c \in Caller : pc[c] = "create" =>
    /\ key[c] \in Key
    /\ own[c] \in open \ (Mapped \cup failed \cup dropped)
    /\ \A d \in Caller : pc[d] = "create" /\ own[d] = own[c] => d = c

LEMMA ShapeStep ==
  ASSUME Shape, Making, [EngineNext]_vars
  PROVE  Shape'
<1> USE DEF registryVars, calls, history
<1>1. ASSUME NEW c \in Caller, NEW k \in Key, NEW f \in Config, AskKnown(c, k, f), UNCHANGED diaryOpen
      PROVE  Shape'
  <2>1. managers[k] \in 0 .. created
    BY DEF Shape
  <2>2. pc' \in [Caller -> Place] /\ own' \in [Caller -> 0 .. created]
    BY <1>1, <2>1 DEF Shape, AskKnown, Return, Goto, Place
  <2> QED
    BY <1>1, <2>2 DEF Shape, AskKnown, Return
<1>2. ASSUME NEW c \in Caller, NEW k \in Key, NEW f \in Config, AskNew(c, k, f), UNCHANGED diaryOpen
      PROVE  Shape'
  <2>1. Create(c, f)
    BY <1>2 DEF AskNew
  <2>2. /\ key' \in [Caller -> Key \cup {None}] /\ config' \in [Caller -> Config \cup {None}]
        /\ overlapped' \in BOOLEAN
    BY <1>2 DEF Shape, AskNew, Asks
  <2> QED
    BY <1>2, <2>1, <2>2, CreateShape DEF Shape, AskNew
<1>3. ASSUME NEW c \in Caller, NEW k \in Key, NEW f \in Config, AskOther(c, k, f), UNCHANGED diaryOpen
      PROVE  Shape'
  <2>1. /\ key' \in [Caller -> Key \cup {None}] /\ config' \in [Caller -> Config \cup {None}]
        /\ overlapped' \in BOOLEAN
    BY <1>3 DEF Shape, AskOther, Asks
  <2>2. pc' \in [Caller -> Place]
    BY <1>3 DEF Shape, AskOther, Goto, Place
  <2> QED
    BY <1>3, <2>1, <2>2 DEF Shape, AskOther
<1>4. ASSUME NEW c \in Caller, Replace(c), UNCHANGED diaryOpen PROVE Shape'
  <2>1. Create(c, config[c]) /\ config[c] \in Config \cup {None}
    BY <1>4 DEF Replace, Shape
  <2>2. managers' \in [Key -> 0 .. created] /\ visited' \subseteq Key
    <3>1. 0 \in 0 .. created
      BY ConstantsAssumption DEF Shape
    <3> QED
      BY <1>4, <3>1 DEF Replace, Shape
  <2>3. dropped' \subseteq 1 .. created
    BY <1>4, DropsShape DEF Replace
  <2> QED
    BY <1>4, <2>1, <2>2, <2>3, CreateShape DEF Shape, Replace
<1>5. ASSUME NEW c \in Caller, Created(c), UNCHANGED diaryOpen PROVE Shape'
  <2>1. managers' \in [Key -> 0 .. created]
    BY <1>5 DEF Created, Shape
  <2>2. dropped' \subseteq 1 .. created
    BY <1>5, DropsShape DEF Created
  <2>3. pc' \in [Caller -> Place] /\ own' \in [Caller -> 0 .. created]
    BY <1>5 DEF Shape, Created, Return, Goto, Place
  <2> QED
    BY <1>5, <2>1, <2>2, <2>3 DEF Shape, Created, Return
<1>6. ASSUME NEW c \in Caller, StatusFails(c), UNCHANGED diaryOpen PROVE Shape'
  <2>1. pc' \in [Caller -> Place] /\ own' \in [Caller -> 0 .. created]
    BY <1>6, ConstantsAssumption DEF Shape, StatusFails, Return, Goto, Place
  <2> QED
    BY <1>6, <2>1 DEF Shape, Making, StatusFails, Return
<1>7. ASSUME CloseAll, UNCHANGED diaryOpen PROVE Shape'
  BY <1>7 DEF Shape, CloseAll
<1>8. ASSUME NEW k \in Key, CloseNext(k), UNCHANGED diaryOpen PROVE Shape'
  BY <1>8 DEF Shape, CloseNext
<1>9. ASSUME Clear, UNCHANGED diaryOpen PROVE Shape'
  <2>1. created \in Nat /\ managers' \in [Key -> 0 .. created]
    BY <1>9, ConstantsAssumption DEF Shape, Clear
  <2> QED
    BY <1>9, <2>1 DEF Shape, Clear
<1>10. ASSUME NEW c \in Caller, Returned(c) \/ Assembled(c) PROVE Shape'
  <2>1. pc' \in [Caller -> Place] /\ own' \in [Caller -> 0 .. created]
    BY <1>10, ConstantsAssumption DEF Shape, Returned, Assembled, End, Goto, Place
  <2> QED
    BY <1>10, <2>1 DEF Shape, Returned, Assembled, End
<1>11. ASSUME NEW c \in Caller, NEW from, NEW to \in Place, UseManager(c, from, to)
       PROVE  Shape'
  <2>1. own[c] \in 1 .. created
    BY <1>11, ConstantsAssumption DEF Shape, UseManager
  <2>2. pc' \in [Caller -> Place]
    BY <1>11 DEF Shape, UseManager, Goto
  <2> QED
    BY <1>11, <2>1, <2>2 DEF Shape, UseManager, Use
<1>12. ASSUME NEW c \in Caller, AskDiary(c) \/ ListDiary(c) \/ AfterTurn(c) PROVE Shape'
  <2>1. pc' \in [Caller -> Place] /\ diaryOpen' \subseteq Caller
    BY <1>12 DEF Shape, AskDiary, ListDiary, AfterTurn, Goto, Place
  <2> QED
    BY <1>12, <2>1 DEF Shape, AskDiary, ListDiary, AfterTurn
<1>13. ASSUME NEW c \in Caller, AppendDiary(c) PROVE Shape'
  <2>1. pc' \in [Caller -> Place] /\ diaryOpen' \subseteq Caller
    BY <1>13 DEF Shape, AppendDiary, Goto, Place
  <2> QED
    BY <1>13, <2>1 DEF Shape, AppendDiary
<1>14. CASE UNCHANGED vars
  BY <1>14 DEF Shape, vars
<1> QED
  BY <1>1, <1>2, <1>3, <1>4, <1>5, <1>6, <1>7, <1>8, <1>9, <1>10, <1>11, <1>12, <1>13, <1>14
  DEF EngineNext, RegistryNext, Search, ReadFile, Place

-----------------------------------------------------------------------------
(***************************************************************************)
(* Numbers.  A manager is in one place at most: under one key, with the    *)
(* one call that makes it, or lost; only managers in the map are closed.   *)
(***************************************************************************)

OneKey == \A j, k \in Key : managers[j] = managers[k] /\ managers[j] # 0 => j = k

LostStayOpen == failed \cup dropped \subseteq open \ Mapped

\* A call that has closed the manager of its key knows that key.
ClosedKeyed == \A c \in Caller : pc[c] = "closed" => key[c] \in Key

NumberInv == Making /\ OneKey /\ LostStayOpen /\ ClosedKeyed

\* The step of a call that creates no manager leaves the others' places alone.
LEMMA OthersMaking ==
  ASSUME Shape, NumberInv, NEW c \in Caller, NEW place \in Place \ {"create", "closed"},
         Goto(c, place), \A d \in Caller \ {c} : key'[d] = key[d] /\ own'[d] = own[d],
         UNCHANGED <<managers, failed, dropped>>, open \subseteq open'
  PROVE  NumberInv'
<1> USE DEF Shape, NumberInv
<1>1. \A d \in Caller : pc'[d] \in {"create", "closed"} => d # c /\ pc[d] = pc'[d]
  BY DEF Goto
<1>2. Mapped' = Mapped
  BY DEF Mapped
<1> QED
  BY <1>1, <1>2 DEF Making, OneKey, LostStayOpen, ClosedKeyed

LEMMA CreateNumbers ==
  ASSUME Shape, NumberInv, NEW c \in Caller, NEW f \in Config \cup {None}, Create(c, f),
         key'[c] \in Key, \A d \in Caller \ {c} : key'[d] = key[d],
         Mapped' \subseteq Mapped, OneKey', failed' = failed,
         dropped' \subseteq 1 .. created, dropped' \subseteq open \ Mapped',
         \A d \in Caller : pc[d] = "create" => own[d] \notin dropped'
  PROVE  NumberInv'
<1>1. created \in Nat
  BY ConstantsAssumption DEF Shape
<1>2. created + 1 \notin open \cup Mapped \cup failed \cup dropped'
      /\ \A d \in Caller : own[d] # created + 1
  BY <1>1 DEF Shape, Mapped
<1>3. /\ own' = [own EXCEPT ![c] = created + 1] /\ open' = open \cup {created + 1}
      /\ pc' = [pc EXCEPT ![c] = "create"]
  BY DEF Create, Goto
<1>4. Making'
  BY <1>2, <1>3 DEF Shape, NumberInv, Making
<1>5. LostStayOpen'
  BY <1>3 DEF NumberInv, LostStayOpen
<1>6. ClosedKeyed'
  BY <1>3 DEF Shape, NumberInv, ClosedKeyed
<1> QED
  BY <1>4, <1>5, <1>6 DEF NumberInv

LEMMA NumberStep ==
  ASSUME Shape, NumberInv, [EngineNext]_vars
  PROVE  NumberInv'
<1> USE DEF registryVars, calls, history
<1>1. ASSUME NEW c \in Caller, NEW k \in Key, NEW f \in Config, AskKnown(c, k, f)
      PROVE  NumberInv'
  <2>1. /\ Goto(c, "returned") /\ UNCHANGED <<managers, failed, dropped, open>>
        /\ \A d \in Caller \ {c} : key'[d] = key[d] /\ own'[d] = own[d]
    BY <1>1 DEF AskKnown, Return, Shape
  <2> QED
    BY <2>1, OthersMaking DEF Place
<1>2. ASSUME NEW c \in Caller, NEW k \in Key, NEW f \in Config, AskNew(c, k, f)
      PROVE  NumberInv'
  <2>1. /\ Create(c, f) /\ key' = [key EXCEPT ![c] = k]
        /\ UNCHANGED <<managers, failed, dropped>>
    BY <1>2 DEF AskNew, Asks
  <2>2. key'[c] \in Key /\ \A d \in Caller \ {c} : key'[d] = key[d]
    BY <2>1 DEF Shape
  <2>3. Mapped' = Mapped /\ OneKey'
    BY <2>1 DEF Mapped, NumberInv, OneKey
  <2>4. dropped' \subseteq 1 .. created /\ dropped' \subseteq open \ Mapped'
        /\ \A d \in Caller : pc[d] = "create" => own[d] \notin dropped'
    BY <2>1, <2>3 DEF Shape, NumberInv, LostStayOpen, Making
  <2> QED
    BY <2>1, <2>2, <2>3, <2>4, CreateNumbers
<1>3. ASSUME NEW c \in Caller, NEW k \in Key, NEW f \in Config, AskOther(c, k, f)
      PROVE  NumberInv'
  <2>1. /\ pc' = [pc EXCEPT ![c] = "closed"] /\ key' = [key EXCEPT ![c] = k]
        /\ UNCHANGED <<managers, own, failed, dropped>>
        /\ open' = open \ {managers[k]} /\ pc[c] = "idle" /\ managers[k] \in Mapped
    BY <1>3 DEF AskOther, Asks, Goto, Mapped
  <2>2. Mapped' = Mapped /\ OneKey'
    BY <2>1 DEF Mapped, NumberInv, OneKey
  <2>3. LostStayOpen'
    BY <2>1, <2>2 DEF NumberInv, LostStayOpen
  <2>4. Making'
    BY <2>1, <2>2 DEF Shape, NumberInv, Making
  <2>5. ClosedKeyed'
    BY <2>1 DEF Shape, NumberInv, ClosedKeyed
  <2> QED
    BY <2>2, <2>3, <2>4, <2>5 DEF NumberInv
<1>4. ASSUME NEW c \in Caller, Replace(c) PROVE NumberInv'
  <2>1. /\ key[c] \in Key /\ UNCHANGED <<key, failed>>
        /\ managers' = [managers EXCEPT ![key[c]] = 0]
        /\ dropped' = IF managers[key[c]] \in open \ reopened
                      THEN dropped \cup {managers[key[c]]} ELSE dropped
    BY <1>4 DEF Replace, Drops, NumberInv, ClosedKeyed
  <2>2. Create(c, config[c]) /\ config[c] \in Config \cup {None}
    BY <1>4 DEF Replace, Shape
  <2>3. OneKey'
    BY <2>1 DEF Shape, NumberInv, OneKey
  <2>4. Mapped' = Mapped \ {managers[key[c]]}
    BY <2>1 DEF Shape, NumberInv, OneKey, Mapped
  <2>5. dropped' \subseteq 1 .. created
    BY <2>1 DEF Shape
  <2>6. dropped' \subseteq open \ Mapped'
    BY <2>1, <2>4 DEF NumberInv, LostStayOpen
  <2>7. \A d \in Caller : pc[d] = "create" => own[d] \notin dropped'
    <3>1. \A m \in open : m = managers[key[c]] => m \in Mapped
      BY <2>1, ConstantsAssumption DEF Mapped, Shape
    <3> QED
      BY <2>1, <3>1 DEF NumberInv, Making
  <2> QED
    BY <2>1, <2>2, <2>3, <2>4, <2>5, <2>6, <2>7, CreateNumbers
<1>5. ASSUME NEW c \in Caller, Created(c) PROVE NumberInv'
  <2>1. /\ key[c] \in Key /\ own[c] \in open \ (Mapped \cup failed \cup dropped)
        /\ managers' = [managers EXCEPT ![key[c]] = own[c]]
        /\ dropped' = IF managers[key[c]] \in open \ reopened
                      THEN dropped \cup {managers[key[c]]} ELSE dropped
        /\ pc' = [pc EXCEPT ![c] = "returned"]
        /\ key' = [key EXCEPT ![c] = None]
        /\ own' = [own EXCEPT ![c] = own[c]]
        /\ UNCHANGED <<open, failed>> /\ pc[c] = "create"
    BY <1>5 DEF Created, Return, Goto, Drops, NumberInv, Making
  <2>2. own[c] # 0 /\ \A m \in open : m = managers[key[c]] => m \in Mapped
    BY <2>1, ConstantsAssumption DEF Mapped, Shape
  <2>3. OneKey'
    BY <2>1, <2>2 DEF Shape, NumberInv, OneKey, Mapped
  <2>4. Mapped' = (Mapped \ {managers[key[c]]}) \cup {own[c]}
    BY <2>1, <2>2 DEF Shape, NumberInv, OneKey, Mapped
  <2>5. LostStayOpen'
    BY <2>1, <2>2, <2>4 DEF NumberInv, LostStayOpen
  <2>6. Making'
    BY <2>1, <2>2, <2>4 DEF Shape, NumberInv, Making
  <2>7. ClosedKeyed'
    BY <2>1 DEF Shape, NumberInv, ClosedKeyed
  <2> QED
    BY <2>3, <2>5, <2>6, <2>7 DEF NumberInv
<1>6. ASSUME NEW c \in Caller, StatusFails(c) PROVE NumberInv'
  <2>1. /\ own[c] \in open \ (Mapped \cup failed \cup dropped)
        /\ pc' = [pc EXCEPT ![c] = "returned"]
        /\ key' = [key EXCEPT ![c] = None] /\ own' = [own EXCEPT ![c] = 0]
        /\ failed' = failed \cup {own[c]}
        /\ UNCHANGED <<managers, open, dropped>> /\ pc[c] = "create"
    BY <1>6 DEF StatusFails, Return, Goto, NumberInv, Making
  <2>2. Mapped' = Mapped /\ OneKey'
    BY <2>1 DEF Mapped, NumberInv, OneKey
  <2>3. LostStayOpen'
    BY <2>1, <2>2 DEF NumberInv, LostStayOpen
  <2>4. Making'
    BY <2>1, <2>2 DEF Shape, NumberInv, Making
  <2>5. ClosedKeyed'
    BY <2>1 DEF Shape, NumberInv, ClosedKeyed
  <2> QED
    BY <2>2, <2>3, <2>4, <2>5 DEF NumberInv
<1>7. ASSUME CloseAll \/ UNCHANGED vars PROVE NumberInv'
  BY <1>7 DEF CloseAll, vars, NumberInv, Making, OneKey, LostStayOpen, ClosedKeyed, Mapped
<1>8. ASSUME NEW k \in Key, CloseNext(k) PROVE NumberInv'
  <2>1. /\ UNCHANGED <<managers, pc, key, own, failed, dropped>>
        /\ open' = open \ {managers[k]} /\ managers[k] \in Mapped
    BY <1>8 DEF CloseNext, Mapped
  <2>2. Mapped' = Mapped
    BY <2>1 DEF Mapped
  <2> QED
    BY <2>1, <2>2 DEF NumberInv, Making, OneKey, LostStayOpen, ClosedKeyed
<1>9. ASSUME Clear PROVE NumberInv'
  <2>1. /\ managers' = [k \in Key |-> 0] /\ UNCHANGED <<open, pc, key, own, failed>>
        /\ dropped' = dropped \cup ((Mapped \cap open) \ reopened)
    BY <1>9 DEF Clear
  <2>2. Mapped' = {} /\ OneKey'
    BY <2>1 DEF Mapped, OneKey
  <2> QED
    BY <2>1, <2>2 DEF NumberInv, Making, LostStayOpen, ClosedKeyed
<1>10. ASSUME NEW c \in Caller, Returned(c) \/ Assembled(c) PROVE NumberInv'
  <2>1. /\ Goto(c, "idle") /\ UNCHANGED <<managers, failed, dropped, open, key>>
        /\ \A d \in Caller \ {c} : own'[d] = own[d]
    BY <1>10 DEF Returned, Assembled, End, Shape
  <2> QED
    BY <2>1, OthersMaking DEF Place
<1>11. ASSUME NEW c \in Caller, Search(c) \/ ReadFile(c) PROVE NumberInv'
  <2>1. /\ Goto(c, "read") /\ UNCHANGED <<managers, failed, dropped, key, own>>
        /\ open \subseteq open'
    BY <1>11 DEF Search, ReadFile, UseManager, Use
  <2> QED
    BY <2>1, OthersMaking DEF Place
<1>12. ASSUME NEW c \in Caller, AskDiary(c) \/ ListDiary(c) \/ AfterTurn(c) \/ AppendDiary(c)
       PROVE  NumberInv'
  <2>1. /\ \E place \in {"list", "listed", "append", "idle"} : Goto(c, place)
        /\ UNCHANGED <<managers, failed, dropped, key, own, open>>
    BY <1>12 DEF AskDiary, ListDiary, AfterTurn, AppendDiary
  <2> QED
    BY <2>1, OthersMaking DEF Place
<1> QED
  BY <1>1, <1>2, <1>3, <1>4, <1>5, <1>6, <1>7, <1>8, <1>9, <1>10, <1>11, <1>12
  DEF EngineNext, RegistryNext

LEMMA NumbersKept == Spec => [](Shape /\ NumberInv)
<1>1. ASSUME EngineInit PROVE Shape
  <2>1. created = 0 /\ created \in 0 .. MaxManagers /\ 0 \in 0 .. created
    BY <1>1, ConstantsAssumption DEF EngineInit, Init
  <2>2. managers \in [Key -> 0 .. created] /\ own \in [Caller -> 0 .. created]
    BY <1>1, <2>1 DEF EngineInit, Init
  <2>3. /\ configOf \in [Manager -> Config \cup {None}] /\ pc \in [Caller -> Place]
        /\ key \in [Caller -> Key \cup {None}] /\ config \in [Caller -> Config \cup {None}]
    BY <1>1 DEF EngineInit, Init, Place
  <2> QED
    BY <1>1, <2>1, <2>2, <2>3 DEF EngineInit, Init, Shape
<1>2. EngineInit => NumberInv
  BY DEF EngineInit, Init, NumberInv, Making, OneKey, LostStayOpen, ClosedKeyed
<1>3. Shape /\ NumberInv /\ [EngineNext]_vars => Shape' /\ NumberInv'
  BY ShapeStep, NumberStep DEF NumberInv
<1> QED
  BY <1>1, <1>2, <1>3, PTL DEF Spec

\* The variables have their types, and the process of a manager that was lost
\* is never closed.
THEOREM TypeCorrect == Spec => []TypeOK
<1>1. Shape /\ NumberInv => TypeOK
  BY DEF Shape, NumberInv, LostStayOpen, TypeOK
<1> QED
  BY <1>1, NumbersKept, PTL

-----------------------------------------------------------------------------
(***************************************************************************)
(* Owners.  As long as no two changes of the map have overlapped, one call *)
(* at a time changes it, and what it takes out of the map it has closed.   *)
(***************************************************************************)

\* A process that runs since its manager was made.
Fresh(m) == m \in open \ reopened

OneAtATime ==
  ~overlapped =>
    /\ closing => Mapping = {}
    /\ \A c, d \in Mapping : c = d
    /\ \A c \in Mapping : pc[c] = "closed" => ~Fresh(managers[key[c]])
    /\ \A c \in Mapping : pc[c] = "create" => managers[key[c]] = 0
    /\ closing => \A k \in visited : ~Fresh(managers[k])

\* A call has a manager only between creating it and its end.
NoneYet == \A c \in Caller : pc[c] \in {"idle", "append", "closed"} => own[c] = 0

LEMMA NoneStep ==
  ASSUME Shape, NoneYet, [EngineNext]_vars
  PROVE  NoneYet'
<1> USE DEF Shape, NoneYet, Goto, registryVars, calls, history
<1>1. ASSUME NEW c \in Caller, NEW k \in Key, NEW f \in Config,
             AskKnown(c, k, f) \/ AskNew(c, k, f) \/ AskOther(c, k, f)
      PROVE  NoneYet'
  BY <1>1 DEF AskKnown, AskNew, AskOther, Asks, Create, Return
<1>2. ASSUME NEW c \in Caller, Replace(c) \/ Created(c) \/ StatusFails(c) PROVE NoneYet'
  BY <1>2 DEF Replace, Created, StatusFails, Create, Return
<1>3. ASSUME UNCHANGED <<pc, own>> PROVE NoneYet'
  BY <1>3
<1>4. ASSUME NEW c \in Caller, Returned(c) \/ Assembled(c) PROVE NoneYet'
  BY <1>4 DEF Returned, Assembled, End
<1>5. ASSUME NEW c \in Caller, Search(c) \/ ReadFile(c) \/ AskDiary(c) \/ ListDiary(c)
      PROVE  NoneYet'
  BY <1>5 DEF Search, ReadFile, UseManager, AskDiary, ListDiary
<1>6. ASSUME NEW c \in Caller, AfterTurn(c) \/ AppendDiary(c) PROVE NoneYet'
  BY <1>6 DEF AfterTurn, AppendDiary
<1> QED
  BY <1>1, <1>2, <1>3, <1>4, <1>5, <1>6
  DEF EngineNext, RegistryNext, CloseAll, CloseNext, Clear, vars

OwnerInv == NoneYet /\ OneAtATime /\ ProcessesOwned

LEMMA OwnerStep ==
  ASSUME Shape, NumberInv, OwnerInv, [EngineNext]_vars
  PROVE  OneAtATime' /\ ProcessesOwned'
<1> USE DEF registryVars, calls, history
<1>0. created \in Nat /\ 0 \notin open /\ created + 1 \notin open
  BY ConstantsAssumption DEF Shape
<1>1. ASSUME NEW c \in Caller, NEW place \in Place \ {"create", "closed"}, Goto(c, place),
             c \notin Mapping, \A d \in Caller \ {c} : key'[d] = key[d] /\ own'[d] = own[d],
             UNCHANGED <<managers, open, closing, visited, overlapped, failed, reopened, dropped>>
      PROVE  OneAtATime' /\ ProcessesOwned'
  <2>1. Mapping' = Mapping /\ Mapped' = Mapped
    BY <1>1 DEF Shape, Mapping, Mapped, Goto
  <2>2. OneAtATime'
    BY <1>1, <2>1 DEF Shape, OwnerInv, OneAtATime, Mapping, Goto, Fresh
  <2>3. {own'[d] : d \in Mapping'} = {own[d] : d \in Mapping}
    BY <1>1, <2>1 DEF Mapping
  <2>4. ProcessesOwned'
    BY <1>1, <2>1, <2>3 DEF OwnerInv, ProcessesOwned
  <2> QED
    BY <2>2, <2>4
<1>2. ASSUME NEW c \in Caller, NEW k \in Key, NEW f \in Config, AskKnown(c, k, f)
      PROVE  OneAtATime' /\ ProcessesOwned'
  <2>1. /\ Goto(c, "returned") /\ c \notin Mapping
        /\ \A d \in Caller \ {c} : key'[d] = key[d] /\ own'[d] = own[d]
        /\ UNCHANGED <<managers, open, closing, visited, overlapped, failed, reopened, dropped>>
    BY <1>2 DEF AskKnown, Return, Mapping, Shape
  <2> QED
    BY <1>1, <2>1 DEF Place
<1>3. ASSUME NEW c \in Caller, NEW k \in Key, NEW f \in Config, AskNew(c, k, f)
      PROVE  OneAtATime' /\ ProcessesOwned'
  <2>1. /\ pc' = [pc EXCEPT ![c] = "create"] /\ key' = [key EXCEPT ![c] = k]
        /\ own' = [own EXCEPT ![c] = created + 1] /\ open' = open \cup {created + 1}
        /\ overlapped' = (overlapped \/ closing \/ Mapping # {}) /\ pc[c] = "idle"
        /\ managers[k] = 0
        /\ UNCHANGED <<managers, closing, visited, failed, reopened, dropped>>
    BY <1>3 DEF AskNew, Asks, Create, Goto
  <2>2. Mapping' = Mapping \cup {c} /\ Mapped' = Mapped
    BY <2>1 DEF Shape, Mapping, Mapped
  <2>3. OneAtATime'
    BY <2>1, <2>2 DEF Shape, OwnerInv, OneAtATime
  <2>4. {own'[d] : d \in Mapping'} = {own[d] : d \in Mapping} \cup {created + 1}
    BY <2>1, <2>2 DEF Shape, Mapping
  <2>5. ProcessesOwned'
    BY <2>1, <2>2, <2>4 DEF OwnerInv, ProcessesOwned
  <2> QED
    BY <2>3, <2>5
<1>4. ASSUME NEW c \in Caller, NEW k \in Key, NEW f \in Config, AskOther(c, k, f)
      PROVE  OneAtATime' /\ ProcessesOwned'
  <2>1. /\ pc' = [pc EXCEPT ![c] = "closed"] /\ key' = [key EXCEPT ![c] = k]
        /\ open' = open \ {managers[k]}
        /\ overlapped' = (overlapped \/ closing \/ Mapping # {}) /\ pc[c] = "idle"
        /\ UNCHANGED <<managers, own, closing, visited, failed, reopened, dropped>>
    BY <1>4 DEF AskOther, Asks, Goto
  <2>2. Mapping' = Mapping \cup {c} /\ Mapped' = Mapped
    BY <2>1 DEF Shape, Mapping, Mapped
  <2>3. OneAtATime'
    <3>1. CASE overlapped'
      BY <3>1 DEF OneAtATime
    <3>2. CASE ~overlapped'
      <4>1. ~closing /\ Mapping' = {c} /\ pc'[c] = "closed" /\ key'[c] = k
        BY <2>1, <2>2, <3>2 DEF Shape
      <4>2. managers' = managers /\ managers[k] \notin open' /\ ~closing'
        BY <2>1, <4>1
      <4> QED
        BY <4>1, <4>2 DEF OneAtATime, Fresh
    <3> QED
      BY <3>1, <3>2
  <2>4. {own[d] : d \in Mapping} \subseteq {own'[d] : d \in Mapping'}
    BY <2>1, <2>2
  <2>5. ProcessesOwned'
    BY <2>1, <2>2, <2>4 DEF OwnerInv, ProcessesOwned
  <2> QED
    BY <2>3, <2>5
<1>5. ASSUME NEW c \in Caller, Replace(c) PROVE OneAtATime' /\ ProcessesOwned'
  <2>1. /\ pc' = [pc EXCEPT ![c] = "create"] /\ pc[c] = "closed" /\ key[c] \in Key
        /\ own' = [own EXCEPT ![c] = created + 1] /\ open' = open \cup {created + 1}
        /\ managers' = [managers EXCEPT ![key[c]] = 0]
        /\ visited' = visited \ {key[c]}
        /\ dropped' = IF Fresh(managers[key[c]])
                      THEN dropped \cup {managers[key[c]]} ELSE dropped
        /\ UNCHANGED <<key, closing, overlapped, failed, reopened>>
    BY <1>5 DEF Replace, Create, Goto, Drops, Fresh, NumberInv, ClosedKeyed
  <2>2. Mapping' = Mapping /\ c \in Mapping
    BY <2>1 DEF Shape, Mapping
  <2>3. Mapped \subseteq Mapped' \cup {managers[key[c]]}
    BY <2>1 DEF Shape, Mapped
  <2>4. OneAtATime'
    BY <2>1, <2>2 DEF Shape, OwnerInv, OneAtATime, Mapping
  <2>5. open' \cap {own[d] : d \in Mapping} \subseteq {own'[d] : d \in Mapping'} \cup {own[c]}
    BY <2>1, <2>2 DEF Shape, Mapping
  <2>6. created + 1 \in {own'[d] : d \in Mapping'}
    BY <2>1, <2>2 DEF Shape
  <2>7. own[c] \notin open
    <3>1. own[c] = 0
      BY <2>1 DEF OwnerInv, NoneYet
    <3> QED
      BY <3>1, <1>0
  <2>8. Fresh(managers[key[c]]) => overlapped /\ managers[key[c]] \in dropped'
    BY <2>1, <2>2 DEF OwnerInv, OneAtATime
  <2>9. ProcessesOwned'
    BY <2>1, <2>3, <2>5, <2>6, <2>7, <2>8 DEF OwnerInv, ProcessesOwned, Fresh
  <2> QED
    BY <2>4, <2>9
<1>6. ASSUME NEW c \in Caller, Created(c) PROVE OneAtATime' /\ ProcessesOwned'
  <2>1. /\ pc' = [pc EXCEPT ![c] = "returned"] /\ pc[c] = "create" /\ key[c] \in Key
        /\ \A d \in Caller \ {c} : key'[d] = key[d] /\ own'[d] = own[d]
        /\ managers' = [managers EXCEPT ![key[c]] = own[c]]
        /\ dropped' = IF Fresh(managers[key[c]])
                      THEN dropped \cup {managers[key[c]]} ELSE dropped
        /\ own[c] \in open
        /\ UNCHANGED <<open, closing, visited, overlapped, failed, reopened>>
    BY <1>6 DEF Created, Return, Goto, Drops, Fresh, Shape, NumberInv, Making
  <2>2. Mapping' = Mapping \ {c} /\ c \in Mapping
    BY <2>1 DEF Shape, Mapping
  <2>3. Mapped \subseteq Mapped' \cup {managers[key[c]]} /\ own[c] \in Mapped'
    BY <1>0, <2>1 DEF Shape, Mapped
  <2>4. OneAtATime'
    BY <2>1, <2>2 DEF Shape, OwnerInv, OneAtATime, Mapping
  <2>5. {own[d] : d \in Mapping} \subseteq {own'[d] : d \in Mapping'} \cup {own[c]}
    BY <2>1, <2>2 DEF Mapping
  <2>6. Fresh(managers[key[c]]) => overlapped /\ managers[key[c]] \in dropped'
    BY <1>0, <2>1, <2>2 DEF OwnerInv, OneAtATime, Fresh
  <2>7. ProcessesOwned'
    BY <2>1, <2>3, <2>5, <2>6 DEF OwnerInv, ProcessesOwned, Fresh
  <2> QED
    BY <2>4, <2>7
<1>7. ASSUME NEW c \in Caller, StatusFails(c) PROVE OneAtATime' /\ ProcessesOwned'
  <2>1. /\ pc' = [pc EXCEPT ![c] = "returned"]
        /\ \A d \in Caller \ {c} : key'[d] = key[d] /\ own'[d] = own[d]
        /\ failed' = failed \cup {own[c]}
        /\ UNCHANGED <<managers, open, closing, visited, overlapped, dropped, reopened>>
    BY <1>7 DEF StatusFails, Return, Goto, Shape
  <2>2. Mapping' = Mapping \ {c} /\ Mapped' = Mapped
    BY <2>1 DEF Shape, Mapping, Mapped
  <2>3. OneAtATime'
    BY <2>1, <2>2 DEF Shape, OwnerInv, OneAtATime, Mapping, Fresh
  <2>4. {own[d] : d \in Mapping} \subseteq {own'[d] : d \in Mapping'} \cup {own[c]}
    BY <2>1, <2>2 DEF Mapping
  <2>5. ProcessesOwned'
    BY <2>1, <2>2, <2>4 DEF OwnerInv, ProcessesOwned
  <2> QED
    BY <2>3, <2>5
<1>8. ASSUME CloseAll PROVE OneAtATime' /\ ProcessesOwned'
  <2>1. Mapping' = Mapping /\ Mapped' = Mapped
    BY <1>8 DEF CloseAll, Mapping, Mapped
  <2>2. OneAtATime'
    BY <1>8, <2>1 DEF CloseAll, OwnerInv, OneAtATime, Fresh
  <2>3. ProcessesOwned'
    BY <1>8, <2>1 DEF CloseAll, OwnerInv, ProcessesOwned
  <2> QED
    BY <2>2, <2>3
<1>9. ASSUME NEW k \in Key, CloseNext(k) PROVE OneAtATime' /\ ProcessesOwned'
  <2>1. Mapping' = Mapping /\ Mapped' = Mapped
    BY <1>9 DEF CloseNext, Mapping, Mapped
  <2>2. OneAtATime'
    BY <1>9, <2>1 DEF CloseNext, OwnerInv, OneAtATime, Fresh
  <2>3. ProcessesOwned'
    BY <1>9, <2>1 DEF CloseNext, OwnerInv, ProcessesOwned
  <2> QED
    BY <2>2, <2>3
<1>10. ASSUME Clear PROVE OneAtATime' /\ ProcessesOwned'
  <2>1. Mapping' = Mapping
    BY <1>10 DEF Clear, Mapping
  <2>2. OneAtATime'
    BY <1>10, <2>1 DEF Clear, OwnerInv, OneAtATime
  <2>3. ~overlapped => \A m \in Mapped : ~Fresh(m)
    BY <1>10 DEF Clear, OwnerInv, OneAtATime, Mapped, Shape
  <2>4. \A m \in Mapped : Fresh(m) => m \in dropped'
    BY <1>10 DEF Clear, Fresh
  <2>5. dropped \subseteq dropped' /\ UNCHANGED <<open, pc, own, overlapped, failed, reopened>>
    BY <1>10 DEF Clear
  <2>6. ProcessesOwned'
    BY <2>1, <2>3, <2>4, <2>5 DEF OwnerInv, ProcessesOwned, Fresh
  <2> QED
    BY <2>2, <2>6
<1>11. ASSUME NEW c \in Caller, Returned(c) \/ Assembled(c)
       PROVE  OneAtATime' /\ ProcessesOwned'
  <2>1. /\ Goto(c, "idle") /\ c \notin Mapping
        /\ \A d \in Caller \ {c} : key'[d] = key[d] /\ own'[d] = own[d]
        /\ UNCHANGED <<managers, open, closing, visited, overlapped, failed, reopened, dropped>>
    BY <1>11 DEF Returned, Assembled, End, Mapping, Shape
  <2> QED
    BY <1>1, <2>1 DEF Place
<1>12. ASSUME NEW c \in Caller, Search(c) \/ ReadFile(c) PROVE OneAtATime' /\ ProcessesOwned'
  <2>1. /\ pc' = [pc EXCEPT ![c] = "read"] /\ pc[c] \in {"returned", "read"}
        /\ Use(own[c])
        /\ UNCHANGED <<managers, key, own, closing, visited, overlapped, failed, dropped>>
    BY <1>12 DEF Search, ReadFile, UseManager, Goto
  <2>2. Mapping' = Mapping /\ Mapped' = Mapped
    BY <2>1 DEF Shape, Mapping, Mapped
  <2>3. \A m : Fresh(m)' => Fresh(m)
    BY <2>1 DEF Use, Fresh
  <2>4. OneAtATime'
    BY <2>1, <2>2, <2>3 DEF Shape, OwnerInv, OneAtATime, Mapping
  <2>5. ProcessesOwned'
    BY <2>1, <2>2 DEF Use, OwnerInv, ProcessesOwned
  <2> QED
    BY <2>4, <2>5
<1>13. ASSUME NEW c \in Caller, AskDiary(c) \/ ListDiary(c) \/ AfterTurn(c) \/ AppendDiary(c)
       PROVE  OneAtATime' /\ ProcessesOwned'
  <2>1. /\ \E place \in {"list", "listed", "append", "idle"} : Goto(c, place)
        /\ c \notin Mapping
        /\ UNCHANGED <<managers, key, own, open, closing, visited, overlapped, failed,
                       reopened, dropped>>
    BY <1>13 DEF AskDiary, ListDiary, AfterTurn, AppendDiary, Mapping
  <2> QED
    BY <1>1, <2>1 DEF Place
<1>14. ASSUME UNCHANGED vars PROVE OneAtATime' /\ ProcessesOwned'
  <2>1. Mapping' = Mapping /\ Mapped' = Mapped
    BY <1>14 DEF vars, Mapping, Mapped
  <2> QED
    BY <1>14, <2>1 DEF vars, OwnerInv, OneAtATime, ProcessesOwned, Fresh
<1> QED
  BY <1>2, <1>3, <1>4, <1>5, <1>6, <1>7, <1>8, <1>9, <1>10, <1>11, <1>12, <1>13, <1>14
  DEF EngineNext, RegistryNext

\* Only a failed first status, a manager that is used after it was closed, or two
\* changes of the map that overlap leave a process that nobody owns.
THEOREM OwnersKnown == Spec => []ProcessesOwned
<1>1. EngineInit => OwnerInv
  BY DEF EngineInit, Init, OwnerInv, NoneYet, OneAtATime, ProcessesOwned, Mapping
<1>2. Shape /\ NumberInv /\ OwnerInv /\ [EngineNext]_vars => OwnerInv'
  BY OwnerStep, NoneStep DEF OwnerInv
<1>3. OwnerInv => ProcessesOwned
  BY DEF OwnerInv
<1> QED
  BY <1>1, <1>2, <1>3, NumbersKept, PTL DEF Spec

-----------------------------------------------------------------------------
(***************************************************************************)
(* The clients of the diary.                                               *)
(***************************************************************************)

LEMMA DiaryStep ==
  ASSUME Shape, DiaryClosed, [EngineNext]_vars
  PROVE  DiaryClosed'
<1> USE DEF Shape, DiaryClosed, Goto, registryVars, calls, history
<1>1. ASSUME NEW c \in Caller, NEW k \in Key, NEW f \in Config, UNCHANGED diaryOpen,
             AskKnown(c, k, f) \/ AskNew(c, k, f) \/ AskOther(c, k, f)
      PROVE  DiaryClosed'
  BY <1>1 DEF AskKnown, AskNew, AskOther, Asks, Create, Return
<1>2. ASSUME NEW c \in Caller, UNCHANGED diaryOpen,
             Replace(c) \/ Created(c) \/ StatusFails(c)
      PROVE  DiaryClosed'
  BY <1>2 DEF Replace, Created, StatusFails, Create, Return
<1>3. ASSUME UNCHANGED diaryOpen, UNCHANGED pc PROVE DiaryClosed'
  BY <1>3
<1>4. ASSUME NEW c \in Caller, Returned(c) \/ Assembled(c) PROVE DiaryClosed'
  BY <1>4 DEF Returned, Assembled, End
<1>5. ASSUME NEW c \in Caller, Search(c) \/ ReadFile(c) PROVE DiaryClosed'
  BY <1>5 DEF Search, ReadFile, UseManager
<1>6. ASSUME NEW c \in Caller, AskDiary(c) \/ ListDiary(c) \/ AfterTurn(c) PROVE DiaryClosed'
  BY <1>6 DEF AskDiary, ListDiary, AfterTurn
<1>7. ASSUME NEW c \in Caller, AppendDiary(c) PROVE DiaryClosed'
  BY <1>7 DEF AppendDiary
<1> QED
  BY <1>1, <1>2, <1>3, <1>4, <1>5, <1>6, <1>7
  DEF EngineNext, RegistryNext, CloseAll, CloseNext, Clear, vars

\* No process of a diary client outlives the call it was made for, whether the
\* diary answered or failed.
THEOREM DiaryClients == Spec => []DiaryClosed
<1>1. EngineInit => DiaryClosed
  BY DEF EngineInit, DiaryClosed
<1>2. Shape /\ DiaryClosed /\ [EngineNext]_vars => DiaryClosed'
  BY DiaryStep
<1> QED
  BY <1>1, <1>2, NumbersKept, PTL DEF Spec
=============================================================================
