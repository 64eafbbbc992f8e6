------------------------ MODULE H2Generation_proofs ------------------------
(***************************************************************************)
(* Proofs about H2Generation for any number of exchanges and generations,  *)
(* any limits and any capacity of the pool.                                *)
(*                                                                         *)
(* What the properties need beyond themselves: a generation that is being  *)
(* made is known to its maker alone; one that an exchange has reserved, or *)
(* has still to try, is not made anew under its feet; the slot and the     *)
(* control of a generation follow its driver; and the socket of a private  *)
(* one has an exchange that waits for it.                                  *)
(***************************************************************************)
EXTENDS H2Generation, Integers, SequenceTheorems, TLAPS

\* The entries of the pool: only HTTP/2 ones have a generation.
SlotSet == [entry : {"H2", "RetiringH2"}, gen : Gens] \cup {Slot("H1", None)}

CandidateSet == UNION {[S -> Gens] : S \in SUBSET (1 .. PoolCapacity)}

Drivers == {"none", "running", "ended", "waiting"}
Sockets == {"none", "open", "closing", "dropped"}
Live    == {"LiveEnabled", "LiveDisabled"}
Making  == {"handshake", "gate"}
Reserved == {"reserve", "selected"} \cup Dispatched

H2Types ==
    /\ active \in Nat /\ pool \in Seq(SlotSet)
    /\ state \in [Gens -> States] /\ selectable \in [Gens -> BOOLEAN]
    /\ offer \in [Gens -> BOOLEAN] /\ master \in [Gens -> BOOLEAN]
    /\ published \in [Gens -> BOOLEAN]
    /\ limit \in [Gens -> Nat] /\ streams \in [Gens -> Nat]
    /\ driver \in [Gens -> Drivers] /\ transport \in [Gens -> Sockets]
    /\ phase \in [Exchanges -> Phases] /\ gen \in [Exchanges -> Gens \cup {None}]
    /\ private \in [Exchanges -> BOOLEAN] /\ candidates \in [Exchanges -> CandidateSet]

\* The control, the driver and the socket of a generation.
StateOK(g) ==
    /\ published[g] => driver[g] # "none"
    /\ driver[g] = "running" => transport[g] = "open"
    /\ driver[g] \in {"ended", "waiting"} =>
          state[g] \in {"Retiring", "Closed"} /\ transport[g] \in {"closing", "dropped"}
    /\ transport[g] = "none" => state[g] = "Closed"
    /\ selectable[g] => state[g] \in Live
    /\ state[g] = "LiveEnabled" => offer[g]

\* A published generation has one slot in pool p, which the driver turns into RetiringH2.
SlotsIn(p, g) == {i \in DOMAIN p : p[i].entry # "H1" /\ p[i].gen = g}

OneSlot(p, g, public, task) ==
    /\ public <=> SlotsIn(p, g) # {}
    /\ \A i, j \in SlotsIn(p, g) : i = j
    /\ task = "waiting" => \A i \in SlotsIn(p, g) : p[i].entry = "RetiringH2"

SlotsOK(g) == OneSlot(pool, g, published[g], driver[g])

\* The exchange that pays for the socket of a generation that is not published.
Pays(x, g) ==
    /\ gen[x] = g
    /\ IF driver[g] = "none" THEN phase[x] \in Making \cup {"await_drop"}
       ELSE private[x] /\ phase[x] \in {"selected", "await_drop"} \cup Dispatched

Paid(g) == HasSocket(g) /\ ~published[g] => \E x \in Exchanges : Pays(x, g)

\* A generation that somebody still refers to is alive, or closed for good.
Known(g) == driver[g] # "none" \/ state[g] = "Closed"

ExchangeOK(x) ==
    /\ gen[x] = None <=> phase[x] \in {"idle", "select"}
    /\ phase[x] \in Making =>
          /\ driver[gen[x]] = "none"
          /\ \A y \in Exchanges : /\ y # x => gen[y] # gen[x]
                                  /\ \A i \in DOMAIN candidates[y] : candidates[y][i] # gen[x]
    /\ phase[x] = "handshake" => state[gen[x]] = "Proving"
    /\ phase[x] \in Reserved => Known(gen[x])
    /\ \A i \in DOMAIN candidates[x] : Known(candidates[x][i])

H2Inv ==
    /\ H2Types
    /\ Len(pool) <= PoolCapacity
    /\ \A g \in Gens : StateOK(g) /\ SlotsOK(g) /\ Paid(g)
    /\ \A x \in Exchanges : ExchangeOK(x)
-----------------------------------------------------------------------------
(* The slots of the pool.                                                  *)

\* What is left of the pool keeps its order: one position falls out.
LEMMA FirstRemoved ==
    ASSUME pool \in Seq(SlotSet), NEW e, DropFirst(e)
    PROVE  \/ pool' = pool /\ \A i \in 1 .. Len(pool) : pool[i] # e
           \/ /\ pool' \in Seq(SlotSet) /\ Len(pool') = Len(pool) - 1
              /\ \E k \in 1 .. Len(pool) :
                    /\ pool[k] = e
                    /\ \A i \in 1 .. Len(pool) - 1 :
                          pool'[i] = IF i < k THEN pool[i] ELSE pool[i + 1]
<1> DEFINE n == Len(pool)
<1>1. n \in Nat /\ DOMAIN pool = 1 .. n /\ \A i \in 1 .. n : pool[i] \in SlotSet
  BY LenProperties, ElementOfSeq
<1>2. CASE e \notin Range(pool) /\ pool' = pool
  BY <1>1, <1>2 DEF Range
<1>3. ASSUME NEW k \in DOMAIN pool, pool[k] = e,
             pool' = [i \in 1 .. n - 1 |-> IF i < k THEN pool[i] ELSE pool[i + 1]]
      PROVE  /\ pool' \in Seq(SlotSet) /\ Len(pool') = n - 1
             /\ \A i \in 1 .. n - 1 : pool'[i] = IF i < k THEN pool[i] ELSE pool[i + 1]
  <2> HIDE DEF n
  <2>1. \A i \in 1 .. n - 1 : i \in 1 .. n /\ i + 1 \in 1 .. n
    BY <1>1
  <2>2. n - 1 \in Nat /\ \A i \in 1 .. n - 1 : pool'[i] \in SlotSet
    BY <1>1, <1>3, <2>1
  <2> QED BY <1>3, <2>2, IsASeq
<1> QED BY <1>1, <1>2, <1>3 DEF DropFirst

LEMMA SlotsRetired ==
    ASSUME pool \in Seq(SlotSet), NEW h \in Gens
    PROVE  /\ RetiringSlots(h) \in Seq(SlotSet) /\ Len(RetiringSlots(h)) = Len(pool)
           /\ \A g \in Gens, public \in BOOLEAN, task \in Drivers : OneSlot(pool, g, public, task) =>
                 OneSlot(RetiringSlots(h), g, public, task)
<1> DEFINE r == RetiringSlots(h)
<1>1. \A i \in 1 .. Len(pool) : pool[i] \in SlotSet
  BY Zenon, ElementOfSeq
<1>2. DOMAIN pool = 1 .. Len(pool) /\ Len(pool) \in Nat
  BY Zenon, LenProperties
<1>3. r = [i \in 1 .. Len(pool) |-> IF pool[i] = Slot("H2", h) THEN Slot("RetiringH2", h) ELSE pool[i]]
  BY Zenon, <1>2 DEF RetiringSlots
<1>4. \A i \in 1 .. Len(pool) : r[i] \in SlotSet /\ r[i].gen = pool[i].gen
         /\ (r[i].entry = "H1" <=> pool[i].entry = "H1")
         /\ (pool[i].entry = "RetiringH2" => r[i].entry = "RetiringH2")
  BY <1>1, <1>3 DEF Slot, SlotSet
<1>5. r \in Seq(SlotSet) /\ Len(r) = Len(pool) /\ DOMAIN r = 1 .. Len(pool)
  <2>1. r \in [1 .. Len(pool) -> SlotSet]
    BY Zenon, <1>3, <1>4
  <2> HIDE DEF r
  <2> QED BY <1>2, <2>1, IsASeq, LenProperties
<1> HIDE DEF r
<1>6. \A g \in Gens : SlotsIn(r, g) = SlotsIn(pool, g)
  BY Zenon, <1>2, <1>4, <1>5 DEF SlotsIn
<1>7. ASSUME NEW g \in Gens, NEW public \in BOOLEAN, NEW task \in Drivers, OneSlot(pool, g, public, task)
      PROVE  OneSlot(r, g, public, task)
  <2>1. \A i \in SlotsIn(pool, g) : pool[i].entry = "RetiringH2" => r[i].entry = "RetiringH2"
    BY Zenon, <1>2, <1>4 DEF SlotsIn
  <2> QED BY Zenon, <1>6, <1>7, <2>1 DEF OneSlot
<1> QED BY Zenon, <1>5, <1>7 DEF r

LEMMA SlotAppended ==
    ASSUME pool \in Seq(SlotSet), NEW e \in SlotSet
    PROVE  /\ Append(pool, e) \in Seq(SlotSet) /\ Len(Append(pool, e)) = Len(pool) + 1
           /\ \A g \in Gens, public \in BOOLEAN, task \in Drivers :
                 (e.entry = "H1" \/ e.gen # g) /\ OneSlot(pool, g, public, task) =>
                    OneSlot(Append(pool, e), g, public, task)
           /\ \A g \in Gens, task \in Drivers : e = Slot("H2", g) /\ OneSlot(pool, g, FALSE, task) =>
                    OneSlot(Append(pool, e), g, TRUE, "running")
<1> DEFINE r == Append(pool, e)
           n == Len(pool)
<1>1. /\ r \in Seq(SlotSet) /\ Len(r) = n + 1 /\ DOMAIN r = 1 .. n + 1 /\ DOMAIN pool = 1 .. n
      /\ n \in Nat /\ r[n + 1] = e /\ \A i \in 1 .. n : r[i] = pool[i]
  BY AppendProperties, LenProperties
<1> HIDE DEF r, n
<1>2. \A g \in Gens : SlotsIn(r, g) = SlotsIn(pool, g) \cup (IF e.entry # "H1" /\ e.gen = g THEN {n + 1} ELSE {})
  BY <1>1 DEF SlotsIn
<1>3. ASSUME NEW g \in Gens, NEW public \in BOOLEAN, NEW task \in Drivers, e.entry = "H1" \/ e.gen # g,
             OneSlot(pool, g, public, task)
      PROVE  OneSlot(r, g, public, task)
  <2>1. SlotsIn(r, g) = SlotsIn(pool, g) /\ \A i \in SlotsIn(pool, g) : r[i] = pool[i]
    BY Zenon, <1>1, <1>2, <1>3 DEF SlotsIn
  <2> QED BY Zenon, <1>3, <2>1 DEF OneSlot
<1>4. ASSUME NEW g \in Gens, NEW task \in Drivers, e = Slot("H2", g), OneSlot(pool, g, FALSE, task)
      PROVE  OneSlot(r, g, TRUE, "running")
  <2>1. SlotsIn(r, g) = {n + 1}
    BY Zenon, <1>2, <1>4 DEF OneSlot, Slot
  <2> QED BY Zenon, <2>1 DEF OneSlot
<1> QED BY Zenon, <1>1, <1>3, <1>4 DEF r, n

LEMMA SlotRemoved ==
    ASSUME pool \in Seq(SlotSet), NEW e \in SlotSet, DropFirst(e)
    PROVE  /\ pool' \in Seq(SlotSet) /\ Len(pool') <= Len(pool)
           /\ \A g \in Gens, public \in BOOLEAN, task \in Drivers :
                 (e.entry = "H1" \/ e.gen # g) /\ OneSlot(pool, g, public, task) =>
                    OneSlot(pool', g, public, task)
           /\ \A g \in Gens, public \in BOOLEAN :
                 e = Slot("RetiringH2", g) /\ OneSlot(pool, g, public, "waiting") =>
                    OneSlot(pool', g, FALSE, "none")
<1> DEFINE r == pool'
           n == Len(pool)
<1>1. n \in Nat /\ DOMAIN pool = 1 .. n /\ \A i \in 1 .. n : pool[i] \in SlotSet
  BY Zenon, LenProperties, ElementOfSeq
<1>2. CASE r = pool /\ \A i \in 1 .. n : pool[i] # e
  <2>1. ASSUME NEW g \in Gens, NEW public \in BOOLEAN, e = Slot("RetiringH2", g),
               OneSlot(pool, g, public, "waiting")
        PROVE  OneSlot(pool, g, FALSE, "none")
    <3>1. \A i \in SlotsIn(pool, g) : pool[i] = e
      BY Zenon, <1>1, <2>1 DEF OneSlot, SlotsIn, Slot, SlotSet
    <3>2. SlotsIn(pool, g) = {}
      BY Zenon, <1>1, <1>2, <3>1 DEF SlotsIn
    <3> QED BY Zenon, <3>2 DEF OneSlot
  <2>2. Len(r) <= n
    BY <1>1, <1>2
  <2> HIDE DEF r
  <2>3. /\ r \in Seq(SlotSet)
        /\ \A g \in Gens, public \in BOOLEAN :
              e = Slot("RetiringH2", g) /\ OneSlot(pool, g, public, "waiting") => OneSlot(r, g, FALSE, "none")
    BY Zenon, <1>2, <2>1
  <2> QED BY Zenon, <1>2, <2>2, <2>3 DEF r
<1>3. CASE /\ r \in Seq(SlotSet) /\ Len(r) = n - 1
           /\ \E k \in 1 .. n : pool[k] = e /\ \A i \in 1 .. n - 1 : r[i] = IF i < k THEN pool[i] ELSE pool[i + 1]
  <2> HIDE DEF r, n
  <2>0. PICK k \in 1 .. n : pool[k] = e /\ \A i \in 1 .. n - 1 : r[i] = IF i < k THEN pool[i] ELSE pool[i + 1]
    BY Zenon, <1>3
  <2>1. DOMAIN r = 1 .. n - 1
    BY Zenon, <1>3, LenProperties
  <2> DEFINE old(i) == IF i < k THEN i ELSE i + 1
  <2>2. \A i \in 1 .. n - 1 : old(i) \in 1 .. n /\ r[i] = pool[old(i)] /\ old(i) # k
    BY <1>1, <2>0
  <2>3. \A i, j \in 1 .. n - 1 : old(i) = old(j) => i = j
    BY <1>1
  <2>4. \A m \in 1 .. n : m # k => \E i \in 1 .. n - 1 : old(i) = m
    <3> TAKE m \in 1 .. n
    <3>1. CASE m < k
      <4>1. m \in 1 .. n - 1 /\ old(m) = m
        BY <1>1, <3>1
      <4> QED BY Zenon, <4>1
    <3>2. CASE m > k
      <4>1. m - 1 \in 1 .. n - 1 /\ old(m - 1) = m
        BY <1>1, <3>2
      <4> QED BY Zenon, <4>1
    <3> QED BY <1>1, <3>1, <3>2
  <2> HIDE DEF old
  <2>5. \A g \in Gens, i \in 1 .. n - 1 : i \in SlotsIn(r, g) <=> old(i) \in SlotsIn(pool, g)
    BY Zenon, <1>1, <2>1, <2>2 DEF SlotsIn
  <2>6. \A g \in Gens : SlotsIn(r, g) \subseteq 1 .. n - 1
    BY Zenon, <2>1 DEF SlotsIn
  <2>7. ASSUME NEW g \in Gens, NEW public \in BOOLEAN, NEW task \in Drivers, e.entry = "H1" \/ e.gen # g,
               OneSlot(pool, g, public, task)
        PROVE  OneSlot(r, g, public, task)
    <3>1. k \notin SlotsIn(pool, g) /\ SlotsIn(pool, g) \subseteq 1 .. n
      BY Zenon, <1>1, <2>0, <2>7 DEF SlotsIn
    <3>2. SlotsIn(r, g) # {} <=> SlotsIn(pool, g) # {}
      BY Zenon, <2>2, <2>4, <2>5, <2>6, <3>1
    <3>3. \A i, j \in SlotsIn(r, g) : i = j
      BY <2>3, <2>5, <2>6, <2>7 DEF OneSlot
    <3>4. task = "waiting" => \A i \in SlotsIn(r, g) : r[i].entry = "RetiringH2"
      BY Zenon, <2>2, <2>5, <2>6, <2>7 DEF OneSlot
    <3> QED BY Zenon, <2>7, <3>2, <3>3, <3>4 DEF OneSlot
  <2>8. ASSUME NEW g \in Gens, NEW public \in BOOLEAN, e = Slot("RetiringH2", g),
               OneSlot(pool, g, public, "waiting")
        PROVE  OneSlot(r, g, FALSE, "none")
    <3>1. k \in SlotsIn(pool, g)
      BY <1>1, <2>0, <2>8 DEF SlotsIn, Slot
    <3>2. SlotsIn(r, g) = {}
      BY Zenon, <2>2, <2>5, <2>6, <2>8, <3>1 DEF OneSlot
    <3> QED BY Zenon, <3>2 DEF OneSlot
  <2>9. Len(r) <= n
    BY <1>1, <1>3
  <2> QED BY Zenon, <1>3, <2>7, <2>8, <2>9 DEF r, n
<1>4. \/ r = pool /\ \A i \in 1 .. n : pool[i] # e
      \/ /\ r \in Seq(SlotSet) /\ Len(r) = n - 1
         /\ \E k \in 1 .. n : pool[k] = e /\ \A i \in 1 .. n - 1 : r[i] = IF i < k THEN pool[i] ELSE pool[i + 1]
  BY FirstRemoved
<1> QED BY Zenon, <1>2, <1>3, <1>4
-----------------------------------------------------------------------------
(* What a step leaves alone.                                               *)

LEMMA CandidateElements ==
    ASSUME NEW f \in CandidateSet
    PROVE  DOMAIN f \subseteq 1 .. PoolCapacity /\ \A i \in DOMAIN f : f[i] \in Gens
BY Zenon DEF CandidateSet

LEMMA CandidateMade ==
    ASSUME NEW S, S \subseteq 1 .. PoolCapacity, NEW f \in [S -> Gens]
    PROVE  f \in CandidateSet
BY Zenon DEF CandidateSet

LEMMA NobodyToTry == NoCandidates \in CandidateSet /\ DOMAIN NoCandidates = {}
<1>1. NoCandidates \in [{} -> Gens] /\ {} \subseteq 1 .. PoolCapacity
  BY Zenon DEF NoCandidates
<1> QED BY Zenon, <1>1, CandidateMade DEF NoCandidates

Undisturbed(y) ==
    gen'[y] = gen[y] /\ phase'[y] = phase[y] /\ private'[y] = private[y] /\ candidates'[y] = candidates[y]

Refers(y, g) == gen[y] = g \/ \E i \in DOMAIN candidates[y] : candidates[y][i] = g

\* For an exchange that makes a generation: nobody else learns of it.
Alone(y) ==
    /\ \A z \in Exchanges : z # y => gen'[z] # gen[y]
    /\ \A z \in Exchanges : \A i \in DOMAIN candidates'[z] : candidates'[z][i] # gen[y]

LEMMA ExchangeKept ==
    ASSUME H2Inv, NEW y \in Exchanges, Undisturbed(y),
           \A g \in Gens : Known(g) /\ Refers(y, g) => Known(g)',
           phase[y] \in Making => driver'[gen[y]] = "none" /\ Alone(y),
           phase[y] = "handshake" => state'[gen[y]] = "Proving"
    PROVE  ExchangeOK(y)'
<1>1. ExchangeOK(y) /\ gen[y] \in Gens \cup {None} /\ candidates[y] \in CandidateSet
      /\ (phase[y] \in Reserved \cup Making => gen[y] \in Gens)
  BY DEF H2Inv, H2Types, ExchangeOK, Reserved, Making, Dispatched
<1>2. \A i \in DOMAIN candidates[y] : candidates[y][i] \in Gens
  BY Zenon, <1>1, CandidateElements
<1>3. phase[y] \in Reserved => Known(gen[y])'
  BY Zenon, <1>1 DEF ExchangeOK, Undisturbed, Known, Refers
<1>4. \A i \in DOMAIN candidates[y] : Known(candidates[y][i])'
  BY Zenon, <1>1, <1>2 DEF ExchangeOK, Undisturbed, Known, Refers
<1> QED BY Zenon, <1>1, <1>3, <1>4 DEF ExchangeOK, Undisturbed, Alone, Known

\* A step of exchange x that neither learns of a new generation nor touches the control or
\* the driver of one that is being made.
LEMMA OthersKept ==
    ASSUME H2Inv, NEW x \in Exchanges, NEW y \in Exchanges, y # x,
           \A z \in Exchanges \ {x} : Undisturbed(z),
           \A g \in Gens : Known(g) /\ Refers(y, g) => Known(g)',
           phase[y] \in Making => /\ driver'[gen[y]] = driver[gen[y]]
                                  /\ phase[y] = "handshake" => state'[gen[y]] = state[gen[y]]
                                  /\ gen'[x] # gen[y]
                                  /\ \A i \in DOMAIN candidates'[x] : candidates'[x][i] # gen[y]
    PROVE  ExchangeOK(y)'
<1>1. ExchangeOK(y)
  BY Zenon DEF H2Inv
<1>2. phase[y] \in Making => driver'[gen[y]] = "none" /\ Alone(y)
  BY <1>1 DEF ExchangeOK, Alone, Undisturbed
<1>3. phase[y] = "handshake" => state'[gen[y]] = "Proving"
  BY Zenon, <1>1 DEF ExchangeOK, Making
<1> QED BY Zenon, <1>2, <1>3, ExchangeKept

LEMMA PaidKept ==
    ASSUME H2Inv, NEW g \in Gens, published'[g] = published[g], HasSocket(g)' => HasSocket(g),
           \A w \in Exchanges : Pays(w, g) => Pays(w, g)'
    PROVE  Paid(g)'
BY Zenon DEF H2Inv, Paid

LEMMA H2InvInit == Init => H2Inv
<1> SUFFICES ASSUME Init PROVE H2Inv
  BY Zenon
<1>1. pool \in Seq(SlotSet) /\ Len(pool) = 0 /\ DOMAIN pool = {}
  BY DEF Init
<1>2. H2Types
  BY Zenon, <1>1, H2GenerationAssumption, NobodyToTry
     DEF Init, H2Types, States, Phases, Drivers, Sockets
<1>4. \A g \in Gens : StateOK(g) /\ Paid(g)
  BY Zenon DEF Init, StateOK, Paid, HasSocket
<1>5. \A g \in Gens : SlotsOK(g)
  BY Zenon, <1>1 DEF Init, SlotsOK, OneSlot, SlotsIn
<1>6. \A x \in Exchanges : ExchangeOK(x)
  BY Zenon, NobodyToTry DEF Init, ExchangeOK, Making, Reserved, Dispatched
<1>8. Len(pool) <= PoolCapacity
  BY <1>1, H2GenerationAssumption
<1> QED BY Zenon, <1>2, <1>4, <1>5, <1>6, <1>8 DEF H2Inv
-----------------------------------------------------------------------------
(* select_exchange.                                                        *)

LEMMA StepForward ==
    ASSUME H2Inv, NEW x \in Exchanges, forward(x)
    PROVE  H2Inv'
<1> DEFINE h2 == {i \in DOMAIN pool : pool[i].entry = "H2"}
           new == [i \in h2 |-> pool[i].gen]
<1>1. /\ UNCHANGED <<pool, state, selectable, offer, limit, streams, master, published, driver, transport, gen, private>>
      /\ phase' = [phase EXCEPT ![x] = "select"] /\ phase[x] = "idle" /\ gen[x] = None
      /\ candidates' = [candidates EXCEPT ![x] = new]
      /\ active \in Nat /\ active > 0 /\ active' = active - 1
  BY Zenon DEF forward, Goto, controlVars, genVars, H2Inv, ExchangeOK, H2Types
<1>2. DOMAIN pool = 1 .. Len(pool) /\ Len(pool) \in Nat /\ PoolCapacity \in Nat
      /\ \A i \in 1 .. Len(pool) : pool[i] \in SlotSet
  BY Zenon, LenProperties, ElementOfSeq, H2GenerationAssumption DEF H2Inv, H2Types
<1>3. /\ h2 \subseteq 1 .. PoolCapacity
      /\ \A i \in h2 : pool[i].gen \in Gens /\ driver[pool[i].gen] # "none"
  <2>1. h2 \subseteq 1 .. PoolCapacity
    BY <1>2 DEF H2Inv
  <2>2. ASSUME NEW i \in h2 PROVE pool[i].gen \in Gens /\ driver[pool[i].gen] # "none"
    <3>1. pool[i].gen \in Gens
      BY <1>2 DEF SlotSet, Slot
    <3>2. i \in SlotsIn(pool, pool[i].gen)
      BY Zenon DEF SlotsIn
    <3> QED BY Zenon, <3>1, <3>2 DEF H2Inv, SlotsOK, OneSlot, StateOK
  <2> QED BY Zenon, <2>1, <2>2
<1>4. new \in CandidateSet /\ DOMAIN new = h2
  <2>1. new \in [h2 -> Gens] /\ DOMAIN new = h2
    BY Zenon, <1>3
  <2> HIDE DEF new, h2
  <2> QED BY Zenon, <1>3, <2>1, CandidateMade
<1>5. \A i \in DOMAIN new : new[i] \in Gens /\ driver[new[i]] # "none"
  BY Zenon, <1>3, <1>4
<1> HIDE DEF new
<1>6. H2Types'
  BY <1>1, <1>4 DEF H2Inv, H2Types, Phases
<1>8. ASSUME NEW g \in Gens PROVE StateOK(g)' /\ SlotsOK(g)' /\ Paid(g)'
  <2>1. StateOK(g)' /\ SlotsOK(g)'
    BY Zenon, <1>1 DEF H2Inv, StateOK, SlotsOK
  <2>2. Paid(g)'
    BY Zenon, <1>1, PaidKept, H2GenerationAssumption DEF HasSocket, Pays, H2Inv, H2Types
  <2> QED BY Zenon, <2>1, <2>2
<1>9. ASSUME NEW y \in Exchanges PROVE ExchangeOK(y)'
  <2>1. CASE y = x
    BY <1>1, <1>4, <1>5, <2>1 DEF ExchangeOK, Making, Reserved, Dispatched, H2Inv, H2Types, Known
  <2>2. CASE y # x
    <3>1. \A z \in Exchanges \ {x} : Undisturbed(z)
      BY Zenon, <1>1 DEF Undisturbed, H2Inv, H2Types
    <3>2. \A g \in Gens : Known(g) => Known(g)'
      BY Zenon, <1>1 DEF Known
    <3>3. phase[y] \in Making => gen[y] # None /\ driver[gen[y]] = "none"
      BY Zenon DEF H2Inv, ExchangeOK, Making
    <3>4. candidates'[x] = new
      BY Zenon, <1>1 DEF H2Inv, H2Types
    <3> QED BY <1>1, <1>5, <2>2, <3>1, <3>2, <3>3, <3>4, OthersKept
  <2> QED BY Zenon, <2>1, <2>2
<1> QED BY Zenon, <1>1, <1>6, <1>8, <1>9 DEF H2Inv

\* retire_h2_generation, or nothing: the control of h and its slot.
LEMMA ControlEffect ==
    ASSUME H2Inv, NEW h \in Gens, retire_h2_generation(h) \/ UNCHANGED <<pool, controlVars, master>>,
           UNCHANGED <<offer, published, driver, transport>>
    PROVE  /\ pool' \in Seq(SlotSet) /\ Len(pool') = Len(pool)
           /\ state' \in [Gens -> States] /\ selectable' \in [Gens -> BOOLEAN]
           /\ master' \in [Gens -> BOOLEAN]
           /\ \A g \in Gens : /\ StateOK(g)' /\ SlotsOK(g)' /\ (Known(g) => Known(g)')
                              /\ g # h => state'[g] = state[g]
<1>1. CASE UNCHANGED <<pool, controlVars, master>>
  BY Zenon, <1>1 DEF H2Inv, H2Types, controlVars, StateOK, SlotsOK, Known
<1>2. CASE retire_h2_generation(h)
  <2>1. /\ selectable' = [selectable EXCEPT ![h] = FALSE]
        /\ state' = [state EXCEPT ![h] = IF @ = "Closed" THEN @ ELSE "Retiring"]
        /\ master' = [master EXCEPT ![h] = FALSE] /\ pool' = RetiringSlots(h)
    BY Zenon, <1>2 DEF retire_h2_generation, mark_retiring
  <2>2. /\ state' \in [Gens -> States] /\ selectable' \in [Gens -> BOOLEAN]
        /\ master' \in [Gens -> BOOLEAN]
    BY Zenon, <2>1 DEF H2Inv, H2Types, States
  <2>3. pool' \in Seq(SlotSet) /\ Len(pool') = Len(pool) /\ \A g \in Gens : SlotsOK(g)'
    BY Zenon, <2>1, SlotsRetired DEF H2Inv, H2Types, SlotsOK
  <2>4. ASSUME NEW g \in Gens PROVE StateOK(g)' /\ (Known(g) => Known(g)') /\ (g # h => state'[g] = state[g])
    BY Zenon, <2>1 DEF H2Inv, H2Types, StateOK, Known, Live
  <2> QED BY Zenon, <2>2, <2>3, <2>4
<1> QED BY Zenon, <1>1, <1>2

\* A step of an exchange that deals with generation h, which is not being made.
LEMMA ReserveStep ==
    ASSUME H2Inv, NEW x \in Exchanges, NEW h \in Gens,
           retire_h2_generation(h) \/ UNCHANGED <<pool, controlVars, master>>,
           UNCHANGED <<offer, limit, published, driver, transport>>,
           active' \in Nat, streams' \in [Gens -> Nat],
           phase' \in [Exchanges -> Phases], gen' \in [Exchanges -> Gens \cup {None}],
           private' \in [Exchanges -> BOOLEAN], candidates' \in [Exchanges -> CandidateSet],
           \A z \in Exchanges \ {x} : Undisturbed(z),
           \A y \in Exchanges \ {x} : phase[y] \in Making => gen[y] # h,
           phase'[x] \notin Making, gen'[x] \in {None, h},
           gen'[x] = None <=> phase'[x] \in {"idle", "select"},
           phase'[x] \in Reserved => Known(h),
           \A i \in DOMAIN candidates'[x] : \E j \in DOMAIN candidates[x] : candidates'[x][i] = candidates[x][j],
           \A g \in Gens : HasSocket(g) /\ Pays(x, g) => Pays(x, g)'
    PROVE  H2Inv'
<1>1. /\ pool' \in Seq(SlotSet) /\ Len(pool') = Len(pool)
      /\ state' \in [Gens -> States] /\ selectable' \in [Gens -> BOOLEAN]
      /\ master' \in [Gens -> BOOLEAN]
      /\ \A g \in Gens : /\ StateOK(g)' /\ SlotsOK(g)' /\ (Known(g) => Known(g)')
                         /\ g # h => state'[g] = state[g]
  BY Zenon, ControlEffect
<1>2. H2Types'
  BY Zenon, <1>1 DEF H2Inv, H2Types
<1>3. ASSUME NEW g \in Gens PROVE Paid(g)'
  <2>1. ASSUME HasSocket(g), NEW w \in Exchanges, Pays(w, g) PROVE Pays(w, g)'
    BY <2>1 DEF Pays, Undisturbed
  <2> QED BY Zenon, <2>1 DEF Paid, H2Inv, HasSocket
<1>4. ASSUME NEW y \in Exchanges PROVE ExchangeOK(y)'
  <2>1. CASE y = x
    <3>1. \A i \in DOMAIN candidates'[x] : candidates'[x][i] \in Gens /\ Known(candidates'[x][i])
      BY CandidateElements DEF H2Inv, H2Types, ExchangeOK
    <3>2. \A g \in Gens : Known(g) => driver'[g] # "none" \/ state'[g] = "Closed"
      BY Zenon, <1>1 DEF Known
    <3>3. phase'[x] \in Reserved => gen'[x] = h
      BY Zenon DEF Reserved, Dispatched
    <3>4. \A i \in DOMAIN candidates'[x] :
             driver'[candidates'[x][i]] # "none" \/ state'[candidates'[x][i]] = "Closed"
      BY Zenon, <3>1, <3>2
    <3>5. phase'[x] \in Reserved => driver'[gen'[x]] # "none" \/ state'[gen'[x]] = "Closed"
      BY Zenon, <3>2, <3>3
    <3>6. phase'[x] # "handshake"
      BY Zenon DEF Making
    <3> QED BY Zenon, <2>1, <3>4, <3>5, <3>6 DEF ExchangeOK, Known
  <2>2. CASE y # x
    <3>1. ExchangeOK(y) /\ gen[y] \in Gens \cup {None}
      BY Zenon DEF H2Inv, H2Types
    <3>2. phase[y] \in Making => gen[y] \in Gens /\ gen[y] # None
      BY Zenon, <3>1 DEF ExchangeOK, Making
    <3>3. phase[y] \in Making => \A i \in DOMAIN candidates'[x] : candidates'[x][i] # gen[y]
      BY <3>1 DEF ExchangeOK
    <3>4. phase[y] \in Making => /\ driver'[gen[y]] = driver[gen[y]]
                                 /\ phase[y] = "handshake" => state'[gen[y]] = state[gen[y]]
                                 /\ gen'[x] # gen[y]
      BY Zenon, <1>1, <2>2, <3>2
    <3>5. \A g \in Gens : Known(g) => Known(g)'
      BY Zenon, <1>1
    <3> QED BY Zenon, <2>2, <3>3, <3>4, <3>5, OthersKept
  <2> QED BY Zenon, <2>1, <2>2
<1> QED BY Zenon, <1>1, <1>2, <1>3, <1>4 DEF H2Inv

LEMMA StepTryReserve ==
    ASSUME H2Inv, NEW x \in Exchanges, try_reserve(x)
    PROVE  H2Inv'
<1>1. candidates[x] \in CandidateSet /\ DOMAIN candidates[x] \subseteq 1 .. PoolCapacity
      /\ \A i \in DOMAIN candidates[x] : candidates[x][i] \in Gens
  BY CandidateElements DEF H2Inv, H2Types
<1>2. PICK first \in DOMAIN candidates[x] :
        LET g == candidates[x][first]
        IN  /\ phase[x] = "select"
            /\ candidates' = [candidates EXCEPT ![x] = Restrict(@, DOMAIN @ \ {first})]
            /\ \/ /\ streams[g] > 0 /\ streams' = [streams EXCEPT ![g] = @ - 1]
                  /\ gen' = [gen EXCEPT ![x] = g] /\ phase' = [phase EXCEPT ![x] = "reserve"]
                  /\ UNCHANGED <<pool, controlVars, master>>
               \/ /\ UNCHANGED <<phase, gen, streams>>
                  /\ UNCHANGED <<pool, controlVars, master>> \/ retire_h2_generation(g)
            /\ UNCHANGED <<active, offer, limit, published, driver, transport, private>>
  BY Zenon DEF try_reserve, Goto
<1> DEFINE g == candidates[x][first]
           left == Restrict(candidates[x], DOMAIN candidates[x] \ {first})
<1>3. g \in Gens /\ Known(g)
  BY Zenon, <1>1 DEF H2Inv, ExchangeOK
<1>4. left \in CandidateSet /\ \A i \in DOMAIN left : i \in DOMAIN candidates[x] /\ left[i] = candidates[x][i]
  <2> DEFINE S == DOMAIN candidates[x] \ {first}
  <2>1. left \in [S -> Gens] /\ S \subseteq 1 .. PoolCapacity /\ \A i \in S : left[i] = candidates[x][i]
    BY Zenon, <1>1 DEF Restrict
  <2>2. left \in CandidateSet
    <3> HIDE DEF left, S
    <3> QED BY Zenon, <2>1, CandidateMade
  <2>3. DOMAIN left = S
    BY Zenon, <2>1
  <2> QED BY Zenon, <2>1, <2>2, <2>3
<1>5. /\ phase[x] = "select" /\ gen[x] = None
      /\ candidates' = [candidates EXCEPT ![x] = left]
      /\ UNCHANGED <<active, offer, limit, published, driver, transport, private>>
      /\ \/ /\ streams[g] > 0 /\ streams' = [streams EXCEPT ![g] = @ - 1]
            /\ gen' = [gen EXCEPT ![x] = g] /\ phase' = [phase EXCEPT ![x] = "reserve"]
            /\ UNCHANGED <<pool, controlVars, master>>
         \/ /\ UNCHANGED <<phase, gen, streams>>
            /\ UNCHANGED <<pool, controlVars, master>> \/ retire_h2_generation(g)
  <2>1. phase[x] = "select" /\ gen[x] = None
    BY Zenon, <1>2 DEF H2Inv, ExchangeOK
  <2>2. [candidates EXCEPT ![x] = Restrict(@, DOMAIN @ \ {first})] = [candidates EXCEPT ![x] = left]
    BY DEF H2Inv, H2Types
  <2> QED BY Zenon, <1>2, <2>1, <2>2
<1> HIDE DEF g, left
<1>6. /\ candidates' \in [Exchanges -> CandidateSet] /\ candidates'[x] = left
      /\ \A z \in Exchanges \ {x} : candidates'[z] = candidates[z]
  BY Zenon, <1>4, <1>5 DEF H2Inv, H2Types
<1>7. \A i \in DOMAIN candidates'[x] : \E j \in DOMAIN candidates[x] : candidates'[x][i] = candidates[x][j]
  BY Zenon, <1>4, <1>6
<1>8. \A y \in Exchanges \ {x} : phase[y] \in Making => gen[y] # g
  BY DEF H2Inv, ExchangeOK, g
<1>9. \A h \in Gens : ~Pays(x, h)
  BY Zenon, <1>5, H2GenerationAssumption DEF Pays
<1>10. CASE /\ streams[g] > 0 /\ streams' = [streams EXCEPT ![g] = @ - 1]
            /\ gen' = [gen EXCEPT ![x] = g] /\ phase' = [phase EXCEPT ![x] = "reserve"]
            /\ UNCHANGED <<pool, controlVars, master>>
  <2>1. /\ phase' \in [Exchanges -> Phases] /\ gen' \in [Exchanges -> Gens \cup {None}]
        /\ phase'[x] = "reserve" /\ gen'[x] = g
        /\ \A z \in Exchanges \ {x} : gen'[z] = gen[z] /\ phase'[z] = phase[z]
    BY Zenon, <1>3, <1>10 DEF H2Inv, H2Types, Phases
  <2>2. \A z \in Exchanges \ {x} : Undisturbed(z)
    BY Zenon, <1>5, <1>6, <2>1 DEF Undisturbed
  <2>3. active' \in Nat
    BY <1>5 DEF H2Inv, H2Types
  <2>4. streams' \in [Gens -> Nat]
    BY <1>3, <1>10 DEF H2Inv, H2Types
  <2>5. private' \in [Exchanges -> BOOLEAN]
    BY Zenon, <1>5 DEF H2Inv, H2Types
  <2>6. phase'[x] \notin Making /\ (gen'[x] = None <=> phase'[x] \in {"idle", "select"})
    BY Zenon, <1>3, <2>1, H2GenerationAssumption DEF Making
  <2> QED BY <1>3, <1>5, <1>6, <1>7, <1>8, <1>9, <1>10, <2>1, <2>2, <2>3, <2>4, <2>5, <2>6, ReserveStep
<1>11. CASE /\ UNCHANGED <<phase, gen, streams>>
            /\ UNCHANGED <<pool, controlVars, master>> \/ retire_h2_generation(g)
  <2>1. /\ phase' \in [Exchanges -> Phases] /\ gen' \in [Exchanges -> Gens \cup {None}]
        /\ phase'[x] = "select" /\ gen'[x] = None
        /\ \A z \in Exchanges \ {x} : gen'[z] = gen[z] /\ phase'[z] = phase[z]
    BY Zenon, <1>5, <1>11 DEF H2Inv, H2Types
  <2>2. \A z \in Exchanges \ {x} : Undisturbed(z)
    BY Zenon, <1>5, <1>6, <2>1 DEF Undisturbed
  <2>3. active' \in Nat
    BY <1>5 DEF H2Inv, H2Types
  <2>4. streams' \in [Gens -> Nat]
    BY Zenon, <1>11 DEF H2Inv, H2Types
  <2>5. private' \in [Exchanges -> BOOLEAN]
    BY <1>5 DEF H2Inv, H2Types
  <2>6. phase'[x] \notin Making \cup Reserved
    BY Zenon, <2>1 DEF Making, Reserved, Dispatched
  <2> QED BY Zenon, <1>3, <1>5, <1>6, <1>7, <1>8, <1>9, <1>11, <2>1, <2>2, <2>3, <2>4, <2>5, <2>6, ReserveStep
<1> QED BY Zenon, <1>5, <1>10, <1>11

\* For an exchange that has reserved a stream: its generation, which nobody is making.
LEMMA ReservedGeneration ==
    ASSUME H2Inv, NEW x \in Exchanges, phase[x] \in Reserved
    PROVE  /\ gen[x] \in Gens /\ Known(gen[x])
           /\ \A y \in Exchanges \ {x} : phase[y] \in Making => gen[y] # gen[x]
<1>1. ExchangeOK(x) /\ gen[x] \in Gens \cup {None} /\ phase[x] \notin {"idle", "select"}
  BY Zenon DEF H2Inv, H2Types, Reserved, Dispatched
<1>2. \A y \in Exchanges \ {x} : phase[y] \in Making => gen[y] # gen[x]
  BY DEF H2Inv, ExchangeOK
<1> QED BY Zenon, <1>1, <1>2 DEF ExchangeOK

LEMMA StepCloneMaster ==
    ASSUME H2Inv, NEW x \in Exchanges, CloneMaster(x)
    PROVE  H2Inv'
<1> DEFINE g == gen[x]
<1>1. phase[x] = "reserve" /\ phase[x] \in Reserved
      /\ UNCHANGED <<active, offer, limit, published, driver, transport, private>>
  BY Zenon DEF CloneMaster, Reserved
<1>2. /\ g \in Gens /\ g # None /\ Known(g)
      /\ \A y \in Exchanges \ {x} : phase[y] \in Making => gen[y] # g
  BY Zenon, <1>1, ReservedGeneration, H2GenerationAssumption
<1>3. \A h \in Gens : HasSocket(h) /\ Pays(x, h) => Pays(x, h)'
  BY Zenon, <1>1 DEF Pays, Making, Dispatched
<1>4. private' \in [Exchanges -> BOOLEAN]
  BY Zenon, <1>1 DEF H2Inv, H2Types
<1>5. CASE /\ candidates' = [candidates EXCEPT ![x] = NoCandidates] /\ Goto(x, "selected")
           /\ UNCHANGED <<pool, controlVars, master, streams, gen>>
  <2>1. /\ phase' \in [Exchanges -> Phases] /\ gen' \in [Exchanges -> Gens \cup {None}]
        /\ candidates' \in [Exchanges -> CandidateSet] /\ DOMAIN candidates'[x] = {}
        /\ phase'[x] = "selected" /\ gen'[x] = g
        /\ \A z \in Exchanges \ {x} : /\ gen'[z] = gen[z] /\ phase'[z] = phase[z]
                                       /\ candidates'[z] = candidates[z]
    BY Zenon, <1>5, NobodyToTry DEF H2Inv, H2Types, Phases, Goto
  <2>2. \A z \in Exchanges \ {x} : Undisturbed(z)
    BY Zenon, <1>1, <2>1 DEF Undisturbed
  <2>3. active' \in Nat
    BY <1>1 DEF H2Inv, H2Types
  <2>4. streams' \in [Gens -> Nat]
    BY Zenon, <1>5 DEF H2Inv, H2Types
  <2>5. phase'[x] \notin Making
    BY Zenon, <2>1 DEF Making
  <2> QED BY Zenon, <1>1, <1>2, <1>3, <1>4, <1>5, <2>1, <2>2, <2>3, <2>4, <2>5, ReserveStep
<1>6. CASE /\ retire_h2_generation(g) /\ streams' = Returned(g)
           /\ gen' = [gen EXCEPT ![x] = None] /\ Goto(x, "select") /\ UNCHANGED candidates
  <2>1. /\ phase' \in [Exchanges -> Phases] /\ gen' \in [Exchanges -> Gens \cup {None}]
        /\ candidates' \in [Exchanges -> CandidateSet] /\ candidates'[x] = candidates[x]
        /\ phase'[x] = "select" /\ gen'[x] = None
        /\ \A z \in Exchanges \ {x} : /\ gen'[z] = gen[z] /\ phase'[z] = phase[z]
                                       /\ candidates'[z] = candidates[z]
    BY Zenon, <1>6 DEF H2Inv, H2Types, Phases, Goto
  <2>2. \A z \in Exchanges \ {x} : Undisturbed(z)
    BY Zenon, <1>1, <2>1 DEF Undisturbed
  <2>3. active' \in Nat
    BY <1>1 DEF H2Inv, H2Types
  <2>4. phase'[x] \notin Making /\ phase'[x] \notin Reserved
    BY Zenon, <2>1 DEF Making, Reserved, Dispatched
  <2>5. streams' \in [Gens -> Nat]
    BY <1>2, <1>6 DEF H2Inv, H2Types, Returned
  <2> QED BY Zenon, <1>1, <1>2, <1>3, <1>4, <1>6, <2>1, <2>2, <2>3, <2>4, <2>5, ReserveStep
<1> QED BY Zenon, <1>5, <1>6 DEF CloneMaster

LEMMA StepDispatch ==
    ASSUME H2Inv, NEW x \in Exchanges, dispatch(x)
    PROVE  H2Inv'
<1> DEFINE g == gen[x]
<1>1. phase[x] = "selected" /\ phase[x] \in Reserved
      /\ UNCHANGED <<active, pool, controlVars, offer, limit, streams, master, published, driver, transport, gen,
                     private, candidates>>
  BY Zenon DEF dispatch, Reserved, genVars
<1>2. PICK k \in Dispatched : phase' = [phase EXCEPT ![x] = k]
  BY Zenon DEF dispatch, Goto
<1>3. /\ g \in Gens /\ g # None /\ Known(g)
      /\ \A y \in Exchanges \ {x} : phase[y] \in Making => gen[y] # g
  BY Zenon, <1>1, ReservedGeneration, H2GenerationAssumption
<1>4. /\ phase' \in [Exchanges -> Phases] /\ gen' \in [Exchanges -> Gens \cup {None}]
      /\ candidates' \in [Exchanges -> CandidateSet] /\ candidates'[x] = candidates[x]
      /\ private' \in [Exchanges -> BOOLEAN]
      /\ phase'[x] = k /\ gen'[x] = g
      /\ \A z \in Exchanges \ {x} : Undisturbed(z)
  BY Zenon, <1>1, <1>2 DEF H2Inv, H2Types, Phases, Dispatched, Undisturbed
<1>5. k \notin Making /\ k \in Reserved /\ k \notin {"idle", "select"}
  BY Zenon DEF Making, Reserved, Dispatched
<1>6. active' \in Nat
  BY <1>1 DEF H2Inv, H2Types
<1>7. streams' \in [Gens -> Nat]
  BY Zenon, <1>1 DEF H2Inv, H2Types
<1>8. \A h \in Gens : HasSocket(h) /\ Pays(x, h) => Pays(x, h)'
  BY Zenon, <1>1, <1>4 DEF Pays, Making, Dispatched
<1> QED BY Zenon, <1>1, <1>3, <1>4, <1>5, <1>6, <1>7, <1>8, ReserveStep

LEMMA StepFinish ==
    ASSUME H2Inv, NEW x \in Exchanges, Finish(x)
    PROVE  H2Inv'
<1> DEFINE g == gen[x]
<1>1. /\ phase[x] \in {"selected"} \cup Dispatched /\ phase[x] \in Reserved /\ phase[x] # "idle"
      /\ streams' = Returned(g)
      /\ UNCHANGED <<offer, limit, published, driver, transport, candidates>>
      /\ retire_h2_generation(g) \/ UNCHANGED <<pool, controlVars, master>>
  BY Zenon DEF Finish, finish_exchange_resource, Reserved, Dispatched
<1>2. /\ g \in Gens /\ g # None /\ Known(g)
      /\ \A y \in Exchanges \ {x} : phase[y] \in Making => gen[y] # g
  BY Zenon, <1>1, ReservedGeneration, H2GenerationAssumption
<1>3. candidates' \in [Exchanges -> CandidateSet] /\ candidates' = candidates
  BY Zenon, <1>1 DEF H2Inv, H2Types
<1>4. CASE private[x] /\ Goto(x, "await_drop") /\ UNCHANGED <<active, gen, private>>
  <2>1. /\ phase' \in [Exchanges -> Phases] /\ gen' \in [Exchanges -> Gens \cup {None}]
        /\ private' \in [Exchanges -> BOOLEAN]
        /\ phase'[x] = "await_drop" /\ gen'[x] = g /\ private'[x]
        /\ \A z \in Exchanges \ {x} : Undisturbed(z)
    BY Zenon, <1>3, <1>4 DEF H2Inv, H2Types, Phases, Goto, Undisturbed
  <2>2. active' \in Nat
    BY <1>4 DEF H2Inv, H2Types
  <2>3. phase'[x] \notin Making /\ phase'[x] \notin Reserved
    BY Zenon, <2>1 DEF Making, Reserved, Dispatched
  <2>4. streams' \in [Gens -> Nat]
    BY <1>1, <1>2 DEF H2Inv, H2Types, Returned
  <2>5. \A h \in Gens : HasSocket(h) /\ Pays(x, h) => Pays(x, h)'
    BY Zenon, <1>1, <2>1 DEF Pays
  <2> QED BY Zenon, <1>1, <1>2, <1>3, <2>1, <2>2, <2>3, <2>4, <2>5, ReserveStep
<1>5. CASE /\ ~private[x] /\ active' = active + 1 /\ gen' = [gen EXCEPT ![x] = None]
           /\ private' = [private EXCEPT ![x] = FALSE] /\ Goto(x, "idle")
  <2>1. /\ phase' \in [Exchanges -> Phases] /\ gen' \in [Exchanges -> Gens \cup {None}]
        /\ private' \in [Exchanges -> BOOLEAN]
        /\ phase'[x] = "idle" /\ gen'[x] = None
        /\ \A z \in Exchanges \ {x} : Undisturbed(z)
    BY Zenon, <1>3, <1>5 DEF H2Inv, H2Types, Phases, Goto, Undisturbed
  <2>2. active' \in Nat
    BY <1>5 DEF H2Inv, H2Types
  <2>3. phase'[x] \notin Making /\ phase'[x] \notin Reserved
    BY Zenon, <2>1 DEF Making, Reserved, Dispatched
  <2>4. streams' \in [Gens -> Nat]
    BY <1>1, <1>2 DEF H2Inv, H2Types, Returned
  <2>5. \A h \in Gens : ~Pays(x, h)
    BY Zenon, <1>1, <1>5 DEF Pays, Making, Dispatched
  <2> QED BY Zenon, <1>1, <1>2, <1>3, <2>1, <2>2, <2>3, <2>4, <2>5, ReserveStep
<1> QED BY Zenon, <1>4, <1>5 DEF Finish, finish_exchange_resource
-----------------------------------------------------------------------------
(* A generation is made.                                                   *)

\* A step of the maker of generation h, which nobody else knows: the others go on.
LEMMA MakerStep ==
    ASSUME H2Inv, NEW x \in Exchanges, NEW h \in Gens,
           \A z \in Exchanges : (z # x => gen[z] # h)
                                /\ \A i \in DOMAIN candidates[z] : candidates[z][i] # h,
           H2Types', Len(pool') <= PoolCapacity,
           \A z \in Exchanges \ {x} : Undisturbed(z),
           candidates'[x] = candidates[x],
           \A g \in Gens \ {h} : /\ state'[g] = state[g] /\ selectable'[g] = selectable[g]
                                 /\ offer'[g] = offer[g] /\ limit'[g] = limit[g]
                                 /\ streams'[g] = streams[g] /\ published'[g] = published[g]
                                 /\ driver'[g] = driver[g] /\ transport'[g] = transport[g],
           gen[x] \in {None, h}, gen'[x] \in {None, h},
           \A g \in Gens : SlotsOK(g)',
           StateOK(h)', Paid(h)', ExchangeOK(x)'
    PROVE  H2Inv'
<1>1. \A y \in Exchanges \ {x}, g \in Gens : Known(g) /\ Refers(y, g) => Known(g)'
  BY DEF Known, Refers
<1>2. ASSUME NEW g \in Gens PROVE StateOK(g)' /\ Paid(g)'
  <2>1. CASE g # h
    <3>1. StateOK(g)'
      BY <2>1 DEF StateOK, H2Inv
    <3>2. ASSUME NEW w \in Exchanges, Pays(w, g) PROVE Pays(w, g)'
      <4>1. w # x
        BY <2>1, <3>2, H2GenerationAssumption DEF Pays
      <4> QED BY Zenon, <2>1, <3>2, <4>1 DEF Pays, Undisturbed
    <3>3. Paid(g)'
      BY Zenon, <2>1, <3>2, PaidKept DEF HasSocket
    <3> QED BY Zenon, <3>1, <3>3
  <2> QED BY Zenon, <2>1
<1>3. ASSUME NEW y \in Exchanges, y # x PROVE ExchangeOK(y)'
  <2>1. ExchangeOK(y) /\ gen[y] \in Gens \cup {None} /\ gen[y] # h
    BY Zenon, <1>3 DEF H2Inv, H2Types
  <2>2. phase[y] \in Making => gen[y] \in Gens \ {h} /\ gen[y] # None
    BY Zenon, <2>1 DEF ExchangeOK, Making
  <2>3. phase[y] \in Making => \A i \in DOMAIN candidates'[x] : candidates'[x][i] # gen[y]
    BY <2>1 DEF ExchangeOK
  <2>4. phase[y] \in Making => /\ driver'[gen[y]] = driver[gen[y]]
                               /\ phase[y] = "handshake" => state'[gen[y]] = state[gen[y]]
                               /\ gen'[x] # gen[y]
    BY Zenon, <2>2
  <2> QED BY Zenon, <1>1, <1>3, <2>3, <2>4, OthersKept
<1> QED BY Zenon, <1>2, <1>3 DEF H2Inv

LEMMA StepConnect ==
    ASSUME H2Inv, NEW x \in Exchanges, connect_h2(x)
    PROVE  H2Inv'
<1>2. PICK new \in Gens :
      /\ Unused(new) /\ phase[x] = "select" /\ DOMAIN candidates[x] = {}
      /\ gen' = [gen EXCEPT ![x] = new] /\ state' = [state EXCEPT ![new] = "Proving"]
      /\ transport' = [transport EXCEPT ![new] = "open"] /\ phase' = [phase EXCEPT ![x] = "handshake"]
      /\ UNCHANGED <<active, pool, selectable, offer, limit, streams, master, published, driver,
                     private, candidates>>
  BY Zenon DEF connect_h2, Goto
<1>3. /\ new \in Gens /\ driver[new] = "none" /\ transport[new] = "none"
      /\ \A z \in Exchanges : gen[z] # new /\ \A i \in DOMAIN candidates[z] : candidates[z][i] # new
  BY Zenon, <1>2 DEF Unused, Range
<1>4. state[new] = "Closed" /\ ~selectable[new] /\ ~published[new] /\ gen[x] = None
  BY Zenon, <1>2, <1>3 DEF H2Inv, H2Types, StateOK, Live, ExchangeOK
<1>5. /\ H2Types' /\ phase'[x] = "handshake" /\ gen'[x] = new /\ candidates' = candidates
      /\ state'[new] = "Proving" /\ transport'[new] = "open"
      /\ \A z \in Exchanges \ {x} : Undisturbed(z)
  BY Zenon, <1>2, <1>3 DEF H2Inv, H2Types, Phases, States, Sockets, Undisturbed
<1>6. Len(pool') <= PoolCapacity /\ \A g \in Gens : SlotsOK(g)'
  BY Zenon, <1>2 DEF H2Inv, SlotsOK
<1>8. StateOK(new)'
  BY Zenon, <1>2, <1>3, <1>4, <1>5 DEF StateOK, Live
<1>9. Paid(new)'
  BY Zenon, <1>2, <1>3, <1>5 DEF Paid, Pays, Making
<1>10. ExchangeOK(x)'
  BY <1>2, <1>3, <1>5, H2GenerationAssumption
     DEF ExchangeOK, Making, Reserved, Dispatched, Undisturbed, H2Inv, H2Types
<1>11. \A g \in Gens \ {new} : state'[g] = state[g] /\ transport'[g] = transport[g]
  BY Zenon, <1>2 DEF H2Inv, H2Types
<1> QED BY Zenon, <1>2, <1>3, <1>4, <1>5, <1>6, <1>8, <1>9, <1>10, <1>11, MakerStep

LEMMA MadeGeneration ==
    ASSUME H2Inv, NEW x \in Exchanges, phase[x] \in Making
    PROVE  \E h \in Gens :
              /\ gen[x] = h /\ h # None /\ driver[h] = "none" /\ ~published[h]
              /\ phase[x] = "handshake" => state[h] = "Proving"
              /\ \A z \in Exchanges : (z # x => gen[z] # h)
                                      /\ \A i \in DOMAIN candidates[z] : candidates[z][i] # h
<1>1. gen[x] \in Gens \cup {None} /\ ExchangeOK(x) /\ phase[x] \notin {"idle", "select"}
  BY Zenon DEF H2Inv, H2Types, Making
<1>2. gen[x] \in Gens /\ gen[x] # None
  BY Zenon, <1>1 DEF ExchangeOK
<1>3. ~published[gen[x]]
  BY Zenon, <1>1, <1>2 DEF H2Inv, StateOK, ExchangeOK
<1> QED BY Zenon, <1>1, <1>2, <1>3 DEF ExchangeOK

\* What the maker had to try it has tried, and the rest is as it was.
LEMMA StillKnown ==
    ASSUME H2Inv, NEW x \in Exchanges, NEW h \in Gens, candidates'[x] = candidates[x],
           \A i \in DOMAIN candidates[x] : candidates[x][i] # h,
           \A g \in Gens \ {h} : driver'[g] = driver[g] /\ state'[g] = state[g]
    PROVE  \A i \in DOMAIN candidates'[x] :
              driver'[candidates'[x][i]] # "none" \/ state'[candidates'[x][i]] = "Closed"
<1>1. \A i \in DOMAIN candidates[x] : candidates[x][i] \in Gens \ {h} /\ Known(candidates[x][i])
  BY Zenon, CandidateElements DEF H2Inv, H2Types, ExchangeOK
<1> QED BY Zenon, <1>1 DEF Known

LEMMA StepHandshake ==
    ASSUME H2Inv, NEW x \in Exchanges, Handshake(x)
    PROVE  H2Inv'
<1>1. /\ phase[x] = "handshake" /\ phase[x] \in Making
      /\ UNCHANGED <<pool, selectable, offer, limit, streams, master, published, driver, private, candidates>>
  BY Zenon DEF Handshake, Making
<1>2. PICK h \in Gens :
        /\ gen[x] = h /\ h # None /\ driver[h] = "none" /\ ~published[h] /\ state[h] = "Proving"
        /\ \A z \in Exchanges : (z # x => gen[z] # h)
                                /\ \A i \in DOMAIN candidates[z] : candidates[z][i] # h
  BY Zenon, <1>1, MadeGeneration
<1>3. Len(pool') <= PoolCapacity /\ \A g \in Gens : SlotsOK(g)'
  BY Zenon, <1>1 DEF H2Inv, SlotsOK
<1>4. ~selectable[h] /\ transport[h] # "none"
  BY Zenon, <1>2 DEF H2Inv, StateOK, Live
<1>5. CASE Goto(x, "gate") /\ UNCHANGED <<active, state, transport, gen>>
  <2>1. /\ H2Types' /\ phase'[x] = "gate" /\ gen'[x] = h /\ candidates'[x] = candidates[x]
        /\ \A z \in Exchanges \ {x} : Undisturbed(z)
    BY Zenon, <1>1, <1>2, <1>5 DEF H2Inv, H2Types, Phases, Goto, Undisturbed
  <2>3. StateOK(h)'
    BY Zenon, <1>1, <1>2, <1>5 DEF StateOK, H2Inv
  <2>4. Paid(h)'
    BY Zenon, <1>1, <1>2, <2>1 DEF Paid, Pays, Making
  <2>5. \A i \in DOMAIN candidates'[x] :
           driver'[candidates'[x][i]] # "none" \/ state'[candidates'[x][i]] = "Closed"
    <3>1. \A g \in Gens \ {h} : driver'[g] = driver[g] /\ state'[g] = state[g]
      BY Zenon, <1>1, <1>5
    <3>2. \A i \in DOMAIN candidates[x] : candidates[x][i] # h
      BY Zenon, <1>2
    <3> QED BY Zenon, <2>1, <3>1, <3>2, StillKnown
  <2>6. ExchangeOK(x)'
    BY Zenon, <1>1, <1>2, <1>5, <2>1, <2>5 DEF ExchangeOK, Making, Reserved, Dispatched, Undisturbed, Known
  <2> QED BY Zenon, <1>1, <1>2, <1>3, <1>5, <2>1, <2>3, <2>4, <2>6, MakerStep
<1>6. CASE /\ transport' = [transport EXCEPT ![gen[x]] = "none"]
           /\ state' = [state EXCEPT ![gen[x]] = "Closed"]
           /\ gen' = [gen EXCEPT ![x] = None]
           /\ active' = active + 1
           /\ Goto(x, "idle")
  <2>0. active' \in Nat
    BY <1>6 DEF H2Inv, H2Types
  <2>1. /\ H2Types' /\ phase'[x] = "idle" /\ gen'[x] = None /\ candidates'[x] = candidates[x]
        /\ \A z \in Exchanges \ {x} : Undisturbed(z)
    BY Zenon, <1>1, <1>2, <1>6, <2>0 DEF H2Inv, H2Types, Phases, States, Sockets, Goto, Undisturbed
  <2>3. /\ transport'[h] = "none" /\ state'[h] = "Closed"
        /\ \A g \in Gens \ {h} : transport'[g] = transport[g] /\ state'[g] = state[g]
    BY Zenon, <1>2, <1>6 DEF H2Inv, H2Types
  <2>4. StateOK(h)' /\ Paid(h)'
    BY Zenon, <1>1, <1>2, <1>4, <2>3 DEF StateOK, Paid, HasSocket
  <2>5. \A i \in DOMAIN candidates'[x] :
           driver'[candidates'[x][i]] # "none" \/ state'[candidates'[x][i]] = "Closed"
    <3>1. \A g \in Gens \ {h} : driver'[g] = driver[g] /\ state'[g] = state[g]
      BY Zenon, <1>1, <2>3
    <3>2. \A i \in DOMAIN candidates[x] : candidates[x][i] # h
      BY <1>2
    <3> QED BY Zenon, <2>1, <3>1, <3>2, StillKnown
  <2>6. ExchangeOK(x)'
    BY Zenon, <2>1, <2>5 DEF ExchangeOK, Making, Reserved, Dispatched, Known
  <2> QED BY Zenon, <1>1, <1>2, <1>3, <2>1, <2>3, <2>4, <2>6, MakerStep
<1> QED BY Zenon, <1>5, <1>6 DEF Handshake

LEMMA StepGateDropped ==
    ASSUME H2Inv, NEW x \in Exchanges, GateDropped(x)
    PROVE  H2Inv'
<1>1. /\ phase[x] = "gate" /\ phase[x] \in Making
      /\ transport' = [transport EXCEPT ![gen[x]] = IF @ = "open" THEN "closing" ELSE @]
      /\ phase' = [phase EXCEPT ![x] = "await_drop"]
      /\ UNCHANGED <<active, pool, state, selectable, offer, limit, streams, master, published, driver,
                     gen, private, candidates>>
  BY Zenon DEF GateDropped, Goto, Making, controlVars
<1>2. PICK h \in Gens :
        /\ gen[x] = h /\ h # None /\ driver[h] = "none" /\ ~published[h]
        /\ \A z \in Exchanges : (z # x => gen[z] # h)
                                /\ \A i \in DOMAIN candidates[z] : candidates[z][i] # h
  BY Zenon, <1>1, MadeGeneration
<1>3. Len(pool') <= PoolCapacity /\ \A g \in Gens : SlotsOK(g)'
  BY Zenon, <1>1 DEF H2Inv, SlotsOK
<1>4. /\ transport'[h] \in Sockets /\ (transport'[h] = "none" => transport[h] = "none")
      /\ \A g \in Gens \ {h} : transport'[g] = transport[g]
  BY Zenon, <1>1, <1>2 DEF H2Inv, H2Types, Sockets
<1>5. /\ H2Types' /\ phase'[x] = "await_drop" /\ gen'[x] = h /\ candidates'[x] = candidates[x]
      /\ \A z \in Exchanges \ {x} : Undisturbed(z)
  BY Zenon, <1>1, <1>2, <1>4 DEF H2Inv, H2Types, Phases, Undisturbed
<1>7. StateOK(h)'
  BY Zenon, <1>1, <1>2, <1>4 DEF StateOK, H2Inv
<1>8. Paid(h)'
  BY Zenon, <1>1, <1>2, <1>5 DEF Paid, Pays
<1>9. \A i \in DOMAIN candidates'[x] :
           driver'[candidates'[x][i]] # "none" \/ state'[candidates'[x][i]] = "Closed"
  <2>1. \A g \in Gens \ {h} : driver'[g] = driver[g] /\ state'[g] = state[g]
    BY Zenon, <1>1
  <2>2. \A i \in DOMAIN candidates[x] : candidates[x][i] # h
    BY Zenon, <1>2
  <2> QED BY Zenon, <1>5, <2>1, <2>2, StillKnown
<1>10. ExchangeOK(x)'
  BY Zenon, <1>1, <1>2, <1>5, <1>9 DEF ExchangeOK, Making, Reserved, Dispatched, Known
<1> QED BY Zenon, <1>1, <1>2, <1>3, <1>4, <1>5, <1>7, <1>8, <1>10, MakerStep

LEMMA StepProved ==
    ASSUME H2Inv, NEW x \in Exchanges, Proved(x)
    PROVE  H2Inv'
<1>1. /\ phase[x] = "gate" /\ phase[x] \in Making
      /\ phase' = [phase EXCEPT ![x] = "selected"]
      /\ UNCHANGED <<active, state, selectable, offer, transport, gen, candidates>>
  BY Zenon DEF Proved, Goto, Making, controlVars
<1>2. PICK h \in Gens :
        /\ gen[x] = h /\ h # None /\ driver[h] = "none" /\ ~published[h]
        /\ \A z \in Exchanges : (z # x => gen[z] # h)
                                /\ \A i \in DOMAIN candidates[z] : candidates[z][i] # h
  BY Zenon, <1>1, MadeGeneration
<1>3. /\ transport[h] = "open" /\ state[h] \in Live /\ selectable[h]
      /\ master' = [master EXCEPT ![h] = TRUE] /\ publish_h2_generation_slot(h)
      /\ private' = [private EXCEPT ![x] = ~published'[h]]
      /\ driver' = [driver EXCEPT ![h] = "running"]
  BY Zenon, <1>2 DEF Proved, Live
<1>4. PICK n \in StreamLimits : /\ n > 0 /\ limit' = [limit EXCEPT ![h] = n]
                                /\ streams' = [streams EXCEPT ![h] = n - 1]
  BY Zenon, <1>2 DEF Proved
<1>5. n \in Nat /\ n - 1 \in Nat /\ n = (n - 1) + 1
  BY <1>4, H2GenerationAssumption
<1>6. \A g \in Gens : OneSlot(pool, g, published[g], driver[g]) /\ published[g] \in BOOLEAN /\ driver[g] \in Drivers
  BY Zenon DEF H2Inv, H2Types, SlotsOK
<1>7. /\ pool' \in Seq(SlotSet) /\ Len(pool') <= PoolCapacity /\ published' \in [Gens -> BOOLEAN]
      /\ \A g \in Gens : SlotsOK(g)'
      /\ \A g \in Gens \ {h} : published'[g] = published[g]
  <2>1. driver'[h] = "running" /\ \A g \in Gens \ {h} : driver'[g] = driver[g]
    BY Zenon, <1>3 DEF H2Inv, H2Types
  <2>2. CASE UNCHANGED <<pool, published>>
    <3>1. SlotsOK(h)'
      BY Zenon, <1>6, <2>1, <2>2 DEF SlotsOK, OneSlot
    <3>2. \A g \in Gens \ {h} : SlotsOK(g)'
      BY Zenon, <1>6, <2>1, <2>2 DEF SlotsOK
    <3> QED BY Zenon, <2>2, <3>1, <3>2 DEF H2Inv, H2Types
  <2>3. CASE /\ Len(pool) < PoolCapacity /\ pool' = Append(pool, Slot("H2", h))
             /\ published' = [published EXCEPT ![h] = TRUE]
    <3>1. Slot("H2", h) \in SlotSet /\ Slot("H2", h).gen = h
      BY Zenon DEF SlotSet, Slot
    <3>2. published'[h] = TRUE /\ published' \in [Gens -> BOOLEAN] /\ \A g \in Gens \ {h} : published'[g] = published[g]
      BY Zenon, <2>3 DEF H2Inv, H2Types
    <3>3. /\ pool' \in Seq(SlotSet) /\ Len(pool') = Len(pool) + 1
          /\ \A g \in Gens, public \in BOOLEAN, task \in Drivers :
                g # h /\ OneSlot(pool, g, public, task) => OneSlot(pool', g, public, task)
          /\ \A task \in Drivers : OneSlot(pool, h, FALSE, task) => OneSlot(pool', h, TRUE, "running")
      BY Zenon, <2>3, <3>1, SlotAppended DEF H2Inv, H2Types
    <3>4. Len(pool) \in Nat /\ PoolCapacity \in Nat
      BY Zenon, LenProperties, H2GenerationAssumption DEF H2Inv, H2Types
    <3>5. SlotsOK(h)'
      BY <1>2, <1>6, <2>1, <3>2, <3>3 DEF SlotsOK
    <3>6. \A g \in Gens \ {h} : SlotsOK(g)'
      BY Zenon, <1>6, <2>1, <3>2, <3>3 DEF SlotsOK
    <3> QED BY <2>3, <3>2, <3>3, <3>4, <3>5, <3>6
  <2> QED BY Zenon, <1>3, <2>2, <2>3 DEF publish_h2_generation_slot
<1>8. private' \in [Exchanges -> BOOLEAN] /\ private'[x] = ~published'[h]
  BY Zenon, <1>3, <1>7 DEF H2Inv, H2Types
<1>9. /\ limit' \in [Gens -> Nat] /\ streams' \in [Gens -> Nat] /\ limit'[h] = n /\ streams'[h] = n - 1
      /\ \A g \in Gens \ {h} : limit'[g] = limit[g] /\ streams'[g] = streams[g]
  BY Zenon, <1>4, <1>5 DEF H2Inv, H2Types
<1>10. /\ driver' \in [Gens -> Drivers] /\ driver'[h] = "running" /\ master' \in [Gens -> BOOLEAN]
       /\ \A g \in Gens \ {h} : driver'[g] = driver[g]
  BY Zenon, <1>3 DEF H2Inv, H2Types, Drivers
<1>11. /\ phase' \in [Exchanges -> Phases] /\ phase'[x] = "selected" /\ gen'[x] = h
       /\ candidates'[x] = candidates[x] /\ \A z \in Exchanges \ {x} : Undisturbed(z)
  BY Zenon, <1>1, <1>2, <1>3 DEF H2Inv, H2Types, Phases, Undisturbed
<1>12. H2Types'
  BY Zenon, <1>1, <1>7, <1>8, <1>9, <1>10, <1>11 DEF H2Inv, H2Types
<1>15. StateOK(h)'
  BY Zenon, <1>1, <1>3, <1>10 DEF StateOK, H2Inv
<1>16. Paid(h)'
  BY Zenon, <1>8, <1>10, <1>11 DEF Paid, Pays
<1>17. ExchangeOK(x)'
  <2>1. \A i \in DOMAIN candidates'[x] : driver'[candidates'[x][i]] # "none" \/ state'[candidates'[x][i]] = "Closed"
    <3>1. \A g \in Gens \ {h} : driver'[g] = driver[g] /\ state'[g] = state[g]
      BY Zenon, <1>1, <1>10
    <3>2. \A i \in DOMAIN candidates[x] : candidates[x][i] # h
      BY Zenon, <1>2
    <3> QED BY Zenon, <1>11, <3>1, <3>2, StillKnown
  <2> QED BY Zenon, <1>2, <1>10, <1>11, <2>1 DEF ExchangeOK, Making, Known
<1> QED BY Zenon, <1>1, <1>2, <1>7, <1>9, <1>10, <1>11, <1>12, <1>15, <1>16, <1>17, MakerStep

LEMMA StepTransportAwaited ==
    ASSUME H2Inv, NEW x \in Exchanges, TransportAwaited(x)
    PROVE  H2Inv'
<1>1. /\ phase[x] = "await_drop" /\ active' = active + 1
      /\ gen' = [gen EXCEPT ![x] = None] /\ private' = [private EXCEPT ![x] = FALSE]
      /\ phase' = [phase EXCEPT ![x] = "idle"]
      /\ UNCHANGED <<pool, limit, streams, master, published, driver, candidates>>
  BY Zenon DEF TransportAwaited, Goto
<1>2. PICK h \in Gens : gen[x] = h /\ h # None /\ transport[h] \in {"dropped", "none"}
  <2>1. ExchangeOK(x) /\ gen[x] \in Gens \cup {None} /\ transport[gen[x]] \in {"dropped", "none"}
    BY Zenon DEF H2Inv, H2Types, TransportAwaited
  <2>2. gen[x] \in Gens /\ gen[x] # None
    BY Zenon, <1>1, <2>1 DEF ExchangeOK
  <2> QED BY Zenon, <2>1, <2>2
<1>3. \A y \in Exchanges \ {x} : phase[y] \in Making => gen[y] # h
  BY Zenon, <1>2 DEF H2Inv, ExchangeOK
<1>4. /\ phase' \in [Exchanges -> Phases] /\ gen' \in [Exchanges -> Gens \cup {None}]
      /\ private' \in [Exchanges -> BOOLEAN] /\ candidates' \in [Exchanges -> CandidateSet]
      /\ streams' \in [Gens -> Nat]
      /\ phase'[x] = "idle" /\ gen'[x] = None /\ \A z \in Exchanges \ {x} : Undisturbed(z)
  BY Zenon, <1>1 DEF H2Inv, H2Types, Phases, Undisturbed
<1>5. active' \in Nat
  BY <1>1 DEF H2Inv, H2Types
<1>6. phase'[x] \notin Making /\ phase'[x] \notin Reserved /\ phase[x] \notin Reserved
  BY Zenon, <1>1, <1>4 DEF Making, Reserved, Dispatched
<1>8. CASE UNCHANGED <<controlVars, offer, transport>>
  <2>1. \A g \in Gens : ~(HasSocket(g) /\ Pays(x, g))
    BY Zenon, <1>2 DEF HasSocket, Pays
  <2> QED BY Zenon, <1>1, <1>2, <1>3, <1>4, <1>5, <1>6, <1>8, <2>1, ReserveStep
<1>9. CASE driver[h] = "none" /\ Freed(h)
  <2>1. /\ transport'[h] = "none" /\ state'[h] = "Closed" /\ ~selectable'[h] /\ transport' \in [Gens -> Sockets]
        /\ state' \in [Gens -> States] /\ selectable' \in [Gens -> BOOLEAN] /\ offer' \in [Gens -> BOOLEAN]
        /\ \A g \in Gens \ {h} : /\ transport'[g] = transport[g] /\ state'[g] = state[g]
                                  /\ selectable'[g] = selectable[g] /\ offer'[g] = offer[g]
    BY Zenon, <1>9 DEF Freed, H2Inv, H2Types, Sockets, States
  <2>2. H2Types'
    BY Zenon, <1>1, <1>4, <1>5, <2>1 DEF H2Inv, H2Types
  <2>3. \A g \in Gens : StateOK(g)' /\ SlotsOK(g)' /\ (Known(g) => Known(g)')
    <3>1. StateOK(h)'
      BY Zenon, <1>1, <1>9, <2>1 DEF H2Inv, StateOK
    <3>2. \A g \in Gens \ {h} : StateOK(g)'
      BY Zenon, <1>1, <2>1 DEF H2Inv, StateOK
    <3>3. \A g \in Gens : SlotsOK(g)' /\ (Known(g) => Known(g)')
      BY Zenon, <1>1, <2>1 DEF H2Inv, SlotsOK, Known
    <3> QED BY Zenon, <3>1, <3>2, <3>3
  <2>4. ASSUME NEW g \in Gens PROVE Paid(g)'
    <3>1. CASE g = h
      BY Zenon, <2>1, <3>1 DEF Paid, HasSocket
    <3>2. CASE g # h
      <4>1. ASSUME NEW w \in Exchanges, Pays(w, g) PROVE Pays(w, g)'
        BY Zenon, <1>1, <1>2, <1>4, <3>2, <4>1 DEF Pays, Undisturbed
      <4> QED BY Zenon, <1>1, <2>1, <3>2, <4>1, PaidKept DEF HasSocket
    <3> QED BY Zenon, <3>1, <3>2
  <2>5. ASSUME NEW y \in Exchanges PROVE ExchangeOK(y)'
    <3>1. CASE y = x
      <4>1. \A i \in DOMAIN candidates[x] : candidates[x][i] \in Gens /\ Known(candidates[x][i])
        BY Zenon, CandidateElements DEF H2Inv, H2Types, ExchangeOK
      <4>2. \A i \in DOMAIN candidates'[x] : driver'[candidates'[x][i]] # "none" \/ state'[candidates'[x][i]] = "Closed"
        BY Zenon, <1>1, <2>1, <4>1 DEF Known
      <4> QED BY Zenon, <1>4, <1>6, <3>1, <4>2 DEF ExchangeOK, Known, Making
    <3>2. CASE y # x
      <4>1. ExchangeOK(y) /\ gen[y] \in Gens \cup {None}
        BY Zenon DEF H2Inv, H2Types
      <4>2. phase[y] \in Making => /\ gen[y] \in Gens \ {h} /\ gen[y] # None
                                   /\ \A i \in DOMAIN candidates'[x] : candidates'[x][i] # gen[y]
        BY Zenon, <1>1, <1>3, <3>2, <4>1 DEF ExchangeOK, Making
      <4>3. phase[y] \in Making => /\ driver'[gen[y]] = driver[gen[y]]
                                   /\ phase[y] = "handshake" => state'[gen[y]] = state[gen[y]]
                                   /\ gen'[x] # gen[y]
        BY Zenon, <1>1, <1>4, <2>1, <4>2
      <4>4. \A g \in Gens : Known(g) => Known(g)'
        BY Zenon, <2>3
      <4> QED BY Zenon, <1>4, <3>2, <4>2, <4>3, <4>4, OthersKept
    <3> QED BY Zenon, <3>1, <3>2
  <2>6. Len(pool') <= PoolCapacity
    BY Zenon, <1>1 DEF H2Inv
  <2> QED BY Zenon, <1>5, <2>2, <2>3, <2>4, <2>5, <2>6 DEF H2Inv
<1> QED BY Zenon, <1>2, <1>8, <1>9 DEF TransportAwaited
-----------------------------------------------------------------------------
(* The driver, the peer and the pool.                                      *)

\* A step that is no exchange's: what the exchanges rely on stays.
LEMMA GenerationStep ==
    ASSUME H2Inv, UNCHANGED <<active, exchangeVars>>, H2Types', Len(pool') <= PoolCapacity,
           \A g \in Gens :
              /\ StateOK(g)' /\ SlotsOK(g)'
              /\ driver[g] = "none" => driver'[g] = "none",
           \A g \in Gens : HasSocket(g)' =>
              /\ HasSocket(g) /\ published'[g] = published[g]
              /\ driver'[g] = "none" => driver[g] = "none",
           \A g \in Gens : Known(g) => Known(g)',
           \A y \in Exchanges : phase[y] = "handshake" => state'[gen[y]] = state[gen[y]]
    PROVE  H2Inv'
<1>1. UNCHANGED <<active, phase, gen, private, candidates>>
  BY Zenon DEF exchangeVars
<1>3. ASSUME NEW g \in Gens PROVE Paid(g)'
  <2>3. ASSUME HasSocket(g)', NEW w \in Exchanges, Pays(w, g) PROVE Pays(w, g)'
    BY Zenon, <1>1, <2>3 DEF Pays
  <2> QED BY Zenon, <2>3 DEF Paid, H2Inv
<1>4. ASSUME NEW y \in Exchanges PROVE ExchangeOK(y)'
  <2>1. ExchangeOK(y) /\ gen[y] \in Gens \cup {None} /\ Undisturbed(y)
    BY Zenon, <1>1 DEF H2Inv, H2Types, Undisturbed
  <2>2. phase[y] \in Making => gen[y] \in Gens
    BY Zenon, <2>1 DEF ExchangeOK, Making
  <2>3. phase[y] \in Making => driver'[gen[y]] = "none" /\ Alone(y)
    BY Zenon, <1>1, <2>1, <2>2 DEF ExchangeOK, Alone
  <2>4. phase[y] = "handshake" => state'[gen[y]] = "Proving"
    BY Zenon, <2>1 DEF ExchangeOK
  <2> QED BY Zenon, <2>1, <2>3, <2>4, ExchangeKept
<1> QED BY Zenon, <1>3, <1>4 DEF H2Inv

\* The generation of a handshake has neither a driver nor SETTINGS yet.
LEMMA HandshakeAlone ==
    ASSUME H2Inv, NEW y \in Exchanges, phase[y] = "handshake"
    PROVE  /\ gen[y] \in Gens /\ driver[gen[y]] = "none"
           /\ \A x \in Exchanges : phase[x] = "gate" => gen[x] # gen[y]
<1>1. ExchangeOK(y) /\ gen[y] \in Gens \cup {None} /\ phase[y] \in Making
  BY Zenon DEF H2Inv, H2Types, Making
<1> QED BY Zenon, <1>1 DEF ExchangeOK

LEMMA StepObserve ==
    ASSUME H2Inv, NEW h \in Gens, observe_inbound(h)
    PROVE  H2Inv'
<1>1. /\ transport[h] = "open" /\ state[h] \in {"Proving", "LiveEnabled", "LiveDisabled"}
      /\ driver[h] = "running" \/ \E x \in Exchanges : gen[x] = h /\ phase[x] = "gate"
      /\ UNCHANGED <<pool, limit, streams, master, published, driver, transport, active, exchangeVars>>
  BY Zenon DEF observe_inbound
<1>2. PICK on \in BOOLEAN :
          /\ offer' = [offer EXCEPT ![h] = on]
          /\ \/ /\ state[h] = "Proving"
                /\ state' = [state EXCEPT ![h] = IF on THEN "LiveEnabled" ELSE "LiveDisabled"]
                /\ selectable' = [selectable EXCEPT ![h] = TRUE]
             \/ /\ state[h] = "LiveEnabled" /\ ~on
                /\ state' = [state EXCEPT ![h] = "Revoked"]
                /\ selectable' = [selectable EXCEPT ![h] = FALSE]
             \/ /\ state[h] = "LiveDisabled" \/ (state[h] = "LiveEnabled" /\ on)
                /\ UNCHANGED <<state, selectable>>
  BY Zenon DEF observe_inbound, controlVars
<1>3. /\ state' \in [Gens -> States] /\ selectable' \in [Gens -> BOOLEAN] /\ offer' \in [Gens -> BOOLEAN]
      /\ \A g \in Gens \ {h} : state'[g] = state[g] /\ selectable'[g] = selectable[g] /\ offer'[g] = offer[g]
      /\ offer'[h] = on
  BY Zenon, <1>2 DEF H2Inv, H2Types, States
<1>4. /\ selectable'[h] => state'[h] \in Live
      /\ state'[h] = "LiveEnabled" => offer'[h]
  <2>1. selectable[h] => state[h] \in Live
    BY Zenon DEF H2Inv, StateOK
  <2> QED BY Zenon, <1>2, <1>3, <2>1 DEF H2Inv, H2Types, Live
<1>5. H2Types' /\ Len(pool') <= PoolCapacity
  BY Zenon, <1>1, <1>3 DEF H2Inv, H2Types, exchangeVars
<1>6. driver[h] \notin {"ended", "waiting"}
  BY Zenon, <1>1 DEF H2Inv, StateOK
<1>7. ASSUME NEW g \in Gens PROVE StateOK(g)' /\ SlotsOK(g)' /\ (Known(g) => Known(g)')
  <2>1. SlotsOK(g)'
    BY Zenon, <1>1 DEF H2Inv, SlotsOK
  <2>2. CASE g = h
    BY Zenon, <1>1, <1>4, <1>6, <2>1, <2>2 DEF H2Inv, StateOK, Known
  <2>3. CASE g # h
    BY Zenon, <1>1, <1>3, <2>1, <2>3 DEF H2Inv, StateOK, Known
  <2> QED BY Zenon, <2>2, <2>3
<1>8. ASSUME NEW y \in Exchanges, phase[y] = "handshake" PROVE state'[gen[y]] = state[gen[y]]
  <2>1. gen[y] \in Gens /\ gen[y] # h
    BY Zenon, <1>1, <1>8, HandshakeAlone
  <2> QED BY Zenon, <1>3, <2>1
<1> QED BY Zenon, <1>1, <1>5, <1>7, <1>8, GenerationStep DEF HasSocket

LEMMA StepDriverEnds ==
    ASSUME H2Inv, NEW h \in Gens, DriverEnds(h)
    PROVE  H2Inv'
<1>1. /\ driver[h] = "running" /\ driver' = [driver EXCEPT ![h] = "ended"]
      /\ transport' = [transport EXCEPT ![h] = "closing"]
      /\ selectable' = [selectable EXCEPT ![h] = FALSE]
      /\ state' = [state EXCEPT ![h] = IF @ = "Closed" THEN @ ELSE "Retiring"]
      /\ UNCHANGED <<active, exchangeVars>> /\ UNCHANGED <<pool, offer, limit, streams, master, published>>
  BY Zenon DEF DriverEnds, mark_retiring
<1>2. /\ driver'[h] = "ended" /\ transport'[h] = "closing" /\ ~selectable'[h] /\ state'[h] \in {"Closed", "Retiring"}
      /\ \A g \in Gens \ {h} : /\ driver'[g] = driver[g] /\ transport'[g] = transport[g]
                                /\ selectable'[g] = selectable[g] /\ state'[g] = state[g]
  BY Zenon, <1>1 DEF H2Inv, H2Types
<1>3. H2Types' /\ Len(pool') <= PoolCapacity
  BY Zenon, <1>1 DEF H2Inv, H2Types, exchangeVars, Drivers, Sockets, States
<1>4. ASSUME NEW g \in Gens PROVE StateOK(g)' /\ SlotsOK(g)' /\ (Known(g) => Known(g)')
  <2>1. StateOK(g) /\ SlotsOK(g)
    BY Zenon DEF H2Inv
  <2>2. CASE g = h
    BY <1>1, <1>2, <2>1, <2>2 DEF StateOK, SlotsOK, OneSlot, Known
  <2>3. CASE g # h
    BY <1>1, <1>2, <2>1, <2>3 DEF StateOK, SlotsOK, Known
  <2> QED BY Zenon, <2>2, <2>3
<1>5. ASSUME NEW y \in Exchanges, phase[y] = "handshake" PROVE state'[gen[y]] = state[gen[y]]
  BY Zenon, <1>1, <1>2, <1>5, HandshakeAlone
<1>6. transport[h] = "open"
  BY Zenon, <1>1 DEF H2Inv, StateOK
<1>7. \A g \in Gens : HasSocket(g)' => HasSocket(g) /\ (driver'[g] = "none" => driver[g] = "none")
  BY Zenon, <1>2, <1>6 DEF HasSocket
<1>8. \A g \in Gens : driver[g] = "none" => driver'[g] = "none"
  BY Zenon, <1>1, <1>2
<1> QED BY Zenon, <1>1, <1>3, <1>4, <1>5, <1>7, <1>8, GenerationStep

LEMMA AllRetiring ==
    ASSUME pool \in Seq(SlotSet), NEW h \in Gens
    PROVE  \A i \in SlotsIn(RetiringSlots(h), h) : RetiringSlots(h)[i].entry = "RetiringH2"
<1>1. DOMAIN pool = 1 .. Len(pool) /\ \A i \in 1 .. Len(pool) : pool[i] \in SlotSet
  BY Zenon, LenProperties, ElementOfSeq
<1> SUFFICES ASSUME NEW i \in SlotsIn(RetiringSlots(h), h) PROVE RetiringSlots(h)[i].entry = "RetiringH2"
  BY Zenon
<1>2. /\ i \in DOMAIN pool /\ RetiringSlots(h)[i].entry # "H1" /\ RetiringSlots(h)[i].gen = h
      /\ RetiringSlots(h)[i] = IF pool[i] = Slot("H2", h) THEN Slot("RetiringH2", h) ELSE pool[i]
  BY Zenon DEF SlotsIn, RetiringSlots
<1>3. CASE pool[i] = Slot("H2", h)
  BY <1>2, <1>3 DEF Slot
<1>4. CASE pool[i] # Slot("H2", h)
  <2>1. pool[i] \in SlotSet /\ pool[i].entry # "H1" /\ pool[i].gen = h
    BY Zenon, <1>1, <1>2, <1>4
  <2>2. pool[i] \in [entry : {"H2", "RetiringH2"}, gen : Gens]
    BY <2>1 DEF SlotSet, Slot
  <2>3. pool[i].entry # "H2"
    BY Zenon, <1>4, <2>1, <2>2 DEF Slot
  <2> QED BY Zenon, <1>2, <1>4, <2>2, <2>3
<1> QED BY Zenon, <1>3, <1>4

LEMMA StepDriverRetires ==
    ASSUME H2Inv, NEW h \in Gens, DriverRetires(h)
    PROVE  H2Inv'
<1>1. /\ driver[h] = "ended" /\ driver' = [driver EXCEPT ![h] = "waiting"] /\ pool' = RetiringSlots(h)
      /\ master' = [master EXCEPT ![h] = IF Slot("H2", h) \in Range(pool) THEN FALSE ELSE @]
      /\ UNCHANGED <<active, exchangeVars>> /\ UNCHANGED <<state, selectable, offer, limit, streams, published, transport>>
  BY Zenon DEF DriverRetires, controlVars
<1>2. driver'[h] = "waiting" /\ \A g \in Gens \ {h} : driver'[g] = driver[g]
  BY Zenon, <1>1 DEF H2Inv, H2Types
<1>3. pool \in Seq(SlotSet) /\ \A g \in Gens : published[g] \in BOOLEAN /\ driver[g] \in Drivers
  BY Zenon DEF H2Inv, H2Types
<1>4. /\ pool' \in Seq(SlotSet) /\ Len(pool') = Len(pool)
      /\ \A g \in Gens : OneSlot(pool', g, published[g], driver[g])
  BY Zenon, <1>1, <1>3, SlotsRetired DEF H2Inv, SlotsOK
<1>5. \A i \in SlotsIn(pool', h) : pool'[i].entry = "RetiringH2"
  BY Zenon, <1>1, <1>3, AllRetiring
<1>6. master' \in [Gens -> BOOLEAN] /\ driver' \in [Gens -> Drivers]
  BY Zenon, <1>1 DEF H2Inv, H2Types, Drivers
<1>7. H2Types' /\ Len(pool') <= PoolCapacity
  BY Zenon, <1>1, <1>4, <1>6 DEF H2Inv, H2Types, exchangeVars
<1>8. ASSUME NEW g \in Gens PROVE StateOK(g)' /\ SlotsOK(g)' /\ (Known(g) => Known(g)')
  <2>1. StateOK(g)
    BY Zenon DEF H2Inv
  <2>2. CASE g = h
    <3>1. SlotsOK(h)'
      BY Zenon, <1>1, <1>4, <1>5 DEF SlotsOK, OneSlot
    <3> QED BY Zenon, <1>1, <1>2, <2>1, <2>2, <3>1 DEF StateOK, Known
  <2>3. CASE g # h
    BY Zenon, <1>1, <1>2, <1>4, <2>1, <2>3 DEF StateOK, SlotsOK, Known
  <2> QED BY <2>2, <2>3
<1>9. \A g \in Gens : HasSocket(g)' => HasSocket(g) /\ (driver'[g] = "none" => driver[g] = "none")
  BY Zenon, <1>1, <1>2 DEF HasSocket
<1>10. \A g \in Gens : driver[g] = "none" => driver'[g] = "none"
  BY Zenon, <1>1, <1>2
<1> QED BY Zenon, <1>1, <1>7, <1>8, <1>9, <1>10, GenerationStep

LEMMA StepTransportDropped ==
    ASSUME H2Inv, NEW h \in Gens, TransportDropped(h)
    PROVE  H2Inv'
<1>1. /\ transport[h] = "closing" /\ transport' = [transport EXCEPT ![h] = "dropped"]
      /\ UNCHANGED <<active, exchangeVars>>
      /\ UNCHANGED <<pool, state, selectable, offer, limit, streams, master, published, driver>>
  BY Zenon DEF TransportDropped, controlVars
<1>2. transport'[h] = "dropped" /\ \A g \in Gens \ {h} : transport'[g] = transport[g]
  BY Zenon, <1>1 DEF H2Inv, H2Types
<1>3. H2Types' /\ Len(pool') <= PoolCapacity
  BY Zenon, <1>1 DEF H2Inv, H2Types, exchangeVars, Sockets
<1>4. ASSUME NEW g \in Gens PROVE StateOK(g)' /\ SlotsOK(g)' /\ (Known(g) => Known(g)')
  <2>1. StateOK(g) /\ SlotsOK(g)
    BY DEF H2Inv
  <2>2. CASE g = h
    BY Zenon, <1>1, <1>2, <2>1, <2>2 DEF StateOK, SlotsOK, Known
  <2>3. CASE g # h
    BY Zenon, <1>1, <1>2, <2>1, <2>3 DEF StateOK, SlotsOK, Known
  <2> QED BY <2>2, <2>3
<1>5. \A g \in Gens : HasSocket(g)' => HasSocket(g)
  BY Zenon, <1>2 DEF HasSocket
<1> QED BY Zenon, <1>1, <1>3, <1>4, <1>5, GenerationStep

LEMMA StepDriverCloses ==
    ASSUME H2Inv, NEW h \in Gens, DriverCloses(h)
    PROVE  H2Inv'
<1>1. /\ driver[h] = "waiting" /\ DropFirst(Slot("RetiringH2", h))
      /\ driver' = [driver EXCEPT ![h] = "none"] /\ limit' = [limit EXCEPT ![h] = 0]
      /\ streams' = [streams EXCEPT ![h] = 0] /\ published' = [published EXCEPT ![h] = FALSE]
      /\ transport' = [transport EXCEPT ![h] = "none"] /\ state' = [state EXCEPT ![h] = "Closed"]
      /\ selectable' = [selectable EXCEPT ![h] = FALSE] /\ offer' = [offer EXCEPT ![h] = FALSE]
      /\ UNCHANGED <<active, exchangeVars>> /\ UNCHANGED master
  BY Zenon DEF DriverCloses, Freed
<1>2. /\ driver'[h] = "none" /\ ~published'[h] /\ transport'[h] = "none" /\ state'[h] = "Closed" /\ ~selectable'[h]
      /\ \A g \in Gens \ {h} :
            /\ driver'[g] = driver[g] /\ published'[g] = published[g] /\ transport'[g] = transport[g]
            /\ state'[g] = state[g] /\ selectable'[g] = selectable[g] /\ offer'[g] = offer[g]
            /\ limit'[g] = limit[g] /\ streams'[g] = streams[g]
  BY Zenon, <1>1 DEF H2Inv, H2Types
<1>3. /\ pool \in Seq(SlotSet) /\ Slot("RetiringH2", h) \in SlotSet /\ Slot("RetiringH2", h).gen = h
      /\ \A g \in Gens : published[g] \in BOOLEAN /\ driver[g] \in Drivers /\ OneSlot(pool, g, published[g], driver[g])
  BY Zenon DEF H2Inv, H2Types, SlotSet, Slot, SlotsOK
<1>4. /\ pool' \in Seq(SlotSet) /\ Len(pool') <= Len(pool) /\ OneSlot(pool', h, FALSE, "none")
      /\ \A g \in Gens \ {h} : OneSlot(pool', g, published[g], driver[g])
  BY Zenon, <1>1, <1>3, SlotRemoved
<1>5. Len(pool') <= PoolCapacity
  <2>1. Len(pool) \in Nat /\ Len(pool') \in Nat /\ PoolCapacity \in Nat
    BY Zenon, <1>3, <1>4, LenProperties, H2GenerationAssumption
  <2> QED BY <1>4, <2>1 DEF H2Inv
<1>6. H2Types'
  BY Zenon, <1>1, <1>4 DEF H2Inv, H2Types, exchangeVars, Drivers, Sockets, States
<1>7. ASSUME NEW g \in Gens PROVE StateOK(g)' /\ SlotsOK(g)' /\ (Known(g) => Known(g)')
  <2>1. StateOK(g)
    BY DEF H2Inv
  <2>2. CASE g = h
    <3>1. published'[h] = FALSE
      BY Zenon, <1>1 DEF H2Inv, H2Types
    <3>2. StateOK(h)' /\ Known(h)'
      BY Zenon, <1>2 DEF StateOK, Known
    <3> QED BY Zenon, <1>2, <1>4, <2>2, <3>1, <3>2 DEF SlotsOK
  <2>3. CASE g # h
    BY Zenon, <1>2, <1>4, <2>1, <2>3 DEF StateOK, SlotsOK, Known
  <2> QED BY <2>2, <2>3
<1>8. ASSUME NEW y \in Exchanges, phase[y] = "handshake" PROVE state'[gen[y]] = state[gen[y]]
  BY Zenon, <1>1, <1>2, <1>8, HandshakeAlone
<1>9. \A g \in Gens : HasSocket(g)' => /\ HasSocket(g) /\ published'[g] = published[g]
                                       /\ driver'[g] = "none" => driver[g] = "none"
  BY Zenon, <1>2 DEF HasSocket
<1>10. \A g \in Gens : /\ driver[g] = "none" => driver'[g] = "none"
  BY Zenon, <1>2
<1> QED BY Zenon, <1>1, <1>5, <1>6, <1>7, <1>8, <1>9, <1>10, GenerationStep

LEMMA StepPoolH1 ==
    ASSUME H2Inv, ParkH1 \/ TakeH1
    PROVE  H2Inv'
<1>1. /\ \/ Len(pool) < PoolCapacity /\ pool' = Append(pool, Slot("H1", None))
         \/ DropFirst(Slot("H1", None))
      /\ UNCHANGED <<active, exchangeVars>>
      /\ UNCHANGED <<state, selectable, offer, limit, streams, master, published, driver, transport>>
  BY Zenon DEF ParkH1, TakeH1, controlVars, genVars
<1>2. /\ pool \in Seq(SlotSet) /\ Slot("H1", None) \in SlotSet /\ Slot("H1", None).entry = "H1"
      /\ Len(pool) \in Nat /\ PoolCapacity \in Nat /\ Len(pool) <= PoolCapacity
      /\ \A g \in Gens : published[g] \in BOOLEAN /\ driver[g] \in Drivers /\ OneSlot(pool, g, published[g], driver[g])
  BY Zenon, LenProperties, H2GenerationAssumption DEF H2Inv, H2Types, SlotSet, Slot, SlotsOK
<1>3. /\ pool' \in Seq(SlotSet) /\ Len(pool') <= PoolCapacity
      /\ \A g \in Gens : OneSlot(pool', g, published[g], driver[g])
  <2>1. CASE Len(pool) < PoolCapacity /\ pool' = Append(pool, Slot("H1", None))
    <3>1. /\ pool' \in Seq(SlotSet) /\ Len(pool') = Len(pool) + 1
          /\ \A g \in Gens : OneSlot(pool', g, published[g], driver[g])
      BY Zenon, <1>2, <2>1, SlotAppended
    <3> QED BY <1>2, <2>1, <3>1
  <2>2. CASE DropFirst(Slot("H1", None))
    <3>1. /\ pool' \in Seq(SlotSet) /\ Len(pool') <= Len(pool)
          /\ \A g \in Gens : OneSlot(pool', g, published[g], driver[g])
      BY Zenon, <1>2, <2>2, SlotRemoved
    <3>2. Len(pool') \in Nat
      BY Zenon, <3>1, LenProperties
    <3> QED BY <1>2, <3>1, <3>2
  <2> QED BY Zenon, <1>1, <2>1, <2>2
<1>4. H2Types'
  BY Zenon, <1>1, <1>3 DEF H2Inv, H2Types, exchangeVars
<1>5. \A g \in Gens : StateOK(g)' /\ SlotsOK(g)' /\ (Known(g) => Known(g)')
  BY Zenon, <1>1, <1>3 DEF H2Inv, StateOK, SlotsOK, Known
<1> QED BY Zenon, <1>1, <1>3, <1>4, <1>5, GenerationStep DEF HasSocket
-----------------------------------------------------------------------------
(* The theorems.                                                           *)

LEMMA H2InvNext == H2Inv /\ [Next]_vars => H2Inv'
<1> SUFFICES ASSUME H2Inv, [Next]_vars PROVE H2Inv'
  BY Zenon
<1>1. ASSUME NEW x \in Exchanges,
             \/ forward(x) \/ try_reserve(x) \/ CloneMaster(x) \/ connect_h2(x) \/ Handshake(x) \/ Proved(x)
             \/ GateDropped(x) \/ dispatch(x) \/ Finish(x) \/ TransportAwaited(x)
      PROVE  H2Inv'
  BY Zenon, <1>1, StepForward, StepTryReserve, StepCloneMaster, StepConnect, StepHandshake, StepProved,
     StepGateDropped, StepDispatch, StepFinish, StepTransportAwaited
<1>2. ASSUME NEW g \in Gens, observe_inbound(g) \/ Driver(g) PROVE H2Inv'
  BY Zenon, <1>2, StepObserve, StepDriverEnds, StepDriverRetires, StepTransportDropped, StepDriverCloses DEF Driver
<1>3. CASE UNCHANGED vars
  <2>1. UNCHANGED <<active, exchangeVars>> /\ UNCHANGED <<pool, state, selectable, offer, limit, streams, master, published, driver, transport>>
    BY Zenon, <1>3 DEF vars, exchangeVars
  <2>2. H2Types' /\ Len(pool') <= PoolCapacity
    BY Zenon, <2>1 DEF H2Inv, H2Types, exchangeVars
  <2>3. \A g \in Gens : StateOK(g)' /\ SlotsOK(g)' /\ (Known(g) => Known(g)')
    BY Zenon, <2>1 DEF H2Inv, StateOK, SlotsOK, Known
  <2> QED BY Zenon, <2>1, <2>2, <2>3, GenerationStep DEF HasSocket
<1> QED BY Zenon, <1>1, <1>2, <1>3, StepPoolH1 DEF Next

LEMMA H2Invariant == Spec => []H2Inv
BY H2InvInit, H2InvNext, PTL DEF Spec

\* A phase leaves "selected" for a dispatch in linearize_dispatch alone.
LEMMA OnlyDispatchDispatches ==
    ASSUME H2Inv, [Next]_vars, NEW x \in Exchanges, phase[x] = "selected", phase'[x] \in Dispatched
    PROVE  \E k \in Dispatched : allowed(gen[x], k) /\ phase'[x] = k
<1>0. phase \in [Exchanges -> Phases] /\ phase'[x] # phase[x]
  BY Zenon DEF H2Inv, H2Types, Dispatched
<1>1. ASSUME NEW z \in Exchanges, NEW p, phase' = [phase EXCEPT ![z] = p] PROVE z = x /\ phase'[z] = p
  BY Zenon, <1>0, <1>1
<1>2. ASSUME NEW z \in Exchanges, forward(z) \/ connect_h2(z) \/ Proved(z) \/ GateDropped(z)
                                  \/ TransportAwaited(z) \/ try_reserve(z)
      PROVE  FALSE
  <2>1. phase[z] # "selected" /\ (UNCHANGED phase \/ \E p \in Phases : phase' = [phase EXCEPT ![z] = p])
    BY Zenon, <1>2 DEF forward, connect_h2, Proved, GateDropped, TransportAwaited, try_reserve, Goto, Phases
  <2> QED BY Zenon, <1>0, <1>1, <2>1
<1>3. ASSUME NEW z \in Exchanges, CloneMaster(z) \/ Handshake(z) \/ Finish(z) PROVE FALSE
  <2>1. \E p \in Phases \ Dispatched : phase' = [phase EXCEPT ![z] = p]
    BY Zenon, <1>3 DEF CloneMaster, Handshake, Finish, finish_exchange_resource, Goto, Phases, Dispatched
  <2> QED BY Zenon, <1>0, <1>1, <2>1
<1>4. ASSUME NEW g \in Gens, observe_inbound(g) \/ Driver(g) PROVE FALSE
  BY Zenon, <1>0, <1>4 DEF observe_inbound, Driver, DriverEnds, DriverRetires, TransportDropped, DriverCloses, exchangeVars
<1>5. ~(ParkH1 \/ TakeH1 \/ UNCHANGED vars)
  BY Zenon, <1>0 DEF ParkH1, TakeH1, vars, exchangeVars
<1>6. ASSUME NEW z \in Exchanges, dispatch(z) PROVE \E k \in Dispatched : allowed(gen[x], k) /\ phase'[x] = k
  <2>1. PICK k \in Dispatched : allowed(gen[z], k) /\ phase' = [phase EXCEPT ![z] = k]
    BY Zenon, <1>6 DEF dispatch, Goto
  <2> QED BY Zenon, <1>1, <2>1
<1> QED BY Zenon, <1>2, <1>3, <1>4, <1>5, <1>6 DEF Next

\* linearize_dispatch looks once more: however long an exchange waits for its sender, its
\* request is enqueued on an open connection only, and an extended CONNECT only while the
\* peer's last SETTINGS offer it.
THEOREM DispatchIsOffered == Spec => DispatchOnlyWhileOffered
<1>1. ASSUME H2Inv, [Next]_vars, NEW x \in Exchanges, phase[x] = "selected", phase'[x] \in Dispatched
      PROVE  /\ transport[gen[x]] = "open"
             /\ phase'[x] = "ExtendedConnect" => offer[gen[x]]
  <2>1. PICK k \in Dispatched : allowed(gen[x], k) /\ phase'[x] = k
    BY Zenon, <1>1, OnlyDispatchDispatches
  <2>2. gen[x] \in Gens /\ Known(gen[x])
    BY Zenon, <1>1, ReservedGeneration DEF Reserved
  <2>3. StateOK(gen[x]) /\ driver[gen[x]] \in Drivers
    BY Zenon, <1>1, <2>2 DEF H2Inv, H2Types
  <2> QED BY Zenon, <2>1, <2>2, <2>3 DEF allowed, Known, StateOK, Drivers
<1>2. H2Inv /\ [Next]_vars =>
        [\A x \in Exchanges :
            phase[x] = "selected" /\ phase'[x] \in Dispatched =>
                /\ transport[gen[x]] = "open"
                /\ phase'[x] = "ExtendedConnect" => offer[gen[x]]]_vars
  BY Zenon, <1>1
<1> QED BY <1>2, H2Invariant, PTL DEF Spec, DispatchOnlyWhileOffered

\* Revocation and retirement are final.
LEMMA NoWayBack ==
    ASSUME H2Inv, [Next]_vars, NEW g \in Gens, state[g] \in {"Revoked", "Retiring"}
    PROVE  state'[g] \in {"Revoked", "Retiring", "Closed"}
<1>0. state \in [Gens -> States]
  BY Zenon DEF H2Inv, H2Types
<1>1. ASSUME NEW h, mark_retiring(h) PROVE state'[g] \in {"Revoked", "Retiring", "Closed"}
  BY Zenon, <1>0, <1>1 DEF mark_retiring
<1>2. ASSUME NEW h, Freed(h) PROVE state'[g] \in {"Revoked", "Retiring", "Closed"}
  BY Zenon, <1>0, <1>2 DEF Freed
<1>3. ASSUME NEW x \in Exchanges, connect_h2(x) PROVE state'[g] \in {"Revoked", "Retiring", "Closed"}
  <2>1. PICK new \in Gens : transport[new] = "none" /\ state' = [state EXCEPT ![new] = "Proving"]
    BY Zenon, <1>3 DEF connect_h2, Unused
  <2>2. new # g
    BY Zenon, <2>1 DEF H2Inv, StateOK
  <2> QED BY Zenon, <1>0, <2>1, <2>2
<1>4. ASSUME NEW x \in Exchanges, Handshake(x) PROVE state'[g] \in {"Revoked", "Retiring", "Closed"}
  BY Zenon, <1>0, <1>4 DEF Handshake
<1>5. ASSUME NEW x \in Exchanges,
             forward(x) \/ Proved(x) \/ GateDropped(x) \/ dispatch(x) \/ TransportAwaited(x)
      PROVE  state'[g] \in {"Revoked", "Retiring", "Closed"}
  BY Zenon, <1>2, <1>5 DEF forward, Proved, GateDropped, dispatch, TransportAwaited, controlVars
<1>6. ASSUME NEW x \in Exchanges, try_reserve(x) \/ CloneMaster(x) \/ Finish(x)
      PROVE  state'[g] \in {"Revoked", "Retiring", "Closed"}
  <2>1. UNCHANGED controlVars \/ \E h : mark_retiring(h)
    BY Zenon, <1>6 DEF try_reserve, CloneMaster, Finish, retire_h2_generation
  <2> QED BY Zenon, <1>1, <2>1 DEF controlVars
<1>7. ASSUME NEW h \in Gens, Driver(h) PROVE state'[g] \in {"Revoked", "Retiring", "Closed"}
  BY Zenon, <1>1, <1>2, <1>7 DEF Driver, DriverEnds, DriverRetires, TransportDropped, DriverCloses, controlVars
<1>8. ASSUME NEW h \in Gens, observe_inbound(h) PROVE state'[g] \in {"Revoked", "Retiring", "Closed"}
  BY Zenon, <1>0, <1>8 DEF observe_inbound, controlVars
<1>9. ASSUME ParkH1 \/ TakeH1 \/ UNCHANGED vars PROVE state'[g] \in {"Revoked", "Retiring", "Closed"}
  BY Zenon, <1>9 DEF ParkH1, TakeH1, controlVars, vars
<1> QED BY Zenon, <1>3, <1>4, <1>5, <1>6, <1>7, <1>8, <1>9 DEF Next

\* mark_retiring, observe_inbound and the driver never let a generation that was revoked or
\* retired be selected again, and only a live one is selectable.
THEOREM RetirementIsFinal == Spec => RetiredForGood
<1>1. H2Inv /\ H2Inv' /\ [Next]_vars =>
        [\A g \in Gens :
            /\ state[g] \in {"Revoked", "Retiring"} =>
                  /\ state'[g] \in {"Revoked", "Retiring", "Closed"}
                  /\ ~selectable'[g]
            /\ selectable'[g] => state'[g] \in {"LiveEnabled", "LiveDisabled"}]_vars
  <2> SUFFICES ASSUME H2Inv, H2Inv', [Next]_vars, NEW g \in Gens
               PROVE  /\ state[g] \in {"Revoked", "Retiring"} =>
                            /\ state'[g] \in {"Revoked", "Retiring", "Closed"}
                            /\ ~selectable'[g]
                      /\ selectable'[g] => state'[g] \in {"LiveEnabled", "LiveDisabled"}
    BY Zenon
  <2>1. selectable'[g] => state'[g] \in {"LiveEnabled", "LiveDisabled"}
    BY Zenon DEF H2Inv, StateOK, Live
  <2> QED BY Zenon, <2>1, NoWayBack
<1> QED BY <1>1, H2Invariant, PTL DEF Spec, RetiredForGood
=============================================================================
