--------------------------- MODULE VMPagerProofs ---------------------------
(* The pager's inductive invariant and the properties that follow from it. *)
EXTENDS VMPager, FiniteSetTheorems, SequenceTheorems, TLAPS

----------------------------------------------------------------------------
(* What VM_MapTLBEntry and VM_UnmapTLBEntry preserve: the part of the       *)
(* invariant about regions' maps, frames and TLB entries.                   *)

(* The codes for "none" are no frame, no TLB index and no page of the model. *)
LEMMA Sentinels ==
  /\ NoSlot \notin Slots /\ NoTLB \notin TLBIndex /\ NoPage \notin VPages
  /\ NoPage \in Nat /\ NoPage % 2 = 1 /\ WiredId \notin VPages /\ WiredId # NoPage
  BY PagerAssumption DEF Slots, TLBIndex, VPages, NoSlot, NoTLB, NoPage, WiredId

(* The TLB is the entries below FirstTLB, which stay wired, and those the pager recycles. *)
LEMMA Indices ==
  /\ FirstTLB .. NumTLB - 1 \subseteq TLBIndex /\ 0 .. FirstTLB - 1 \subseteq TLBIndex
  /\ TLBIndex = (0 .. FirstTLB - 1) \cup (FirstTLB .. NumTLB - 1)
  /\ FirstTLB \in FirstTLB .. NumTLB - 1
  /\ \A i \in FirstTLB .. NumTLB - 1 : i \notin 0 .. FirstTLB - 1
  /\ \A k \in TLBIndex : k \notin 0 .. FirstTLB - 1 => k \in FirstTLB .. NumTLB - 1
  BY PagerAssumption DEF TLBIndex

(* The even page of a pair, the odd one and the buddy of a page.           *)
LEMMA Pairs ==
  ASSUME NEW p \in VPages
  PROVE  /\ EvenPage(p) \in VPages /\ EvenPage(p) + 1 \in VPages /\ Buddy(p) \in VPages
         /\ EvenPage(p) % 2 = 0 /\ (EvenPage(p) + 1) % 2 = 1
         /\ p % 2 = 0 => EvenPage(p) = p /\ Buddy(p) = EvenPage(p) + 1
         /\ p % 2 # 0 => p % 2 = 1 /\ EvenPage(p) + 1 = p /\ Buddy(p) = EvenPage(p)
<1>1. p \in Nat /\ p < NumPages /\ NumPages \in Nat /\ NumPages % 2 = 0
  BY PagerAssumption DEF VPages
<1>2. p % 2 = 0 \/ p % 2 = 1
  BY <1>1
<1>3. CASE p % 2 = 0
  <2>1. p + 1 < NumPages
    BY <1>1, <1>3
  <2>2. EvenPage(p) = p /\ Buddy(p) = p + 1 /\ (p + 1) % 2 = 1
    BY <1>1, <1>3 DEF EvenPage, Buddy
  <2> QED
    BY <1>1, <1>3, <2>1, <2>2 DEF VPages
<1>4. CASE p % 2 = 1
  <2>1. EvenPage(p) = p - 1 /\ Buddy(p) = p - 1 /\ (p - 1) % 2 = 0 /\ p >= 1
    BY <1>1, <1>4 DEF EvenPage, Buddy
  <2> QED
    BY <1>1, <1>4, <2>1 DEF VPages
<1> QED
  BY <1>2, <1>3, <1>4

(* The two pages of a TLB entry are each other's buddies.                  *)
LEMMA Buddies ==
  ASSUME NEW p \in VPages
  PROVE  /\ Buddy(p) \in VPages /\ Buddy(p) # p /\ Buddy(Buddy(p)) = p
         /\ EvenPage(Buddy(p)) = EvenPage(p)
         /\ Buddy(p) % 2 = 0 <=> p % 2 # 0
<1>1. p \in Int /\ Buddy(p) \in VPages
  BY Pairs DEF VPages
<1>2. CASE p % 2 = 0
  BY <1>1, <1>2 DEF Buddy, EvenPage
<1>3. CASE p % 2 = 1
  BY <1>1, <1>3 DEF Buddy, EvenPage
<1> QED
  BY <1>1, <1>2, <1>3

----------------------------------------------------------------------------
(* The TLB: VM_MapTLBEntry and VM_UnmapTLBEntry                            *)

(* An entry in use names an even page and holds a half. *)
EntriesOK ==
  /\ \A i \in TLBIndex : entries[i].id # NoPage =>
       /\ entries[i].id \in VPages /\ entries[i].id % 2 = 0
       /\ entries[i].a # NoSlot \/ entries[i].b # NoSlot
  /\ \A i \in 0 .. FirstTLB - 1 : entries[i] = EmptyEntry
  /\ \A i, j \in TLBIndex : entries[i].id = entries[j].id /\ entries[i].id # NoPage => i = j

TLBAgrees ==
  /\ \A i \in FirstTLB .. NumTLB - 1 : hw[i] = entries[i]
  /\ \A i \in 0 .. FirstTLB - 1 : hw[i] = WiredEntry

TLBTypes ==
  /\ page \in [Slots -> VPages \cup {NoPage}]
  /\ tlb \in [Slots -> TLBIndex \cup {NoTLB}]
  /\ entries \in [TLBIndex -> Entry]
  /\ hw \in [TLBIndex -> Entry]
  /\ cur \in FirstTLB .. NumTLB - 1
  /\ map \in [VPages -> Slots \cup {NoSlot}]

TLBInv == TLBTypes /\ ResidencyConsistent /\ EntriesOK /\ TLBAgrees

(* When one half of the pair is in the TLB, the other page joins it.       *)
LEMMA MapInSharedEntry ==
  ASSUME TLBInv, NEW p \in VPages, NEW s \in Slots,
         map[p] \in {NoSlot, s}, tlb[s] = NoTLB, page[s] \in {NoPage, p},
         map[p] = s <=> page[s] = p,
         ~NeedsEntry(p), VM_MapTLBEntry(p, s)
  PROVE  TLBInv'
<1> DEFINE lo == map[EvenPage(p)]
           hi == map[EvenPage(p) + 1]
           q  == Buddy(p)
           b  == map[q]
           i  == tlb[b]
<1> USE DEF TLBTypes
<1>1. EvenPage(p) \in VPages /\ EvenPage(p) + 1 \in VPages /\ q \in VPages /\ q # p
  BY Pairs DEF TLBInv
<1>2. Mapped(b) /\ b \in Slots /\ i \in TLBIndex /\ page[b] = q /\ b # s
  BY <1>1, Pairs, Sentinels DEF TLBInv, NeedsEntry, Mapped, ResidencyConsistent
<1>3. EvenPage(q) = EvenPage(p) /\ (q % 2 = 0 <=> p % 2 # 0)
  BY Buddies
<1>4. /\ entries[i].id = EvenPage(p)
      /\ q % 2 = 0 => entries[i].a = b
      /\ q % 2 # 0 => entries[i].b = b
  BY <1>1, <1>2, <1>3, Sentinels DEF TLBInv, ResidencyConsistent
<1>5. entries[i].a \in Slots \cup {NoSlot} /\ entries[i].b \in Slots \cup {NoSlot}
  BY <1>2 DEF TLBInv, Entry
<1>6. ASSUME NEW f \in Slots, page[f] = p  PROVE f = s
  BY <1>6, <1>1, Sentinels DEF TLBInv, ResidencyConsistent
<1>7. /\ p % 2 = 0 => entries[i].a = NoSlot
      /\ p % 2 # 0 => entries[i].b = NoSlot
  BY <1>2, <1>4, <1>5, <1>6, Pairs, Sentinels DEF TLBInv, ResidencyConsistent
<1>8. /\ entries' = [entries EXCEPT ![i] = IF p % 2 = 0 THEN [@ EXCEPT !.a = s] ELSE [@ EXCEPT !.b = s]]
      /\ hw' = [hw EXCEPT ![i] = IF p % 2 = 0 THEN [entries[i] EXCEPT !.a = s] ELSE [entries[i] EXCEPT !.b = s]]
      /\ tlb' = [tlb EXCEPT ![s] = i]
      /\ cur' = cur /\ page' = [page EXCEPT ![s] = p] /\ map' = [map EXCEPT ![p] = s]
  BY <1>1, <1>2, Pairs, Sentinels DEF TLBInv, VM_MapTLBEntry, Install, Joins, Evicts, NeedsEntry, Mapped
<1>9. i \in FirstTLB .. NumTLB - 1
  <2>1. \A k \in 0 .. FirstTLB - 1 : entries[k].id = NoPage
    BY DEF TLBInv, EntriesOK, EmptyEntry
  <2>2. entries[i].id # NoPage
    BY <1>1, <1>4, Sentinels
  <2>3. i \in TLBIndex
    BY <1>2
  <2> HIDE DEF i
  <2>4. i \notin 0 .. FirstTLB - 1
    BY <2>1, <2>2
  <2> QED
    BY <2>3, <2>4, Indices
<1>10. TLBTypes'
  <2>1. /\ entries[i] \in Entry /\ hw \in [TLBIndex -> Entry] /\ entries \in [TLBIndex -> Entry]
        /\ i \in TLBIndex
    BY <1>2 DEF TLBInv
  <2>2. [entries[i] EXCEPT !.a = s] \in Entry /\ [entries[i] EXCEPT !.b = s] \in Entry
    BY <2>1 DEF Entry
  <2>3. entries' \in [TLBIndex -> Entry] /\ hw' \in [TLBIndex -> Entry]
    BY <1>8, <2>1, <2>2
  <2>4. tlb' \in [Slots -> TLBIndex \cup {NoTLB}] /\ cur' \in FirstTLB .. NumTLB - 1
    BY <1>8, <2>1 DEF TLBInv
  <2>5. /\ page' \in [Slots -> VPages \cup {NoPage}]
        /\ map' \in [VPages -> Slots \cup {NoSlot}]
    BY <1>8 DEF TLBInv
  <2> HIDE DEF i
  <2> QED
    BY <2>3, <2>4, <2>5
<1>11. ResidencyConsistent'
  BY SMTT(30), <1>1, <1>2, <1>3, <1>4, <1>5, <1>6, <1>7, <1>8, Pairs, Sentinels DEF TLBInv, ResidencyConsistent, Entry
<1>12. EntriesOK'
  <2> DEFINE e == entries'
  <2> HIDE DEF i
  <2>0. EntriesOK /\ entries \in [TLBIndex -> Entry] /\ i \in TLBIndex
    BY <1>2 DEF TLBInv
  <2>1. \A k \in TLBIndex : k # i => e[k] = entries[k]
    BY <2>0, <1>8
  <2>2. /\ e[i].id = entries[i].id
        /\ e[i].a # NoSlot \/ e[i].b # NoSlot
        /\ entries[i].id \in VPages /\ entries[i].id % 2 = 0
    BY <2>0, <1>1, <1>4, <1>8, Pairs, Sentinels DEF Entry
  <2>3. \A k \in TLBIndex : e[k].id = entries[k].id
    BY <2>1, <2>2
  <2>4. \A k \in TLBIndex : e[k].id # NoPage =>
          e[k].id \in VPages /\ e[k].id % 2 = 0 /\ (e[k].a # NoSlot \/ e[k].b # NoSlot)
    BY <2>0, <2>1, <2>2 DEF EntriesOK
  <2>5. \A k \in 0 .. FirstTLB - 1 : e[k] = EmptyEntry
    BY <2>0, <2>1, <1>9, Indices DEF EntriesOK
  <2>6. \A j, k \in TLBIndex : e[j].id = e[k].id /\ e[j].id # NoPage => j = k
    BY <2>0, <2>3 DEF EntriesOK
  <2> QED
    BY <2>4, <2>5, <2>6 DEF EntriesOK
<1>13. TLBAgrees'
  <2> HIDE DEF i
  <2>2. /\ \A k \in TLBIndex : k # i => hw'[k] = hw[k] /\ entries'[k] = entries[k]
        /\ hw'[i] = entries'[i]
    BY <1>2, <1>8 DEF TLBInv
  <2> QED
    BY <1>9, <2>2, Indices DEF TLBInv, TLBAgrees
<1> QED
  BY <1>10, <1>11, <1>12, <1>13 DEF TLBInv

(* Otherwise an entry is recycled, and the buddy comes along if resident.  *)
LEMMA MapInNewEntry ==
  ASSUME TLBInv, NEW p \in VPages, NEW s \in Slots,
         map[p] \in {NoSlot, s}, tlb[s] = NoTLB, page[s] \in {NoPage, p},
         map[p] = s <=> page[s] = p,
         NeedsEntry(p), VM_MapTLBEntry(p, s)
  PROVE  TLBInv'
<1> DEFINE q  == Buddy(p)
           b  == map[q]
           old(f) == f = entries[cur].a \/ f = entries[cur].b
           e  == [id |-> EvenPage(p), a |-> IF p % 2 = 0 THEN s ELSE b,
                  b |-> IF p % 2 = 0 THEN b ELSE s]
<1>1. EvenPage(p) \in VPages /\ q \in VPages /\ q # p /\ EvenPage(q) = EvenPage(p)
      /\ (q % 2 = 0 <=> p % 2 # 0) /\ (p % 2 = 0 \/ p % 2 = 1)
      /\ (p % 2 = 0 => p = EvenPage(p) /\ q = EvenPage(p) + 1)
      /\ (p % 2 # 0 => q = EvenPage(p) /\ p = EvenPage(p) + 1)
  BY Pairs, Buddies
<1>2. /\ b \in Slots \cup {NoSlot}
      /\ b # NoSlot => b \in Slots /\ tlb[b] = NoTLB /\ page[b] = q /\ b # s
  BY <1>1, Sentinels DEF TLBInv, TLBTypes, NeedsEntry, Mapped, ResidencyConsistent
<1>3. cur \in TLBIndex /\ cur \in FirstTLB .. NumTLB - 1
  BY Indices DEF TLBInv, TLBTypes
<1>4. /\ entries' = [entries EXCEPT ![cur] = e]
      /\ hw' = [hw EXCEPT ![cur] = e]
      /\ tlb' = [f \in Slots |-> IF f = s \/ f = b THEN cur
                                 ELSE IF old(f) THEN NoTLB ELSE tlb[f]]
      /\ cur' = NextTLB /\ page' = [page EXCEPT ![s] = p] /\ map' = [map EXCEPT ![p] = s]
  BY <1>1 DEF VM_MapTLBEntry, Install, Joins, Evicts, NeedsEntry
<1>5. e \in Entry
  BY <1>1, <1>2 DEF Entry
<1>6. ASSUME NEW f \in Slots, page[f] = p  PROVE f = s
  BY <1>6, <1>1, Sentinels DEF TLBInv, ResidencyConsistent
<1>7. ASSUME NEW f \in Slots, tlb[f] # NoTLB
      PROVE  f # s /\ f # b /\ page[f] # p /\ page[f] # q
  BY <1>7, <1>1, <1>2, <1>6, Sentinels DEF TLBInv, ResidencyConsistent
<1>8. ASSUME NEW f \in Slots, tlb[f] # NoTLB
      PROVE  tlb[f] = cur <=> old(f)
  BY <1>8, <1>3, Sentinels DEF TLBInv, TLBTypes, ResidencyConsistent, Entry
<1>9. ASSUME NEW k \in TLBIndex
      PROVE  /\ entries[k].a \in Slots \cup {NoSlot} /\ entries[k].b \in Slots \cup {NoSlot}
             /\ entries[k].a # NoSlot => /\ entries[k].a \in Slots /\ tlb[entries[k].a] = k
                                         /\ page[entries[k].a] = entries[k].id
             /\ entries[k].b # NoSlot => /\ entries[k].b \in Slots /\ tlb[entries[k].b] = k
                                         /\ page[entries[k].b] = entries[k].id + 1
  BY DEF TLBInv, TLBTypes, ResidencyConsistent, Entry
<1>10. TLBTypes'
  <2>1. NextTLB \in FirstTLB .. NumTLB - 1
    BY <1>3, PagerAssumption DEF NextTLB
  <2> QED
    BY <1>3, <1>4, <1>5, <2>1 DEF TLBInv, TLBTypes
<1>11. ResidencyConsistent'
  <2> USE <1>1, <1>2, <1>3, <1>4, Sentinels DEF TLBInv, TLBTypes
  <2>1. \A r \in VPages : map'[r] # NoSlot => page'[map'[r]] = r
    BY DEF ResidencyConsistent
  <2>2. \A f \in Slots : page'[f] # NoPage => map'[page'[f]] = f
    BY <1>6 DEF ResidencyConsistent
  <2>3. ASSUME NEW f \in Slots, tlb'[f] # NoTLB
        PROVE  /\ page'[f] # NoPage
               /\ entries'[tlb'[f]].id = EvenPage(page'[f])
               /\ f = IF page'[f] % 2 = 0 THEN entries'[tlb'[f]].a ELSE entries'[tlb'[f]].b
    <3>1. CASE f = s
      BY <3>1
    <3>2. CASE f = b
      BY <3>2
    <3>3. CASE f # s /\ f # b
      <4>1. tlb'[f] = tlb[f] /\ tlb[f] # NoTLB /\ tlb[f] # cur /\ page'[f] = page[f]
        BY <3>3, <2>3, <1>8
      <4>2. entries'[tlb[f]] = entries[tlb[f]]
        BY <4>1
      <4> QED
        BY <4>1, <4>2 DEF ResidencyConsistent
    <3> QED
      BY <3>1, <3>2, <3>3
  <2>4. ASSUME NEW k \in TLBIndex
        PROVE  /\ entries'[k].a # NoSlot => /\ tlb'[entries'[k].a] = k
                                            /\ page'[entries'[k].a] = entries'[k].id
               /\ entries'[k].b # NoSlot => /\ tlb'[entries'[k].b] = k
                                            /\ page'[entries'[k].b] = entries'[k].id + 1
    <3>1. CASE k = cur
      BY <3>1
    <3>2. CASE k # cur
      <4>1. entries'[k] = entries[k]
        BY <3>2
      <4>2. ASSUME NEW f \in Slots, tlb[f] = k
            PROVE  tlb'[f] = k /\ page'[f] = page[f]
        BY <3>2, <4>2, <1>7, <1>8
      <4> QED
        BY <4>1, <4>2, <1>9
    <3> QED
      BY <3>1, <3>2
  <2> QED
    BY <2>1, <2>2, <2>3, <2>4 DEF ResidencyConsistent
<1>12. EntriesOK'
  <2> DEFINE d == entries'
  <2>0. EntriesOK /\ entries \in [TLBIndex -> Entry]
    BY DEF TLBInv, TLBTypes
  <2>1. (\A k \in TLBIndex : k # cur => d[k] = entries[k]) /\ d[cur] = e
    BY <2>0, <1>3, <1>4
  <2>2. ASSUME NEW k \in TLBIndex, k # cur, entries[k].id # NoPage
        PROVE  entries[k].id # EvenPage(p)
    BY <2>0, <2>2, <1>1, <1>7, <1>9, Sentinels DEF EntriesOK
  <2>3. e.id \in VPages /\ e.id % 2 = 0 /\ (e.a # NoSlot \/ e.b # NoSlot)
    BY <1>1, Pairs, Sentinels
  <2> HIDE DEF e, d
  <2>4. \A k \in TLBIndex : d[k].id # NoPage =>
          d[k].id \in VPages /\ d[k].id % 2 = 0 /\ (d[k].a # NoSlot \/ d[k].b # NoSlot)
    BY <2>0, <2>1, <2>3 DEF EntriesOK
  <2>5. \A k \in 0 .. FirstTLB - 1 : d[k] = EmptyEntry
    BY <2>0, <2>1, <1>3, Indices DEF EntriesOK
  <2>6. e.id = EvenPage(p)
    BY DEF e
  <2>7. \A j, k \in TLBIndex : d[j].id = d[k].id /\ d[j].id # NoPage => j = k
    BY <2>0, <2>1, <2>2, <2>6 DEF EntriesOK
  <2> QED
    BY <2>4, <2>5, <2>7 DEF EntriesOK, d
<1>13. TLBAgrees'
  <2>1. /\ \A k \in TLBIndex : k # cur => hw'[k] = hw[k] /\ entries'[k] = entries[k]
        /\ hw'[cur] = entries'[cur]
    BY <1>3, <1>4 DEF TLBInv, TLBTypes
  <2> QED
    BY <1>3, <2>1, Indices DEF TLBInv, TLBAgrees
<1> QED
  BY <1>10, <1>11, <1>12, <1>13 DEF TLBInv

(* Reclaiming a frame takes it out of the TLB and of its page's region.    *)
LEMMA Reclaim ==
  ASSUME TLBInv, NEW s \in Slots,
         VM_UnmapTLBEntry(s), ForgetPage(s), cur' = cur
  PROVE  TLBInv' /\ tlb'[s] = NoTLB
<1> DEFINE i == tlb[s]
           r == page[s]
           e == HalfCleared(entries[i], r)
<1>1. /\ r # NoPage => r \in VPages /\ map[r] = s
      /\ map' = IF r # NoPage THEN [map EXCEPT ![r] = NoSlot] ELSE map
      /\ page' = [page EXCEPT ![s] = NoPage]
  BY DEF TLBInv, TLBTypes, ResidencyConsistent, ForgetPage
<1>2. CASE i = NoTLB
  <2>1. entries' = entries /\ hw' = hw /\ tlb' = tlb
    BY <1>2 DEF VM_UnmapTLBEntry
  <2>2. \A k \in TLBIndex : entries[k].a # s /\ entries[k].b # s
    BY <1>2, Sentinels DEF TLBInv, ResidencyConsistent, TLBTypes
  <2>3. TLBTypes'
    BY <1>1, <2>1 DEF TLBInv, TLBTypes
  <2>4. ResidencyConsistent'
    BY <1>1, <1>2, <2>1, <2>2, Sentinels DEF TLBInv, TLBTypes, ResidencyConsistent, Entry
  <2>5. EntriesOK' /\ TLBAgrees'
    BY <2>1 DEF TLBInv, EntriesOK, TLBAgrees
  <2> QED
    BY <1>2, <2>1, <2>3, <2>4, <2>5 DEF TLBInv
<1>3. CASE i # NoTLB
  <2>1. /\ entries' = [entries EXCEPT ![i] = e] /\ hw' = [hw EXCEPT ![i] = e]
        /\ tlb' = [tlb EXCEPT ![s] = NoTLB]
    BY <1>3 DEF VM_UnmapTLBEntry
  <2>2. /\ i \in TLBIndex /\ r # NoPage /\ r \in VPages
        /\ entries[i].id = EvenPage(r)
        /\ s = IF r % 2 = 0 THEN entries[i].a ELSE entries[i].b
    BY <1>1, <1>3 DEF TLBInv, TLBTypes, ResidencyConsistent
  <2>3. /\ EvenPage(r) \in VPages /\ EvenPage(r) % 2 = 0 /\ (r % 2 = 0 \/ r % 2 = 1)
        /\ (r % 2 = 0 => r = EvenPage(r)) /\ (r % 2 # 0 => r = EvenPage(r) + 1)
        /\ EvenPage(r) # EvenPage(r) + 1
    BY <2>2, Pairs DEF VPages
  <2>4. i \in FirstTLB .. NumTLB - 1
    BY <2>2, <2>3, Indices, Sentinels DEF TLBInv, EntriesOK, EmptyEntry
  <2>5. ASSUME NEW k \in TLBIndex
        PROVE  /\ entries[k].a \in Slots \cup {NoSlot} /\ entries[k].b \in Slots \cup {NoSlot}
               /\ entries[k].a # NoSlot => /\ entries[k].a \in Slots /\ tlb[entries[k].a] = k
                                           /\ page[entries[k].a] = entries[k].id
               /\ entries[k].b # NoSlot => /\ entries[k].b \in Slots /\ tlb[entries[k].b] = k
                                           /\ page[entries[k].b] = entries[k].id + 1
    BY DEF TLBInv, TLBTypes, ResidencyConsistent, Entry
  <2>6. \/ /\ e = EmptyEntry
           /\ IF r % 2 = 0 THEN entries[i].b = NoSlot ELSE entries[i].a = NoSlot
        \/ /\ r % 2 = 0 /\ e = [entries[i] EXCEPT !.a = NoSlot] /\ entries[i].b # NoSlot
        \/ /\ r % 2 = 1 /\ e = [entries[i] EXCEPT !.b = NoSlot] /\ entries[i].a # NoSlot
    BY <2>2, <2>3, <2>5 DEF HalfCleared, TLBInv, TLBTypes, Entry
  <2>7. e \in Entry
    BY <2>2, <2>6 DEF TLBInv, TLBTypes, Entry, EmptyEntry
  <2>8. TLBTypes'
    BY <1>1, <2>1, <2>2, <2>7 DEF TLBInv, TLBTypes
  <2>9. ResidencyConsistent'
    <3> USE <1>1, <2>1, <2>2, Sentinels DEF TLBInv, TLBTypes
    <3>1. \A p \in VPages : map'[p] # NoSlot => page'[map'[p]] = p
      BY DEF ResidencyConsistent
    <3>2. \A f \in Slots : page'[f] # NoPage => map'[page'[f]] = f
      BY DEF ResidencyConsistent
    <3>3. ASSUME NEW f \in Slots, tlb'[f] # NoTLB
          PROVE  /\ page'[f] # NoPage
                 /\ entries'[tlb'[f]].id = EvenPage(page'[f])
                 /\ f = IF page'[f] % 2 = 0 THEN entries'[tlb'[f]].a ELSE entries'[tlb'[f]].b
      <4>1. f # s /\ tlb'[f] = tlb[f] /\ page'[f] = page[f] /\ tlb[f] \in TLBIndex
        BY <3>3
      <4>2. /\ page[f] # NoPage /\ entries[tlb[f]].id = EvenPage(page[f])
            /\ f = IF page[f] % 2 = 0 THEN entries[tlb[f]].a ELSE entries[tlb[f]].b
        BY <3>3, <4>1 DEF ResidencyConsistent
      <4>3. CASE tlb[f] # i
        BY <4>1, <4>2, <4>3
      <4>4. CASE tlb[f] = i
        <5>1. f = IF r % 2 = 0 THEN entries[i].b ELSE entries[i].a
          BY <4>1, <4>2, <4>4
        <5>2. e # EmptyEntry /\ e.id = entries[i].id
              /\ (r % 2 = 0 => e.b = entries[i].b) /\ (r % 2 # 0 => e.a = entries[i].a)
              /\ (r % 2 = 0 => page[f] % 2 # 0) /\ (r % 2 # 0 => page[f] % 2 = 0)
          BY <4>1, <4>2, <4>4, <5>1, <2>3, <2>6 DEF Entry, EmptyEntry
        <5> HIDE DEF e, i
        <5>3. entries'[i] = e
          BY <2>1
        <5> QED
          BY <4>1, <4>2, <4>4, <5>1, <5>2, <5>3
      <4> QED
        BY <4>3, <4>4
    <3>4. ASSUME NEW k \in TLBIndex
          PROVE  /\ entries'[k].a # NoSlot => /\ tlb'[entries'[k].a] = k
                                              /\ page'[entries'[k].a] = entries'[k].id
                 /\ entries'[k].b # NoSlot => /\ tlb'[entries'[k].b] = k
                                              /\ page'[entries'[k].b] = entries'[k].id + 1
      <4>1. ASSUME NEW f \in Slots, f # s
            PROVE  tlb'[f] = tlb[f] /\ page'[f] = page[f]
        BY <4>1
      <4>2. CASE k = i
        <5>1. e.a = NoSlot \/ (e.a = entries[k].a /\ e.a # s /\ e.id = entries[k].id)
          BY <4>2, <2>5, <2>6, <2>3 DEF Entry, EmptyEntry
        <5>2. e.b = NoSlot \/ (e.b = entries[k].b /\ e.b # s /\ e.id = entries[k].id)
          BY <4>2, <2>5, <2>6, <2>3 DEF Entry, EmptyEntry
        <5>3. entries'[k] = e
          BY <4>2
        <5> HIDE DEF e, i
        <5> QED
          BY <4>1, <5>1, <5>2, <5>3, <2>5
      <4>3. CASE k # i
        <5>1. entries'[k] = entries[k] /\ entries[k].a # s /\ entries[k].b # s
          BY <4>3, <2>5
        <5> QED
          BY <4>1, <5>1, <2>5
      <4> QED
        BY <4>2, <4>3
    <3> QED
      BY <3>1, <3>2, <3>3, <3>4 DEF ResidencyConsistent
  <2>10. EntriesOK'
    <3> DEFINE d == entries'
    <3>0. EntriesOK /\ entries \in [TLBIndex -> Entry] /\ NoPage \notin VPages
      BY Sentinels DEF TLBInv, TLBTypes
    <3>1. (\A k \in TLBIndex : k # i => d[k] = entries[k]) /\ d[i] = e
      BY <3>0, <2>1, <2>2
    <3>2. \/ e.id = NoPage
          \/ e.id = entries[i].id /\ (e.a # NoSlot \/ e.b # NoSlot)
      BY <2>6, <2>2 DEF EmptyEntry, Entry, TLBInv, TLBTypes
    <3> HIDE DEF e, d, i
    <3>3. \A k \in TLBIndex : d[k].id # NoPage =>
            d[k].id \in VPages /\ d[k].id % 2 = 0 /\ (d[k].a # NoSlot \/ d[k].b # NoSlot)
      BY <3>0, <3>1, <3>2, <2>2, <2>3 DEF EntriesOK
    <3>4. \A k \in 0 .. FirstTLB - 1 : d[k] = EmptyEntry
      BY <3>0, <3>1, <2>4, Indices DEF EntriesOK
    <3>5. \A j, k \in TLBIndex : d[j].id = d[k].id /\ d[j].id # NoPage => j = k
      BY <3>0, <3>1, <3>2, <2>2 DEF EntriesOK
    <3> QED
      BY <3>3, <3>4, <3>5 DEF EntriesOK, d
  <2>11. TLBAgrees'
    <3>1. /\ \A k \in TLBIndex : k # i => hw'[k] = hw[k] /\ entries'[k] = entries[k]
          /\ hw'[i] = entries'[i]
      BY <2>1, <2>2 DEF TLBInv, TLBTypes
    <3> QED
      BY <2>4, <3>1, Indices DEF TLBInv, TLBAgrees
  <2> QED
    BY <2>1, <2>8, <2>9, <2>10, <2>11 DEF TLBInv, TLBTypes
<1> QED
  BY <1>2, <1>3

----------------------------------------------------------------------------
(* Queues and the list of frames                                           *)

NoRepeats(q) == \A i, j \in 1 .. Len(q) : q[i] = q[j] => i = j

(* A queue after a message is sent to its end.                             *)
LEMMA AppendFacts ==
  ASSUME NEW S, NEW q \in Seq(S), NEW x \in S
  PROVE  /\ Append(q, x) \in Seq(S) /\ Append(q, x) # <<>>
         /\ Len(Append(q, x)) = Len(q) + 1 /\ Len(q) \in Nat
         /\ Append(q, x)[Len(q) + 1] = x
         /\ \A i \in 1 .. Len(q) : Append(q, x)[i] = q[i]
         /\ Elements(Append(q, x)) = Elements(q) \cup {x}
         /\ NoRepeats(q) /\ x \notin Elements(q) => NoRepeats(Append(q, x))
<1>1. /\ Append(q, x) \in Seq(S) /\ Append(q, x) # <<>>
      /\ Len(Append(q, x)) = Len(q) + 1 /\ Len(q) \in Nat
      /\ Append(q, x)[Len(q) + 1] = x
      /\ \A i \in 1 .. Len(q) : Append(q, x)[i] = q[i]
  OBVIOUS
<1>2. Elements(Append(q, x)) = Elements(q) \cup {x}
  BY <1>1 DEF Elements
<1>3. NoRepeats(q) /\ x \notin Elements(q) => NoRepeats(Append(q, x))
  BY <1>1 DEF NoRepeats, Elements
<1> QED
  BY <1>1, <1>2, <1>3

(* A queue after its first message is taken.                               *)
LEMMA TailFacts ==
  ASSUME NEW S, NEW q \in Seq(S), q # <<>>
  PROVE  /\ Tail(q) \in Seq(S) /\ Head(q) = q[1] /\ Head(q) \in S
         /\ Len(q) \in Nat /\ Len(q) >= 1 /\ Len(Tail(q)) = Len(q) - 1
         /\ \A i \in 1 .. Len(q) - 1 : Tail(q)[i] = q[i + 1]
         /\ Elements(q) = Elements(Tail(q)) \cup {Head(q)}
         /\ NoRepeats(q) => NoRepeats(Tail(q)) /\ Head(q) \notin Elements(Tail(q))
<1> DEFINE r == Tail(q)
           h == Head(q)
<1>1. /\ r \in Seq(S) /\ h = q[1] /\ h \in S
      /\ Len(q) \in Nat /\ Len(q) >= 1 /\ Len(r) = Len(q) - 1
      /\ \A i \in 1 .. Len(q) - 1 : r[i] = q[i + 1]
  BY HeadTailProperties, EmptySeq
<1> HIDE DEF r, h
<1>2. ASSUME NEW i \in 1 .. Len(q), i # 1
      PROVE  i - 1 \in 1 .. Len(r) /\ q[i] = r[i - 1]
  BY <1>1, <1>2
<1>3. ASSUME NEW i \in 1 .. Len(r)
      PROVE  i + 1 \in 1 .. Len(q) /\ i + 1 # 1 /\ r[i] = q[i + 1]
  BY <1>1
<1>4. 1 \in 1 .. Len(q)
  BY <1>1
<1>5. Elements(q) = Elements(r) \cup {h}
  BY <1>1, <1>2, <1>3, <1>4 DEF Elements
<1>6. NoRepeats(q) => NoRepeats(r)
  <2> SUFFICES ASSUME NoRepeats(q), NEW i \in 1 .. Len(r), NEW j \in 1 .. Len(r), r[i] = r[j]
               PROVE  i = j
    BY DEF NoRepeats
  <2>1. i + 1 = j + 1
    BY <1>3 DEF NoRepeats
  <2> QED
    BY <1>1, <2>1
<1>7. NoRepeats(q) => h \notin Elements(r)
  BY <1>1, <1>3, <1>4 DEF NoRepeats, Elements
<1> QED
  BY <1>1, <1>5, <1>6, <1>7 DEF r, h

(* A queue after a message is jammed in front.                             *)
LEMMA PushFacts ==
  ASSUME NEW S, NEW q \in Seq(S), NEW x \in S
  PROVE  /\ <<x>> \o q \in Seq(S)
         /\ Elements(<<x>> \o q) = Elements(q) \cup {x}
         /\ NoRepeats(q) /\ x \notin Elements(q) => NoRepeats(<<x>> \o q)
<1> DEFINE r == <<x>> \o q
<1>1. /\ r \in Seq(S) /\ Len(r) = Len(q) + 1 /\ Len(q) \in Nat /\ r[1] = x
      /\ \A i \in 2 .. Len(q) + 1 : r[i] = q[i - 1]
  <2>1. <<x>> \in Seq(S) /\ Len(<<x>>) = 1 /\ <<x>>[1] = x /\ Len(q) \in Nat
    OBVIOUS
  <2>2. /\ r \in Seq(S) /\ Len(r) = 1 + Len(q)
        /\ \A i \in 1 .. 1 + Len(q) : r[i] = IF i <= 1 THEN <<x>>[i] ELSE q[i - 1]
    BY <2>1, ConcatProperties
  <2> HIDE DEF r
  <2> QED
    BY <2>1, <2>2
<1> HIDE DEF r
<1>2. ASSUME NEW i \in 1 .. Len(q)
      PROVE  i + 1 \in 1 .. Len(r) /\ r[i + 1] = q[i]
  BY <1>1
<1>5. ASSUME NEW i \in 1 .. Len(r), i # 1
      PROVE  i - 1 \in 1 .. Len(q) /\ r[i] = q[i - 1]
  BY <1>1, <1>5
<1>6. 1 \in 1 .. Len(r)
  BY <1>1
<1>3. Elements(r) = Elements(q) \cup {x}
  <2>1. ASSUME NEW y \in Elements(r)  PROVE y \in Elements(q) \cup {x}
    BY <1>1, <1>5 DEF Elements
  <2>2. ASSUME NEW y \in Elements(q)  PROVE y \in Elements(r)
    BY <1>2 DEF Elements
  <2>3. x \in Elements(r)
    BY <1>1, <1>6 DEF Elements
  <2> QED
    BY <2>1, <2>2, <2>3
<1>4. NoRepeats(q) /\ x \notin Elements(q) => NoRepeats(r)
  BY <1>1 DEF NoRepeats, Elements
<1> QED
  BY <1>1, <1>3, <1>4 DEF r

(* The list of frames after one is unlinked.                               *)
LEMMA WithoutFacts ==
  ASSUME NEW S, NEW q \in Seq(S), NEW x \in Elements(q), NoRepeats(q)
  PROVE  /\ Without(q, x) \in Seq(S) /\ NoRepeats(Without(q, x))
         /\ Elements(Without(q, x)) = Elements(q) \ {x}
<1> DEFINE k == CHOOSE i \in 1 .. Len(q) : q[i] = x
           r == Without(q, x)
<1>1. k \in 1 .. Len(q) /\ q[k] = x
  BY DEF Elements
<1> HIDE DEF k
<1>2. Len(q) \in Nat /\ Len(q) >= 1 /\ k \in Nat /\ \A i \in 1 .. Len(q) : q[i] \in S
  BY <1>1
<1>3. r = [i \in 1 .. Len(q) - 1 |-> IF i < k THEN q[i] ELSE q[i + 1]]
  BY DEF Without, k
<1>4. r \in Seq(S) /\ Len(r) = Len(q) - 1
  <2>1. \A i \in 1 .. Len(q) - 1 : (IF i < k THEN q[i] ELSE q[i + 1]) \in S
    BY <1>2
  <2> QED
    BY <1>2, <1>3, <2>1
<1>5. ASSUME NEW i \in 1 .. Len(q) - 1
      PROVE  r[i] = q[IF i < k THEN i ELSE i + 1]
  BY <1>3
<1> HIDE DEF r
<1>6. NoRepeats(r)
  BY <1>1, <1>2, <1>4, <1>5 DEF NoRepeats
<1>7. ASSUME NEW i \in 1 .. Len(q), i # k
      PROVE  \E j \in 1 .. Len(r) : r[j] = q[i]
  <2>1. CASE i < k
    BY <2>1, <1>1, <1>2, <1>4, <1>5
  <2>2. CASE i > k
    <3>1. i - 1 \in 1 .. Len(r) /\ ~(i - 1 < k) /\ (i - 1) + 1 = i
      BY <2>2, <1>1, <1>2, <1>4
    <3> QED
      BY <3>1, <1>4, <1>5
  <2> QED
    BY <1>7, <1>1, <2>1, <2>2
<1>8. ASSUME NEW j \in 1 .. Len(r)
      PROVE  \E i \in 1 .. Len(q) : i # k /\ r[j] = q[i]
  BY <1>1, <1>2, <1>4, <1>5
<1>9. Elements(r) = Elements(q) \ {x}
  BY SMTT(30), <1>1, <1>7, <1>8 DEF Elements, NoRepeats
<1> QED
  BY <1>4, <1>6, <1>9 DEF r

(* Moving a frame to the tail changes neither what the list holds nor that *)
(* it holds it once.                                                       *)
LEMMA MoveToTailFacts ==
  ASSUME NEW S, NEW q \in Seq(S), NEW x \in Elements(q), NoRepeats(q)
  PROVE  /\ MoveToTail(q, x) \in Seq(S) /\ NoRepeats(MoveToTail(q, x))
         /\ Elements(MoveToTail(q, x)) = Elements(q)
<1> DEFINE r == Without(q, x)
<1>1. x \in S
  BY DEF Elements
<1>2. r \in Seq(S) /\ NoRepeats(r) /\ Elements(r) = Elements(q) \ {x}
  BY WithoutFacts
<1> HIDE DEF r
<1>3. /\ Append(r, x) \in Seq(S) /\ NoRepeats(Append(r, x))
      /\ Elements(Append(r, x)) = Elements(r) \cup {x}
  BY <1>1, <1>2, AppendFacts
<1>4. x \in Elements(q)
  OBVIOUS
<1> QED
  BY <1>2, <1>3, <1>4 DEF MoveToTail, r

----------------------------------------------------------------------------
(* The inductive invariant                                                 *)

RegionEnd == regions[Len(regions)].start + regions[Len(regions)].pages

(* Regions end within the model's pages, and only their pages are mapped.  *)
RegionsOK ==
  /\ Len(regions) > 0
  /\ RegionEnd <= NumPages
  /\ \A i \in 1 .. Len(regions) : regions[i].start + regions[i].pages <= RegionEnd
  /\ \A p \in VPages : map[p] # NoSlot => p < RegionEnd

(* What a message in the completion queue says of its thread; a fault or a *)
(* request is alone in the queue, and the reader is not about to add to it.*)
MessageOK(m) ==
  /\ m.type = "page"  => m.thread \in Threads /\ thr[m.thread] = "paging"
  /\ m.type = "alloc" => /\ m.thread \in Threads /\ thr[m.thread] = "allocating"
                         /\ m.pages >= 1 /\ RegionStart + m.pages <= NumPages
  /\ m.type = "fault" => faultedThread \in Threads /\ thr[faultedThread] = "faulted"

MessagesOK ==
  /\ \A i \in 1 .. Len(completion) : MessageOK(completion[i])
  /\ \A i \in 1 .. Len(completion) : completion[i].type # "page" =>
       Len(completion) = 1 /\ (pending = <<>> \/ reader # NoThread)

(* A fault is in the completion queue until it is handled. *)
FaultsOK ==
  \A t \in Threads : thr[t] = "faulted" /\ ~restarted =>
    faultedThread = t /\ completion # <<>> /\ completion[1].type = "fault"

(* A job under way has a frame of its own, which holds no page. *)
JobsOK ==
  /\ \A t \in Threads : InFlight(t) =>
       /\ job[t].page \in VPages /\ job[t].page < RegionEnd
       /\ job[t].slot \in Slots
       /\ page[job[t].slot] = NoPage
  /\ \A t, u \in Threads : InFlight(t) /\ InFlight(u) /\ job[t].slot = job[u].slot => t = u

Flying == {t \in Threads : InFlight(t)}

(* Every job block is free or under way. *)
JobsCounted == freeJobs + Cardinality(Flying) = NumJobs

(* A job under way is in one place at most. *)
PlacesOK ==
  /\ \A i \in 1 .. Len(pending) : InFlight(pending[i])
  /\ NoRepeats(pending)
  /\ \A i, j \in 1 .. Len(completion) :
       completion[i].type = "page" /\ completion[i].thread = completion[j].thread => i = j
  /\ \A i \in 1 .. Len(pending), j \in 1 .. Len(completion) :
       completion[j].thread # pending[i]
  /\ reader # NoThread =>
       /\ InFlight(reader)
       /\ \A i \in 1 .. Len(pending) : pending[i] # reader
       /\ \A i \in 1 .. Len(completion) : completion[i].thread # reader

(* The list holds the frames no job holds, once each. *)
ChainOK == NoRepeats(chain) /\ OnChain = Slots \ JobSlots

(* A resident page's frame has its contents, and so has the frame of a     *)
(* job that comes back for a page which is not resident.                   *)
FramesOK ==
  /\ \A s \in Slots : page[s] # NoPage => frame[s] = page[s]
  /\ SkippedLoadSafe

IInv ==
  /\ TypeOK /\ RegionsOK /\ MessagesOK /\ FaultsOK /\ JobsOK /\ JobsCounted /\ PlacesOK
  /\ ResidencyConsistent /\ EntriesOK /\ TLBAgrees /\ ChainOK /\ FramesOK

----------------------------------------------------------------------------
(* Threads of the game                                                     *)

(* There are two more frames than job blocks.                              *)
LEMMA Counts ==
  NumJobs \in Nat /\ NumSlots \in Nat /\ NumJobs + 2 <= NumSlots
  BY PagerAssumption

(* The bounds of the TLB are numbers.                                      *)
LEMMA EntryCounts == FirstTLB \in Nat /\ NumTLB \in Nat
  BY PagerAssumption

(* "No thread" is no thread.                                               *)
LEMMA NoThreadIsNone == NoThread \notin Threads
  BY PagerAssumption

(* A thread of the game runs only while manager and reader have nothing to do. *)
LEMMA GameRunsAlone ==
  ASSUME TypeOK, GameMayRun
  PROVE  completion = <<>> /\ (pending = <<>> \/ reader # NoThread) /\ ~restarted
  BY DEF GameMayRun, ManagerReady, ReaderReady, TypeOK

(* The jobs under way can be counted.                                      *)
LEMMA FlyingFinite ==
  ASSUME TypeOK
  PROVE  IsFiniteSet(Flying) /\ Cardinality(Flying) \in Nat
<1>1. IsFiniteSet(Threads) /\ Flying \in SUBSET Threads
  BY PagerAssumption DEF Flying
<1>2. IsFiniteSet(Flying)
  BY <1>1, FS_Subset
<1> QED
  BY <1>2, FS_CardinalityType

(* Steps of game threads post one message to an idle manager.              *)
LEMMA Post ==
  ASSUME IInv, GameMayRun, NEW t \in Threads, thr[t] = "running",
         NEW m \in Message, NEW st \in {"faulted", "allocating"},
         st = "faulted" => m.type = "fault" /\ m.thread = NoThread /\ faultedThread' = t,
         st = "allocating" => /\ m.type = "alloc" /\ m.thread = t /\ m.pages >= 1
                              /\ RegionStart + m.pages <= NumPages
                              /\ faultedThread' = faultedThread,
         thr' = [thr EXCEPT ![t] = st],
         want' \in [Threads -> VPages \cup {NoPage}],
         completion' = Append(completion, m),
         UNCHANGED <<tlbVars, chain, regions, frame, freeJobs, job, pending, reader, restarted>>
  PROVE  IInv'
<1> USE DEF tlbVars
<1>1. /\ completion = <<>> /\ completion' = <<m>> /\ Len(completion') = 1 /\ completion'[1] = m
      /\ pending = <<>> \/ reader # NoThread
  BY GameRunsAlone DEF IInv
<1>2. \A u \in Threads : InFlight(u)' <=> InFlight(u)
  BY DEF IInv, TypeOK, InFlight
<1>3. JobSlots' = JobSlots /\ Flying' = Flying
  BY <1>2 DEF JobSlots, Flying
<1>4. TypeOK'
  <2>1. thr' \in [Threads -> {"running", "faulted", "paging", "allocating"}]
    BY DEF IInv, TypeOK
  <2>2. completion' \in Seq(Message)
    BY <1>1
  <2>3. faultedThread' \in Threads \cup {NoThread}
    BY DEF IInv, TypeOK
  <2> QED
    BY <2>1, <2>2, <2>3 DEF IInv, TypeOK
<1>5. RegionsOK' /\ RegionEnd' = RegionEnd /\ RegionStart' = RegionStart
  BY DEF IInv, RegionsOK, RegionEnd, RegionStart
<1>6. MessagesOK'
  BY <1>1, <1>5 DEF IInv, TypeOK, MessagesOK, MessageOK
<1>7. FaultsOK'
  BY <1>1 DEF IInv, TypeOK, FaultsOK
<1>8. JobsOK'
  BY <1>2, <1>5 DEF IInv, JobsOK
<1>9. JobsCounted'
  BY <1>3 DEF IInv, JobsCounted
<1>10. PlacesOK'
  <2>1. \A i \in 1 .. Len(pending) : pending[i] \in Threads
    BY DEF IInv, TypeOK
  <2>2. ASSUME NEW u \in Threads, InFlight(u)
        PROVE  m.thread # u
    <3>1. u # t /\ u # NoThread
      BY <2>2, NoThreadIsNone DEF InFlight
    <3>2. CASE st = "faulted"
      BY <3>1, <3>2
    <3>3. CASE st = "allocating"
      BY <3>1, <3>3
    <3> QED
      BY <3>2, <3>3
  <2>3. reader # NoThread => reader \in Threads
    BY DEF IInv, TypeOK
  <2> QED
    BY <1>1, <1>2, <2>1, <2>2, <2>3 DEF IInv, PlacesOK, NoRepeats
<1>11. ResidencyConsistent' /\ EntriesOK' /\ TLBAgrees'
  BY DEF IInv, ResidencyConsistent, EntriesOK, TLBAgrees
<1>12. ChainOK'
  BY <1>3 DEF IInv, ChainOK, OnChain, Elements, NoRepeats
<1>13. FramesOK'
  BY <1>1 DEF IInv, FramesOK, SkippedLoadSafe
<1> QED
  BY <1>4, <1>5, <1>6, <1>7, <1>8, <1>9, <1>10, <1>11, <1>12, <1>13 DEF IInv

(* Faults and allocations of the game's threads keep the invariant.        *)
LEMMA GameStep ==
  ASSUME IInv, Game
  PROVE  IInv'
<1> DEFINE fault == [type |-> "fault", thread |-> NoThread, pages |-> 0]
           alloc(t, n) == [type |-> "alloc", thread |-> t, pages |-> n]
<1>1. fault \in Message
  BY PagerAssumption DEF Message
<1>2. want \in [Threads -> VPages \cup {NoPage}]
  BY DEF IInv, TypeOK
<1>3. ASSUME NEW t \in Threads, NEW p \in VPages, TLBFault(t, p)
      PROVE  IInv'
  BY <1>1, <1>2, <1>3, Post DEF TLBFault
<1>4. ASSUME NEW t \in Threads, OtherFault(t)
      PROVE  IInv'
  BY <1>1, <1>2, <1>4, Post DEF OtherFault
<1>5. ASSUME NEW t \in Threads, NEW n \in 1 .. NumPages, VM_Alloc(t, n)
      PROVE  IInv'
  <2>1. alloc(t, n) \in Message /\ n >= 1
    BY PagerAssumption DEF Message
  <2> QED
    BY <1>2, <1>5, <2>1, Post DEF VM_Alloc
<1> QED
  BY <1>3, <1>4, <1>5 DEF Game

----------------------------------------------------------------------------
(* The reader                                                              *)

(* What the reader leaves alone. *)
LEMMA ReaderLeaves ==
  ASSUME IInv,
         UNCHANGED <<thr, want, faultedThread, tlbVars, chain, regions, freeJobs, job, restarted>>
  PROVE  /\ RegionsOK' /\ JobsOK' /\ JobsCounted' /\ ResidencyConsistent' /\ EntriesOK'
         /\ TLBAgrees' /\ ChainOK' /\ RegionStart' = RegionStart
         /\ \A u \in Threads : InFlight(u)' <=> InFlight(u)
<1> USE DEF tlbVars
<1>1. \A u \in Threads : InFlight(u)' <=> InFlight(u)
  BY DEF InFlight
<1>2. JobSlots' = JobSlots /\ Flying' = Flying /\ RegionEnd' = RegionEnd /\ RegionStart' = RegionStart
  BY <1>1 DEF JobSlots, Flying, RegionEnd, RegionStart
<1>3. RegionsOK' /\ JobsOK' /\ JobsCounted'
  BY <1>1, <1>2 DEF IInv, RegionsOK, JobsOK, JobsCounted
<1>4. ResidencyConsistent' /\ EntriesOK' /\ TLBAgrees'
  BY DEF IInv, ResidencyConsistent, EntriesOK, TLBAgrees
<1>5. ChainOK'
  BY <1>2 DEF IInv, ChainOK, OnChain, Elements, NoRepeats
<1> QED
  BY <1>1, <1>2, <1>3, <1>4, <1>5

(* The job at the head of the reader's queue. *)
LEMMA NextJob ==
  ASSUME IInv, ReaderReady
  PROVE  LET t == Head(pending)
         IN  /\ t \in Threads /\ InFlight(t) /\ t # NoThread
             /\ Tail(pending) \in Seq(Threads) /\ NoRepeats(Tail(pending))
             /\ \A i \in 1 .. Len(Tail(pending)) :
                  InFlight(Tail(pending)[i]) /\ Tail(pending)[i] # t
             /\ \A i \in 1 .. Len(completion) : completion[i].thread # t
             /\ \A i \in 1 .. Len(Tail(pending)), j \in 1 .. Len(completion) :
                  completion[j].thread # Tail(pending)[i]
             /\ \A i \in 1 .. Len(completion) : completion[i].type = "page"
             /\ reader = NoThread
<1> DEFINE t == Head(pending)
           r == Tail(pending)
<1>1. pending \in Seq(Threads) /\ pending # <<>> /\ NoRepeats(pending) /\ reader = NoThread
  BY DEF IInv, TypeOK, ReaderReady, PlacesOK
<1>2. /\ r \in Seq(Threads) /\ t = pending[1] /\ t \in Threads
      /\ Len(pending) \in Nat /\ Len(pending) >= 1 /\ Len(r) = Len(pending) - 1
      /\ \A i \in 1 .. Len(pending) - 1 : r[i] = pending[i + 1]
      /\ NoRepeats(r) /\ t \notin Elements(r)
  BY <1>1, TailFacts
<1> HIDE DEF t, r
<1>3. ASSUME NEW i \in 1 .. Len(r)
      PROVE  i + 1 \in 1 .. Len(pending) /\ r[i] = pending[i + 1] /\ r[i] # t
  BY <1>2 DEF Elements
<1>4. 1 \in 1 .. Len(pending)
  BY <1>2
<1>5. InFlight(t) /\ \A i \in 1 .. Len(completion) : completion[i].thread # t
  BY <1>2, <1>4 DEF IInv, PlacesOK
<1>6. \A i \in 1 .. Len(r) : InFlight(r[i])
  BY <1>3 DEF IInv, PlacesOK
<1>7. \A i \in 1 .. Len(r), j \in 1 .. Len(completion) : completion[j].thread # r[i]
  BY <1>3 DEF IInv, PlacesOK
<1>8. \A i \in 1 .. Len(completion) : completion[i].type = "page"
  BY <1>1 DEF IInv, MessagesOK
<1> QED
  BY <1>1, <1>2, <1>3, <1>5, <1>6, <1>7, <1>8, NoThreadIsNone DEF t, r

(* The reader taking a job whose page it must load keeps the invariant.    *)
LEMMA ReaderLoadStep ==
  ASSUME IInv, ReaderLoad
  PROVE  IInv'
<1> DEFINE t == Head(pending)
           s == job[t].slot
<1>1. /\ t \in Threads /\ InFlight(t) /\ t # NoThread
      /\ pending' \in Seq(Threads) /\ NoRepeats(pending')
      /\ \A i \in 1 .. Len(pending') : InFlight(pending'[i]) /\ pending'[i] # t
      /\ \A i \in 1 .. Len(completion) : completion[i].thread # t
      /\ \A i \in 1 .. Len(pending'), j \in 1 .. Len(completion) :
           completion[j].thread # pending'[i]
      /\ \A i \in 1 .. Len(completion) : completion[i].type = "page"
  BY NextJob DEF ReaderLoad
<1>2. reader' = t /\ frame' = [frame EXCEPT ![s] = NoPage] /\ completion' = completion
  BY DEF ReaderLoad
<1>3. UNCHANGED <<thr, want, faultedThread, tlbVars, chain, regions, freeJobs, job, restarted>>
  BY DEF ReaderLoad
<1> HIDE DEF t
<1>4. /\ RegionsOK' /\ JobsOK' /\ JobsCounted' /\ ResidencyConsistent' /\ EntriesOK'
      /\ TLBAgrees' /\ ChainOK' /\ RegionStart' = RegionStart
      /\ \A u \in Threads : InFlight(u)' <=> InFlight(u)
  BY <1>3, ReaderLeaves
<1>5. s \in Slots /\ page[s] = NoPage
  BY <1>1 DEF IInv, JobsOK
<1>6. TypeOK'
  <2>1. frame' \in [Slots -> VPages \cup {NoPage}]
    BY <1>2, <1>5 DEF IInv, TypeOK
  <2> QED
    BY <1>1, <1>2, <1>3, <2>1 DEF IInv, TypeOK, tlbVars
<1>7. MessagesOK' /\ FaultsOK'
  BY <1>1, <1>2, <1>3, <1>4 DEF IInv, MessagesOK, MessageOK, FaultsOK
<1>8. PlacesOK'
  <2>1. \A i \in 1 .. Len(pending') : pending'[i] \in Threads
    BY <1>1
  <2> QED
    BY <1>1, <1>2, <1>4, <2>1 DEF IInv, PlacesOK
<1>9. FramesOK'
  <2>1. \A u \in Threads : InFlight(u) /\ u # t => job[u].slot # s
    BY <1>1 DEF IInv, JobsOK
  <2>2. ASSUME NEW i \in 1 .. Len(completion)
        PROVE  completion[i].thread \in Threads /\ job[completion[i].thread].slot # s
    BY <1>1, <2>1 DEF IInv, MessagesOK, MessageOK, InFlight
  <2>3. SkippedLoadSafe'
    BY <1>2, <1>3, <2>2 DEF IInv, FramesOK, SkippedLoadSafe, tlbVars
  <2>4. \A f \in Slots : page'[f] # NoPage => frame'[f] = page'[f]
    BY <1>2, <1>3, <1>5 DEF IInv, FramesOK, TypeOK, tlbVars
  <2> QED
    BY <2>3, <2>4 DEF FramesOK
<1> QED
  BY <1>4, <1>6, <1>7, <1>8, <1>9 DEF IInv

(* The job of t is in neither queue, and the reader has no other. *)
TakenOut(t) ==
  /\ InFlight(t)
  /\ \A i \in 1 .. Len(completion) : completion[i].type = "page" /\ completion[i].thread # t
  /\ pending' \in Seq(Threads) /\ NoRepeats(pending')
  /\ \A i \in 1 .. Len(pending') : InFlight(pending'[i]) /\ pending'[i] # t
  /\ \A i \in 1 .. Len(pending'), j \in 1 .. Len(completion) :
       completion[j].thread # pending'[i]
  /\ reader' = NoThread

(* The frame of t's job has its contents, if they are needed. *)
Filled(t) ==
  /\ frame' \in [Slots -> VPages \cup {NoPage}]
  /\ \A f \in Slots : page[f] # NoPage => frame'[f] = frame[f]
  /\ \A u \in Threads : InFlight(u) /\ u # t => frame'[job[u].slot] = frame[job[u].slot]
  /\ BroughtIn(t) \/ frame'[job[t].slot] = job[t].page

(* The message by which the reader hands a job back.                       *)
LEMMA PageMessageType ==
  ASSUME NEW t \in Threads
  PROVE  /\ PageMessage(t) \in Message /\ PageMessage(t).type = "page"
         /\ PageMessage(t).thread = t
  BY PagerAssumption DEF Message, PageMessage

(* A job goes back to the manager. *)
LEMMA HandedBack ==
  ASSUME IInv, NEW t \in Threads, HandBack(t), TakenOut(t), Filled(t),
         UNCHANGED <<thr, want, faultedThread, tlbVars, chain, regions, freeJobs, job, restarted>>
  PROVE  IInv'
<1> DEFINE q == completion
           r == completion'
           m == PageMessage(t)
<1>1. m \in Message /\ m.type = "page" /\ m.thread = t
  BY PageMessageType
<1>2. /\ r \in Seq(Message) /\ r # <<>> /\ Len(r) = Len(q) + 1 /\ Len(q) \in Nat
      /\ r[Len(q) + 1] = m /\ \A i \in 1 .. Len(q) : r[i] = q[i]
  <2>1. completion \in Seq(Message) /\ completion' = Append(completion, m)
    BY DEF HandBack, IInv, TypeOK
  <2> QED
    BY <1>1, <2>1, AppendFacts
<1>3. /\ RegionsOK' /\ JobsOK' /\ JobsCounted' /\ ResidencyConsistent' /\ EntriesOK'
      /\ TLBAgrees' /\ ChainOK' /\ RegionStart' = RegionStart
      /\ \A u \in Threads : InFlight(u)' <=> InFlight(u)
  BY ReaderLeaves
<1> HIDE DEF m, r
<1>4. ASSUME NEW i \in 1 .. Len(r)
      PROVE  /\ r[i].type = "page"
             /\ \/ i \in 1 .. Len(q) /\ r[i] = q[i] /\ q[i].thread # t
                \/ i = Len(q) + 1 /\ r[i].thread = t
  <2>1. i \in 1 .. Len(q) \/ i = Len(q) + 1
    BY <1>2
  <2>2. CASE i \in 1 .. Len(q)
    <3>1. r[i] = q[i]
      BY <1>2, <2>2
    <3>2. q[i].type = "page" /\ q[i].thread # t
      BY <2>2 DEF TakenOut
    <3> QED
      BY <2>2, <3>1, <3>2
  <2>3. CASE i = Len(q) + 1
    BY <1>1, <1>2, <2>3
  <2> QED
    BY <2>1, <2>2, <2>3
<1>5. TypeOK'
  BY <1>2 DEF IInv, TypeOK, tlbVars, TakenOut, Filled, r
<1>6. MessagesOK'
  <2>1. ASSUME NEW i \in 1 .. Len(r)
        PROVE  r[i].type = "page" /\ r[i].thread \in Threads /\ InFlight(r[i].thread)
    BY <1>4 DEF IInv, MessagesOK, MessageOK, InFlight, TakenOut
  <2> QED
    BY <1>3, <2>1 DEF MessagesOK, MessageOK, InFlight, r
<1>7. FaultsOK'
  <2>1. \A u \in Threads : thr[u] = "faulted" => restarted
    <3>1. completion # <<>> => completion[1].type = "page"
      <4>1. completion # <<>> => 1 \in 1 .. Len(completion)
        BY <1>2
      <4> QED
        BY <4>1 DEF TakenOut
    <3> QED
      BY <3>1 DEF IInv, FaultsOK, TypeOK
  <2> QED
    BY <2>1 DEF FaultsOK
<1>8. PlacesOK'
  <2>1. \A i, j \in 1 .. Len(r) : r[i].type = "page" /\ r[i].thread = r[j].thread => i = j
    BY <1>4 DEF IInv, PlacesOK, TakenOut
  <2>2. \A i \in 1 .. Len(pending'), j \in 1 .. Len(r) : r[j].thread # pending'[i]
    BY <1>4 DEF TakenOut
  <2>3. \A i \in 1 .. Len(pending') : pending'[i] \in Threads
    BY DEF TakenOut
  <2>4. \A i \in 1 .. Len(pending') : InFlight(pending[i])'
    BY <1>3, <2>3 DEF TakenOut
  <2>5. NoRepeats(pending') /\ reader' = NoThread
    BY DEF TakenOut
  <2> QED
    BY <2>1, <2>2, <2>4, <2>5 DEF PlacesOK, r
<1>9. FramesOK'
  <2>1. ASSUME NEW i \in 1 .. Len(q)
        PROVE  q[i].thread \in Threads /\ InFlight(q[i].thread) /\ q[i].type = "page"
    BY DEF IInv, MessagesOK, MessageOK, InFlight, TakenOut
  <2>2. ASSUME NEW i \in 1 .. Len(r)
        PROVE  LET j == job'[r[i].thread] IN map'[j.page] # NoSlot \/ frame'[j.slot] = j.page
    <3>1. CASE i \in 1 .. Len(q) /\ r[i] = q[i] /\ q[i].thread # t
      BY <2>1, <3>1 DEF IInv, FramesOK, SkippedLoadSafe, tlbVars, Filled
    <3>2. CASE r[i].thread = t
      BY <3>2 DEF BroughtIn, tlbVars, Filled
    <3> QED
      BY <1>4, <3>1, <3>2
  <2>3. SkippedLoadSafe'
    BY <2>2 DEF SkippedLoadSafe, r
  <2>4. \A f \in Slots : page'[f] # NoPage => frame'[f] = page'[f]
    BY DEF IInv, FramesOK, tlbVars, Filled
  <2> QED
    BY <2>3, <2>4 DEF FramesOK
<1> QED
  BY <1>3, <1>5, <1>6, <1>7, <1>8, <1>9 DEF IInv

(* The reader handing a job back without loading, as the page is in memory, keeps the invariant. *)
LEMMA ReaderSkipStep ==
  ASSUME IInv, ReaderSkip
  PROVE  IInv'
<1> DEFINE t == Head(pending)
<1>1. /\ t \in Threads /\ InFlight(t) /\ t # NoThread /\ reader = NoThread
      /\ pending' \in Seq(Threads) /\ NoRepeats(pending')
      /\ \A i \in 1 .. Len(pending') : InFlight(pending'[i]) /\ pending'[i] # t
      /\ \A i \in 1 .. Len(completion) : completion[i].thread # t
      /\ \A i \in 1 .. Len(pending'), j \in 1 .. Len(completion) :
           completion[j].thread # pending'[i]
      /\ \A i \in 1 .. Len(completion) : completion[i].type = "page"
  BY NextJob DEF ReaderSkip
<1>2. /\ BroughtIn(t) /\ HandBack(t) /\ reader' = reader /\ frame' = frame
      /\ UNCHANGED <<thr, want, faultedThread, tlbVars, chain, regions, freeJobs, job, restarted>>
  BY DEF ReaderSkip
<1>3. frame \in [Slots -> VPages \cup {NoPage}]
  BY DEF IInv, TypeOK
<1> HIDE DEF t
<1>4. TakenOut(t) /\ Filled(t)
  BY <1>1, <1>2, <1>3 DEF TakenOut, Filled
<1> QED
  BY <1>1, <1>2, <1>4, HandedBack

(* The end of a load keeps the invariant.                                  *)
LEMMA ReaderLoadedStep ==
  ASSUME IInv, ReaderLoaded
  PROVE  IInv'
<1> DEFINE t == reader
           s == job[t].slot
<1>1. completion = <<>>
  BY GameRunsAlone DEF IInv, ReaderLoaded
<1>2. t \in Threads /\ InFlight(t) /\ \A i \in 1 .. Len(pending) : pending[i] # t
  BY DEF IInv, TypeOK, PlacesOK, ReaderLoaded
<1>3. s \in Slots /\ page[s] = NoPage /\ job[t].page \in VPages
      /\ \A u \in Threads : InFlight(u) /\ u # t => job[u].slot \in Slots /\ job[u].slot # s
  BY <1>2 DEF IInv, JobsOK
<1>4. /\ frame' = [frame EXCEPT ![s] = job[t].page] /\ HandBack(t) /\ reader' = NoThread
      /\ pending' = pending
      /\ UNCHANGED <<thr, want, faultedThread, tlbVars, chain, regions, freeJobs, job, restarted>>
  BY DEF ReaderLoaded
<1>5. frame \in [Slots -> VPages \cup {NoPage}] /\ pending \in Seq(Threads)
  BY DEF IInv, TypeOK
<1>6. NoRepeats(pending) /\ \A i \in 1 .. Len(pending) : InFlight(pending[i])
  BY DEF IInv, PlacesOK
<1> HIDE DEF s
<1>7. /\ frame' \in [Slots -> VPages \cup {NoPage}]
      /\ \A f \in Slots : page[f] # NoPage => frame'[f] = frame[f]
      /\ \A u \in Threads : InFlight(u) /\ u # t => frame'[job[u].slot] = frame[job[u].slot]
      /\ frame'[s] = job[t].page
  BY <1>3, <1>4, <1>5
<1>8. \A i \in 1 .. Len(completion) : completion[i].type = "page" /\ completion[i].thread # t
  BY <1>1
<1>9. \A i \in 1 .. Len(pending'), j \in 1 .. Len(completion) : completion[j].thread # pending'[i]
  BY <1>1
<1>10. BroughtIn(t) \/ frame'[job[t].slot] = job[t].page
  BY <1>7 DEF s
<1> HIDE DEF t
<1>11. TakenOut(t) /\ Filled(t)
  BY <1>2, <1>4, <1>5, <1>6, <1>7, <1>8, <1>9, <1>10 DEF TakenOut, Filled
<1> QED
  BY <1>2, <1>4, <1>11, HandedBack

----------------------------------------------------------------------------
(* The manager                                                             *)

(* The variables the TLB does not touch. *)
OtherTypes ==
  /\ thr \in [Threads -> {"running", "faulted", "paging", "allocating"}]
  /\ want \in [Threads -> VPages \cup {NoPage}]
  /\ faultedThread \in Threads \cup {NoThread}
  /\ chain \in Seq(Slots)
  /\ regions \in Seq([start : VPages, pages : 1 .. NumPages])
  /\ frame \in [Slots -> VPages \cup {NoPage}]
  /\ freeJobs \in 0 .. NumJobs
  /\ job \in [Threads -> [page : VPages \cup {NoPage}, slot : Slots \cup {NoSlot}]]
  /\ pending \in Seq(Threads)
  /\ completion \in Seq(Message)
  /\ reader \in Threads \cup {NoThread}
  /\ restarted \in BOOLEAN

(* The types of the TLB's variables and of the others.                     *)
LEMMA TypesSplit == TypeOK <=> TLBTypes /\ OtherTypes
  BY DEF TypeOK, TLBTypes, OtherTypes

(* The part of the invariant that is about the TLB alone.                  *)
LEMMA TLBPart == IInv => TLBInv /\ OtherTypes
  BY TypesSplit DEF IInv, TLBInv

(* Mapping a page, whether its TLB entry is shared with its buddy or new.  *)
LEMMA MapIn ==
  ASSUME TLBInv, NEW p \in VPages, NEW s \in Slots,
         map[p] \in {NoSlot, s}, tlb[s] = NoTLB, page[s] \in {NoPage, p},
         map[p] = s <=> page[s] = p, VM_MapTLBEntry(p, s)
  PROVE  /\ TLBInv'
         /\ page' = [page EXCEPT ![s] = p] /\ map' = [map EXCEPT ![p] = s]
<1>1. TLBInv'
  BY MapInSharedEntry, MapInNewEntry
<1>2. Install(p, s)
  BY DEF VM_MapTLBEntry
<1> QED
  BY <1>1, <1>2 DEF Install

(* A frame that holds a page is on the list. *)
LEMMA ResidentOnChain ==
  ASSUME IInv, NEW s \in Slots, page[s] # NoPage
  PROVE  s \in Elements(chain)
  BY DEF IInv, JobsOK, ChainOK, OnChain, JobSlots

(* Mapping a page only reorders the list of frames.                        *)
LEMMA ChainMapped ==
  ASSUME NEW c \in Seq(Slots), NoRepeats(c), NEW p,
         NeedsEntry(p) /\ map[Buddy(p)] # NoSlot => map[Buddy(p)] \in Elements(c)
  PROVE  LET d == ChainAfterMap(p, c)
         IN  d \in Seq(Slots) /\ NoRepeats(d) /\ Elements(d) = Elements(c)
  BY MoveToTailFacts DEF ChainAfterMap

(* A buddy in memory has a frame of its own on the list.                   *)
LEMMA ResidentBuddy ==
  ASSUME IInv, NEW p \in VPages, map[Buddy(p)] # NoSlot
  PROVE  LET b == map[Buddy(p)]
         IN  b \in Slots /\ page[b] = Buddy(p) /\ b \in Elements(chain) /\ b # map[p]
<1> DEFINE q == Buddy(p)
           b == map[q]
<1>1. q \in VPages /\ q # p
  BY Buddies
<1>2. map \in [VPages -> Slots \cup {NoSlot}] /\ NoPage \notin VPages /\ NoSlot \notin Slots
  BY Sentinels DEF IInv, TypeOK
<1>3. b \in Slots /\ page[b] = q
  BY <1>1, <1>2 DEF IInv, ResidencyConsistent
<1>4. b \in Elements(chain)
  BY <1>1, <1>2, <1>3, ResidentOnChain
<1>5. b # map[p]
  BY <1>1, <1>2, <1>3 DEF IInv, ResidencyConsistent
<1> QED
  BY <1>3, <1>4, <1>5

(* The fault the manager serves. *)
LEMMA FaultAtHead ==
  ASSUME IInv, FaultMessage
  PROVE  /\ faultedThread \in Threads /\ thr[faultedThread] = "faulted"
         /\ Tail(completion) = <<>> /\ ~restarted
         /\ \A u \in Threads : thr[u] = "faulted" => u = faultedThread
<1>1. completion # <<>> /\ completion \in Seq(Message) /\ Head(completion).type = "fault" /\ ~restarted
  BY DEF IInv, TypeOK, FaultMessage, ManagerReady
<1>2. /\ Head(completion) = completion[1] /\ 1 \in 1 .. Len(completion)
      /\ Tail(completion) \in Seq(Message) /\ Len(Tail(completion)) = Len(completion) - 1
  BY <1>1, TailFacts
<1>3. Len(completion) = 1 /\ MessageOK(completion[1])
  <2>1. completion[1].type # "page"
    BY <1>1, <1>2
  <2>2. MessagesOK
    BY DEF IInv
  <2> QED
    BY <1>2, <2>1, <2>2 DEF MessagesOK
<1>4. Tail(completion) = <<>>
  <2> DEFINE r == Tail(completion)
  <2>1. r \in Seq(Message) /\ Len(r) = 0
    BY <1>2, <1>3
  <2> HIDE DEF r
  <2>2. r = <<>>
    BY <2>1, EmptySeq
  <2> QED
    BY <2>2 DEF r
<1>5. faultedThread \in Threads /\ thr[faultedThread] = "faulted"
  BY <1>1, <1>2, <1>3 DEF MessageOK
<1>6. \A u \in Threads : thr[u] = "faulted" => u = faultedThread
  BY <1>1 DEF IInv, FaultsOK
<1> QED
  BY <1>1, <1>4, <1>5, <1>6

(* An empty completion queue. *)
LEMMA Drained ==
  ASSUME completion' = <<>>,
         restarted' \/ \A u \in Threads : thr'[u] # "faulted",
         \A s \in Slots : page'[s] # NoPage => frame'[s] = page'[s]
  PROVE  MessagesOK' /\ FaultsOK' /\ FramesOK'
<1>1. Len(completion') = 0 /\ 1 .. Len(completion') = {}
  BY EmptySeq
<1>2. MessagesOK'
  BY <1>1 DEF MessagesOK
<1>3. FaultsOK'
  BY DEF FaultsOK
<1>4. FramesOK'
  BY <1>1 DEF FramesOK, SkippedLoadSafe
<1> QED
  BY <1>2, <1>3, <1>4

(* When the manager has taken its only message, jobs are where they were.  *)
LEMMA PlacesDrained ==
  ASSUME IInv, completion' = <<>>, pending' = pending, reader' = reader,
         \A u \in Threads : InFlight(u) => InFlight(u)'
  PROVE  PlacesOK'
<1>1. Len(completion') = 0 /\ 1 .. Len(completion') = {}
  BY EmptySeq
<1>2. /\ \A i \in 1 .. Len(pending) : pending[i] \in Threads
      /\ reader # NoThread => reader \in Threads
  BY DEF IInv, TypeOK
<1> QED
  BY <1>1, <1>2 DEF IInv, PlacesOK, NoRepeats

(* A faulting page inside a region is a page of the model.                 *)
LEMMA WantedInRegion ==
  ASSUME IInv, NEW t \in Threads, InRegion(want[t])
  PROVE  want[t] \in VPages /\ want[t] < RegionEnd
<1> DEFINE p == want[t]
<1>1. p \in VPages \cup {NoPage} /\ p \in Int
  BY DEF IInv, TypeOK, VPages, NoPage
<1>2. PICK i \in 1 .. Len(regions) : p < regions[i].start + regions[i].pages
  BY DEF InRegion
<1>3. regions[i].start + regions[i].pages <= RegionEnd /\ RegionEnd <= NumPages
  BY DEF IInv, RegionsOK
<1>4. /\ regions[i].start \in Int /\ regions[i].pages \in Int /\ RegionEnd \in Int
      /\ NumPages \in Int /\ NumPages < NoPage
  <2>1. regions \in Seq([start : VPages, pages : 1 .. NumPages]) /\ Len(regions) > 0
    BY DEF IInv, TypeOK, RegionsOK
  <2>2. i \in 1 .. Len(regions) /\ Len(regions) \in 1 .. Len(regions)
    BY <2>1
  <2>3. /\ regions[i] \in [start : VPages, pages : 1 .. NumPages]
        /\ regions[Len(regions)] \in [start : VPages, pages : 1 .. NumPages]
    BY <2>1, <2>2, ElementOfSeq
  <2>4. /\ regions[i].start \in VPages /\ regions[i].pages \in 1 .. NumPages
        /\ regions[Len(regions)].start \in VPages /\ regions[Len(regions)].pages \in 1 .. NumPages
    BY <2>3
  <2>5. NumPages \in Nat /\ NumPages < NoPage
    BY PagerAssumption
  <2>6. /\ regions[i].start \in Int /\ regions[i].pages \in Int
        /\ regions[Len(regions)].start \in Int /\ regions[Len(regions)].pages \in Int
    BY <2>4, <2>5 DEF VPages
  <2>7. RegionEnd \in Int
    BY <2>6 DEF RegionEnd
  <2> QED
    BY <2>5, <2>6, <2>7
<1>5. p < RegionEnd /\ p # NoPage
  BY <1>1, <1>2, <1>3, <1>4, Sentinels
<1> QED
  BY <1>1, <1>5

(* A miss on a page in memory keeps the invariant.                         *)
LEMMA TLBMissResidentStep ==
  ASSUME IInv, TLBMissResident
  PROVE  IInv'
<1> DEFINE t == faultedThread
           p == want[t]
           s == map[p]
<1>1. /\ t \in Threads /\ thr[t] = "faulted" /\ completion' = <<>>
      /\ \A u \in Threads : thr[u] = "faulted" => u = t
  BY FaultAtHead DEF TLBMissResident
<1>2. InRegion(p) /\ s # NoSlot
  BY DEF TLBMissResident
<1>3. /\ IF tlb[s] = NoTLB
         THEN VM_MapTLBEntry(p, s) /\ chain' = Append(ChainAfterMap(p, Without(chain, s)), s)
         ELSE UNCHANGED <<tlbVars, chain>>
      /\ Resume(t)
      /\ UNCHANGED <<faultedThread, regions, frame, freeJobs, job, pending, reader, restarted>>
  BY DEF TLBMissResident
<1>4. p \in VPages
  BY <1>1, <1>2, WantedInRegion
<1> HIDE DEF p, t
<1>5. /\ s \in Slots /\ page[s] = p /\ page[s] # NoPage /\ s \in Elements(chain)
      /\ page' = page /\ map' = map
      /\ TLBInv'
  <2>1. TLBInv
    BY TLBPart
  <2>2. s \in Slots /\ page[s] = p /\ page[s] # NoPage
    BY <2>1, <1>2, <1>4, Sentinels DEF TLBInv, TLBTypes, ResidencyConsistent
  <2>3. CASE tlb[s] = NoTLB
    <3>1. TLBInv' /\ page' = [page EXCEPT ![s] = p] /\ map' = [map EXCEPT ![p] = s]
      BY <1>3, <1>4, <2>1, <2>2, <2>3, MapIn
    <3> QED
      BY <2>1, <2>2, <3>1, ResidentOnChain DEF TLBInv, TLBTypes
  <2>4. CASE tlb[s] # NoTLB
    <3>1. UNCHANGED tlbVars
      BY <1>3, <2>4
    <3> QED
      BY <2>1, <2>2, <3>1, ResidentOnChain
         DEF tlbVars, TLBInv, TLBTypes, ResidencyConsistent, EntriesOK, TLBAgrees
  <2> QED
    BY <2>3, <2>4
<1>6. chain' \in Seq(Slots) /\ NoRepeats(chain') /\ Elements(chain') = Elements(chain)
  <2>1. chain \in Seq(Slots) /\ NoRepeats(chain)
    BY DEF IInv, TypeOK, ChainOK
  <2>2. CASE tlb[s] # NoTLB
    BY <1>3, <2>1, <2>2
  <2>3. CASE tlb[s] = NoTLB
    <3> DEFINE c == Without(chain, s)
               d == ChainAfterMap(p, c)
    <3>1. c \in Seq(Slots) /\ NoRepeats(c) /\ Elements(c) = Elements(chain) \ {s}
      BY <1>5, <2>1, WithoutFacts
    <3> HIDE DEF c
    <3>2. map[Buddy(p)] # NoSlot => map[Buddy(p)] \in Elements(c)
      BY <1>4, <3>1, ResidentBuddy
    <3>3. d \in Seq(Slots) /\ NoRepeats(d) /\ Elements(d) = Elements(c)
      BY <3>1, <3>2, ChainMapped
    <3>4. chain' = Append(d, s)
      BY <1>3, <2>3 DEF c
    <3> HIDE DEF d
    <3>5. s \notin Elements(d)
      BY <3>1, <3>3
    <3>6. /\ chain' \in Seq(Slots) /\ NoRepeats(chain')
          /\ Elements(chain') = Elements(d) \cup {s}
      BY <1>5, <3>3, <3>4, <3>5, AppendFacts
    <3> QED
      BY <1>5, <3>1, <3>3, <3>6
  <2> QED
    BY <2>2, <2>3
<1>7. /\ thr' = [thr EXCEPT ![t] = "running"] /\ want' = [want EXCEPT ![t] = NoPage]
      /\ OtherTypes'
  <2>1. thr' = [thr EXCEPT ![t] = "running"] /\ want' = [want EXCEPT ![t] = NoPage]
    BY <1>3 DEF Resume
  <2> QED
    BY <1>1, <1>3, <1>6, <2>1, TLBPart DEF OtherTypes
<1>8. \A u \in Threads : (InFlight(u)' <=> InFlight(u)) /\ thr'[u] # "faulted"
  BY <1>1, <1>7, TLBPart DEF OtherTypes, InFlight
<1>9. JobSlots' = JobSlots /\ Flying' = Flying /\ RegionEnd' = RegionEnd
  BY <1>3, <1>8 DEF JobSlots, Flying, RegionEnd
<1>10. RegionsOK' /\ JobsOK' /\ JobsCounted'
  BY <1>3, <1>5, <1>8, <1>9 DEF IInv, RegionsOK, JobsOK, JobsCounted
<1>11. MessagesOK' /\ FaultsOK' /\ FramesOK'
  <2>1. \A f \in Slots : page'[f] # NoPage => frame'[f] = page'[f]
    BY <1>3, <1>5 DEF IInv, FramesOK
  <2> QED
    BY <1>1, <1>8, <2>1, Drained
<1>12. PlacesOK'
  BY <1>1, <1>3, <1>8, PlacesDrained
<1>13. ChainOK'
  BY <1>6, <1>9 DEF IInv, ChainOK, OnChain
<1>14. TypeOK'
  BY <1>5, <1>7 DEF TypeOK, TLBInv, TLBTypes, OtherTypes
<1> QED
  BY <1>5, <1>10, <1>11, <1>12, <1>13, <1>14 DEF IInv, TLBInv

(* There are more frames than job blocks, so a frame is on the list. *)
LEMMA FrameToTake ==
  ASSUME IInv
  PROVE  chain # <<>>
<1> DEFINE f == [t \in Flying |-> job[t].slot]
<1>1. IsFiniteSet(Flying) /\ Cardinality(Flying) \in Nat
  BY FlyingFinite DEF IInv
<1>2. f \in Surjection(Flying, JobSlots)
  BY DEF Surjection, JobSlots, Flying
<1>3. IsFiniteSet(JobSlots) /\ Cardinality(JobSlots) <= Cardinality(Flying)
  BY <1>1, <1>2, FS_Surjection
<1>4. Cardinality(Flying) <= NumJobs /\ NumJobs \in Nat /\ NumSlots \in Nat /\ NumJobs + 2 <= NumSlots
  <2>1. freeJobs \in 0 .. NumJobs /\ freeJobs + Cardinality(Flying) = NumJobs
    BY DEF IInv, TypeOK, JobsCounted
  <2> QED
    BY <1>1, <2>1, Counts
<1>5. Cardinality(Slots) = NumSlots
  BY <1>4, FS_Interval DEF Slots
<1>6. Cardinality(JobSlots) \in Nat
  BY <1>3, FS_CardinalityType
<1> SUFFICES ASSUME chain = <<>>  PROVE FALSE
  OBVIOUS
<1>7. Elements(chain) = {}
  BY DEF Elements
<1>8. Slots \in SUBSET JobSlots
  BY <1>7 DEF IInv, ChainOK, OnChain
<1>9. Cardinality(Slots) <= Cardinality(JobSlots)
  BY <1>3, <1>8, FS_Subset
<1> QED
  BY <1>1, <1>3, <1>4, <1>5, <1>6, <1>9

(* A miss that takes a frame and queues a job keeps the invariant.         *)
LEMMA TLBMissPageInStep ==
  ASSUME IInv, TLBMissPageIn
  PROVE  IInv'
<1>1. PICK t \in Threads :
        /\ t = faultedThread /\ thr[t] = "faulted" /\ completion' = <<>>
        /\ \A u \in Threads : thr[u] = "faulted" => u = t
  BY FaultAtHead DEF TLBMissPageIn
<1> DEFINE p == want[t]
           s == Head(chain)
<1>2. InRegion(p) /\ map[p] = NoSlot /\ freeJobs > 0
  BY <1>1 DEF TLBMissPageIn
<1>3. p \in VPages /\ p < RegionEnd
  BY <1>1, <1>2, WantedInRegion
<1>4. chain \in Seq(Slots) /\ NoRepeats(chain) /\ chain # <<>>
  BY FrameToTake DEF IInv, TypeOK, ChainOK
<1>5. /\ s \in Slots /\ chain' \in Seq(Slots) /\ NoRepeats(chain')
      /\ Elements(chain) = Elements(chain') \cup {s} /\ s \notin Elements(chain')
  <2>1. chain' = Tail(chain)
    BY DEF TLBMissPageIn
  <2> QED
    BY <1>4, <2>1, TailFacts
<1>6. /\ freeJobs' = freeJobs - 1 /\ VM_UnmapTLBEntry(s) /\ ForgetPage(s)
      /\ job' = [job EXCEPT ![t] = [page |-> p, slot |-> s]]
      /\ pending' = Append(pending, t) /\ thr' = [thr EXCEPT ![t] = "paging"]
      /\ UNCHANGED <<want, faultedThread, cur, regions, frame, reader, restarted>>
  BY <1>1 DEF TLBMissPageIn
<1> HIDE DEF p, s
<1>7. TLBInv' /\ page' = [page EXCEPT ![s] = NoPage] /\ \A q \in VPages : map'[q] \in {map[q], NoSlot}
  <2>1. TLBInv' /\ page' = [page EXCEPT ![s] = NoPage]
    BY <1>5, <1>6, TLBPart, Reclaim DEF ForgetPage
  <2>2. \A q \in VPages : map'[q] \in {map[q], NoSlot}
    BY <1>6 DEF ForgetPage, IInv, TypeOK
  <2> QED
    BY <2>1, <2>2
<1>8. OtherTypes
  BY TLBPart
<1>9. /\ InFlight(t)' /\ ~InFlight(t) /\ job'[t].page = p /\ job'[t].slot = s
      /\ \A u \in Threads : u # t => /\ InFlight(u)' <=> InFlight(u)
                                     /\ job'[u] = job[u] /\ thr'[u] # "faulted"
      /\ thr'[t] # "faulted"
  <2>1. thr \in [Threads -> {"running", "faulted", "paging", "allocating"}]
        /\ job \in [Threads -> [page : VPages \cup {NoPage}, slot : Slots \cup {NoSlot}]]
    BY <1>8 DEF OtherTypes
  <2>2. thr'[t] = "paging" /\ \A u \in Threads : u # t => thr'[u] = thr[u] /\ thr[u] # "faulted"
    BY <1>1, <1>6, <2>1
  <2>3. /\ job'[t] = [page |-> p, slot |-> s]
        /\ \A u \in Threads : u # t => job'[u] = job[u]
    BY <1>1, <1>6, <2>1
  <2>4. InFlight(t)' /\ ~InFlight(t)
    BY <1>1, <2>2 DEF InFlight
  <2>5. ASSUME NEW u \in Threads, u # t
        PROVE  (InFlight(u)' <=> InFlight(u)) /\ job'[u] = job[u] /\ thr'[u] # "faulted"
    BY <2>2, <2>3, <2>5 DEF InFlight
  <2>6. job'[t].page = p /\ job'[t].slot = s /\ thr'[t] # "faulted"
    BY <2>2, <2>3
  <2> QED
    BY <2>4, <2>5, <2>6
<1>10. s \notin JobSlots /\ JobSlots' = JobSlots \cup {s}
  <2>1. s \notin JobSlots
    BY <1>5 DEF IInv, ChainOK, OnChain
  <2>2. ASSUME NEW f \in JobSlots  PROVE f \in JobSlots'
    BY <1>9, <2>2 DEF JobSlots
  <2>3. ASSUME NEW f \in JobSlots'  PROVE f \in JobSlots \cup {s}
    BY <1>9, <2>3 DEF JobSlots
  <2>4. s \in JobSlots'
    BY <1>1, <1>9 DEF JobSlots
  <2> QED
    BY <2>1, <2>2, <2>3, <2>4
<1>11. pending' \in Seq(Threads) /\ \A i \in 1 .. Len(pending) : pending[i] \in Threads
  BY <1>1, <1>6, <1>8, AppendFacts DEF OtherTypes
<1>12. OtherTypes'
  <2>1. freeJobs' \in 0 .. NumJobs
    BY <1>2, <1>6, <1>8, Counts DEF OtherTypes
  <2>2. thr' \in [Threads -> {"running", "faulted", "paging", "allocating"}]
    BY <1>6, <1>8 DEF OtherTypes
  <2>3. job' \in [Threads -> [page : VPages \cup {NoPage}, slot : Slots \cup {NoSlot}]]
    BY <1>3, <1>5, <1>6, <1>8 DEF OtherTypes
  <2> QED
    BY <1>1, <1>5, <1>6, <1>8, <1>11, <2>1, <2>2, <2>3 DEF OtherTypes
<1>13. RegionsOK' /\ RegionEnd' = RegionEnd
  BY <1>6, <1>7 DEF IInv, RegionsOK, RegionEnd
<1>14. JobsOK'
  <2>1. ASSUME NEW u \in Threads, InFlight(u)'
        PROVE  /\ job'[u].page \in VPages /\ job'[u].page < RegionEnd
               /\ job'[u].slot \in Slots /\ page'[job'[u].slot] = NoPage
    BY SMTT(30), <1>3, <1>5, <1>7, <1>9, <1>8, <2>1 DEF IInv, JobsOK, TypeOK
  <2>2. ASSUME NEW u \in Threads, u # t, InFlight(u)'  PROVE job'[u].slot # s
    BY <1>9, <1>10, <2>2 DEF JobSlots
  <2>3. ASSUME NEW u \in Threads, NEW v \in Threads, InFlight(u)', InFlight(v)',
               job'[u].slot = job'[v].slot
        PROVE  u = v
    <3>1. CASE u = t \/ v = t
      BY <1>9, <2>2, <2>3, <3>1
    <3>2. CASE u # t /\ v # t
      BY <1>9, <2>3, <3>2 DEF IInv, JobsOK
    <3> QED
      BY <3>1, <3>2
  <2> QED
    BY <1>13, <2>1, <2>3 DEF JobsOK
<1>15. JobsCounted'
  <2>1. Flying' = Flying \cup {t} /\ t \notin Flying
    <3>1. \A u \in Threads : InFlight(u)' <=> InFlight(u) \/ u = t
      BY <1>9
    <3> QED
      BY <1>1, <1>9, <3>1 DEF Flying
  <2>2. IsFiniteSet(Flying) /\ Cardinality(Flying) \in Nat
    BY FlyingFinite DEF IInv
  <2>3. Cardinality(Flying') = Cardinality(Flying) + 1
    BY <2>1, <2>2, FS_AddElement
  <2> QED
    BY <1>6, <1>8, <2>2, <2>3, Counts DEF IInv, JobsCounted, OtherTypes
<1>16. PlacesOK'
  <2>1. /\ Len(pending') = Len(pending) + 1 /\ Len(pending) \in Nat
        /\ pending'[Len(pending) + 1] = t
        /\ \A i \in 1 .. Len(pending) : pending'[i] = pending[i]
        /\ NoRepeats(pending) /\ t \notin Elements(pending) => NoRepeats(pending')
    BY <1>1, <1>6, <1>8, AppendFacts DEF OtherTypes
  <2>2. t \notin Elements(pending) /\ NoRepeats(pending)
    BY <1>9 DEF IInv, PlacesOK, Elements
  <2>3. ASSUME NEW i \in 1 .. Len(pending')
        PROVE  \/ i \in 1 .. Len(pending) /\ pending'[i] = pending[i]
               \/ pending'[i] = t
    BY <2>1
  <2>4. \A i \in 1 .. Len(pending') : InFlight(pending[i])'
    <3> SUFFICES ASSUME NEW i \in 1 .. Len(pending')  PROVE InFlight(pending[i])'
      OBVIOUS
    <3>1. CASE i \in 1 .. Len(pending) /\ pending'[i] = pending[i]
      <4>1. InFlight(pending[i]) /\ pending[i] \in Threads
        BY <1>11, <3>1 DEF IInv, PlacesOK
      <4> QED
        BY <1>9, <3>1, <4>1 DEF InFlight
    <3>2. CASE pending'[i] = t
      BY <1>9, <3>2 DEF InFlight
    <3> QED
      BY <2>3, <3>1, <3>2
  <2>5. reader' # NoThread => InFlight(reader)' /\ \A i \in 1 .. Len(pending') : pending'[i] # reader'
    BY <1>6, <1>8, <1>9, <2>3 DEF IInv, PlacesOK, OtherTypes
  <2>6. 1 .. Len(completion') = {}
    BY <1>1
  <2> QED
    BY <2>1, <2>2, <2>4, <2>5, <2>6 DEF PlacesOK
<1>17. MessagesOK' /\ FaultsOK' /\ FramesOK'
  <2>1. \A f \in Slots : page'[f] # NoPage => frame'[f] = page'[f]
    BY <1>5, <1>6, <1>7 DEF IInv, FramesOK, TypeOK
  <2> QED
    BY <1>1, <1>9, <2>1, Drained
<1>18. ChainOK'
  BY <1>5, <1>10 DEF IInv, ChainOK, OnChain
<1>19. TypeOK'
  BY <1>7, <1>12 DEF TypeOK, TLBInv, TLBTypes, OtherTypes
<1> QED
  BY <1>7, <1>13, <1>14, <1>15, <1>16, <1>17, <1>18, <1>19 DEF IInv, TLBInv

(* A miss outside all regions keeps the invariant.                         *)
LEMMA TLBMissOutsideStep ==
  ASSUME IInv, TLBMissOutside
  PROVE  IInv'
<1>1. completion' = <<>> /\ restarted' = TRUE
  BY FaultAtHead DEF TLBMissOutside
<1>2. UNCHANGED <<thr, want, faultedThread, tlbVars, chain, regions, frame, freeJobs, job,
                  pending, reader>>
  BY DEF TLBMissOutside
<1>3. \A u \in Threads : InFlight(u)' <=> InFlight(u)
  BY <1>2 DEF InFlight
<1>4. JobSlots' = JobSlots /\ Flying' = Flying /\ RegionEnd' = RegionEnd
  BY <1>2, <1>3 DEF JobSlots, Flying, RegionEnd
<1>5. TypeOK'
  <2>1. restarted' \in BOOLEAN /\ completion' \in Seq(Message)
    BY <1>1
  <2> QED
    BY <1>2, <2>1 DEF IInv, TypeOK, tlbVars
<1>6. RegionsOK' /\ JobsOK' /\ JobsCounted'
  BY <1>2, <1>3, <1>4 DEF IInv, RegionsOK, JobsOK, JobsCounted, tlbVars
<1>7. ResidencyConsistent' /\ EntriesOK' /\ TLBAgrees'
  BY <1>2 DEF IInv, ResidencyConsistent, EntriesOK, TLBAgrees, tlbVars
<1>8. MessagesOK' /\ FaultsOK' /\ FramesOK'
  <2>1. \A f \in Slots : page'[f] # NoPage => frame'[f] = page'[f]
    BY <1>2 DEF IInv, FramesOK, tlbVars
  <2> QED
    BY <1>1, <2>1, Drained
<1>9. PlacesOK'
  BY <1>1, <1>2, <1>3, PlacesDrained
<1>10. ChainOK'
  BY <1>2, <1>4 DEF IInv, ChainOK, OnChain, Elements, NoRepeats
<1> QED
  BY <1>5, <1>6, <1>7, <1>8, <1>9, <1>10 DEF IInv

(* The job that came back first, and the messages behind it. *)
LEMMA JobAtHead ==
  ASSUME IInv, ManagerReady, Head(completion).type = "page"
  PROVE  LET t == Head(completion).thread
             r == Tail(completion)
         IN  /\ t \in Threads /\ InFlight(t) /\ ~restarted
             /\ map[job[t].page] # NoSlot \/ frame[job[t].slot] = job[t].page
             /\ \A i \in 1 .. Len(pending) : pending[i] # t
             /\ reader # t
             /\ r \in Seq(Message)
             /\ \A i \in 1 .. Len(r) :
                  /\ i + 1 \in 1 .. Len(completion) /\ r[i] = completion[i + 1]
                  /\ r[i].type = "page" /\ r[i].thread # t
             /\ \A u \in Threads : thr[u] # "faulted"
<1> DEFINE t == Head(completion).thread
           r == Tail(completion)
<1>1. completion \in Seq(Message) /\ completion # <<>> /\ ~restarted
  BY DEF IInv, TypeOK, ManagerReady
<1>2. /\ Head(completion) = completion[1] /\ Len(completion) \in Nat /\ Len(completion) >= 1
      /\ r \in Seq(Message) /\ Len(r) = Len(completion) - 1
      /\ \A i \in 1 .. Len(completion) - 1 : r[i] = completion[i + 1]
  BY <1>1, TailFacts
<1> HIDE DEF r
<1>3. 1 \in 1 .. Len(completion) /\ t = completion[1].thread /\ completion[1].type = "page"
  BY <1>2
<1> HIDE DEF t
<1>4. MessageOK(completion[1])
  BY <1>3 DEF IInv, MessagesOK
<1>5. t \in Threads /\ InFlight(t)
  BY <1>3, <1>4 DEF MessageOK, InFlight
<1>6. map[job[t].page] # NoSlot \/ frame[job[t].slot] = job[t].page
  <2>1. SkippedLoadSafe
    BY DEF IInv, FramesOK
  <2> QED
    BY <1>3, <2>1 DEF SkippedLoadSafe
<1>7. \A i \in 1 .. Len(pending) : pending[i] # t
  BY <1>3 DEF IInv, PlacesOK
<1>8. reader # t
  BY <1>3, <1>5, NoThreadIsNone DEF IInv, PlacesOK
<1>9. ASSUME NEW i \in 1 .. Len(r)
      PROVE  /\ i + 1 \in 1 .. Len(completion) /\ r[i] = completion[i + 1]
             /\ r[i].type = "page" /\ r[i].thread # t
  <2>1. i + 1 \in 1 .. Len(completion) /\ r[i] = completion[i + 1] /\ i + 1 # 1 /\ Len(completion) # 1
    BY <1>2
  <2>2. completion[i + 1].type = "page"
    BY <2>1 DEF IInv, MessagesOK
  <2>3. completion[i + 1].thread # t
    BY <1>3, <2>1 DEF IInv, PlacesOK
  <2> QED
    BY <2>1, <2>2, <2>3
<1>10. \A u \in Threads : thr[u] # "faulted"
  BY <1>1, <1>3 DEF IInv, FaultsOK
<1> QED
  BY <1>1, <1>2, <1>5, <1>6, <1>7, <1>8, <1>9, <1>10 DEF t, r

(* The manager finishing a job keeps the invariant.                        *)
LEMMA VM_FinishPageJobStep ==
  ASSUME IInv, VM_FinishPageJob
  PROVE  IInv'
<1> DEFINE r == completion'
<1>1. PICK t \in Threads :
        /\ t = Head(completion).thread /\ InFlight(t)
        /\ map[job[t].page] # NoSlot \/ frame[job[t].slot] = job[t].page
        /\ \A i \in 1 .. Len(pending) : pending[i] # t
        /\ reader # t
        /\ r \in Seq(Message)
        /\ \A i \in 1 .. Len(r) :
             /\ i + 1 \in 1 .. Len(completion) /\ r[i] = completion[i + 1]
             /\ r[i].type = "page" /\ r[i].thread # t
        /\ \A u \in Threads : thr[u] # "faulted"
  BY JobAtHead DEF VM_FinishPageJob
<1> DEFINE p == job[t].page
           s == job[t].slot
<1>2. /\ IF map[p] = NoSlot
         THEN VM_MapTLBEntry(p, s) /\ chain' = ChainAfterMap(p, Append(chain, s))
         ELSE chain' = <<s>> \o chain /\ UNCHANGED tlbVars
      /\ thr' = [thr EXCEPT ![t] = "running"] /\ want' = [want EXCEPT ![t] = NoPage]
      /\ freeJobs' = freeJobs + 1 /\ job' = [job EXCEPT ![t] = NoJob]
      /\ UNCHANGED <<faultedThread, regions, frame, pending, reader, restarted>>
  BY <1>1 DEF VM_FinishPageJob, Resume, ReturnJob
<1> HIDE DEF r
<1>3. p \in VPages /\ p < RegionEnd /\ s \in Slots /\ page[s] = NoPage
      /\ \A u \in Threads : InFlight(u) /\ u # t => job[u].slot # s
  BY <1>1 DEF IInv, JobsOK
<1> HIDE DEF p, s
<1>4. OtherTypes /\ TLBInv
  BY TLBPart
<1>5. /\ TLBInv'
      /\ page'[s] \in {NoPage, p} /\ \A f \in Slots : f # s => page'[f] = page[f]
      /\ page'[s] = p => frame[s] = p
      /\ map'[p] # NoSlot
      /\ \A q \in VPages : q # p => map'[q] = map[q]
  <2>1. CASE map[p] = NoSlot
    <3>1. tlb[s] = NoTLB
      BY <1>3, <1>4 DEF TLBInv, ResidencyConsistent
    <3>2. p # NoPage /\ s # NoSlot
      BY <1>3, Sentinels
    <3>3. TLBInv' /\ page' = [page EXCEPT ![s] = p] /\ map' = [map EXCEPT ![p] = s]
      BY <1>2, <1>3, <1>4, <2>1, <3>1, <3>2, MapIn
    <3>4. frame[s] = p
      BY <1>1, <2>1 DEF p, s
    <3> QED
      BY <1>3, <1>4, <3>2, <3>3, <3>4 DEF TLBInv, TLBTypes
  <2>2. CASE map[p] # NoSlot
    <3>1. UNCHANGED tlbVars
      BY <1>2, <2>2
    <3>2. p # NoPage
      BY <1>3, Sentinels
    <3> QED
      BY <1>3, <1>4, <2>2, <3>1, <3>2
         DEF tlbVars, TLBInv, TLBTypes, ResidencyConsistent, EntriesOK, TLBAgrees
  <2> QED
    BY <2>1, <2>2
<1>6. /\ ~InFlight(t)' /\ thr'[t] = "running"
      /\ \A u \in Threads : u # t => /\ (InFlight(u)' <=> InFlight(u))
                                     /\ job'[u] = job[u] /\ thr'[u] = thr[u]
  <2>1. thr'[t] = "running" /\ \A u \in Threads : u # t => thr'[u] = thr[u] /\ job'[u] = job[u]
    BY <1>2, <1>4 DEF OtherTypes
  <2>2. ~InFlight(t)'
    BY <2>1 DEF InFlight
  <2>3. \A u \in Threads : u # t => (InFlight(u)' <=> InFlight(u))
    BY <2>1 DEF InFlight
  <2> QED
    BY <2>1, <2>2, <2>3
<1>7. s \in JobSlots /\ JobSlots' = JobSlots \ {s}
  <2>1. s \in JobSlots
    BY <1>1 DEF JobSlots, s
  <2>2. ASSUME NEW f \in JobSlots, f # s  PROVE f \in JobSlots'
    BY <1>6, <2>2 DEF JobSlots, s
  <2>3. ASSUME NEW f \in JobSlots'  PROVE f \in JobSlots /\ f # s
    BY <1>3, <1>6, <2>3 DEF JobSlots
  <2> QED
    BY <2>1, <2>2, <2>3
<1>8. s \notin Elements(chain) /\ chain \in Seq(Slots) /\ NoRepeats(chain)
      /\ Elements(chain) = Slots \ JobSlots
  BY <1>4, <1>7 DEF IInv, ChainOK, OnChain, OtherTypes
<1>9. chain' \in Seq(Slots) /\ NoRepeats(chain') /\ Elements(chain') = Elements(chain) \cup {s}
  <2>1. CASE map[p] # NoSlot
    <3> DEFINE c == <<s>> \o chain
    <3>1. c \in Seq(Slots) /\ NoRepeats(c) /\ Elements(c) = Elements(chain) \cup {s}
      BY <1>3, <1>8, PushFacts
    <3>2. chain' = c
      BY <1>2, <2>1
    <3> HIDE DEF c
    <3> QED
      BY <3>1, <3>2
  <2>2. CASE map[p] = NoSlot
    <3> DEFINE c == Append(chain, s)
    <3>1. c \in Seq(Slots) /\ NoRepeats(c) /\ Elements(c) = Elements(chain) \cup {s}
      BY <1>3, <1>8, AppendFacts
    <3>2. chain' = ChainAfterMap(p, c)
      BY <1>2, <2>2
    <3> HIDE DEF c
    <3>3. map[Buddy(p)] # NoSlot => map[Buddy(p)] \in Elements(c)
      BY <1>3, <3>1, ResidentBuddy
    <3> QED
      BY <3>1, <3>2, <3>3, ChainMapped
  <2> QED
    BY <2>1, <2>2
<1>10. ChainOK'
  BY <1>3, <1>7, <1>8, <1>9 DEF ChainOK, OnChain
<1>11. JobsCounted' /\ freeJobs' \in 0 .. NumJobs
  <2>1. Flying' = Flying \ {t} /\ t \in Flying
    BY <1>1, <1>6 DEF Flying
  <2>2. IsFiniteSet(Flying) /\ Cardinality(Flying) \in Nat
    BY FlyingFinite DEF IInv
  <2>3. IsFiniteSet(Flying') /\ Cardinality(Flying') = Cardinality(Flying) - 1
    BY <2>1, <2>2, FS_RemoveElement
  <2>4. Cardinality(Flying') \in Nat
    BY <2>3, FS_CardinalityType
  <2>5. freeJobs \in 0 .. NumJobs /\ freeJobs + Cardinality(Flying) = NumJobs
    BY <1>4 DEF IInv, JobsCounted, OtherTypes
  <2> QED
    BY <1>2, <2>2, <2>3, <2>4, <2>5, Counts DEF JobsCounted
<1>12. TypeOK'
  <2>1. thr' \in [Threads -> {"running", "faulted", "paging", "allocating"}]
    BY <1>2, <1>4 DEF OtherTypes
  <2>2. want' \in [Threads -> VPages \cup {NoPage}]
    BY <1>2, <1>4 DEF OtherTypes
  <2>3. job' \in [Threads -> [page : VPages \cup {NoPage}, slot : Slots \cup {NoSlot}]]
    BY <1>2, <1>4 DEF OtherTypes, NoJob
  <2>4. completion' \in Seq(Message)
    BY <1>1 DEF r
  <2>5. OtherTypes'
    BY <1>2, <1>4, <1>9, <1>11, <2>1, <2>2, <2>3, <2>4 DEF OtherTypes
  <2> QED
    BY <1>5, <2>5 DEF TypeOK, TLBInv, TLBTypes, OtherTypes
<1>13. RegionsOK' /\ RegionEnd' = RegionEnd
  BY <1>2, <1>3, <1>5 DEF IInv, RegionsOK, RegionEnd
<1>14. JobsOK'
  <2>1. ASSUME NEW u \in Threads, InFlight(u)'
        PROVE  /\ u # t /\ InFlight(u) /\ job'[u] = job[u]
               /\ job[u].page \in VPages /\ job[u].page < RegionEnd
               /\ job[u].slot \in Slots /\ page'[job[u].slot] = NoPage
    <3>1. u # t /\ InFlight(u) /\ job'[u] = job[u]
      BY <1>6, <2>1
    <3> QED
      BY <1>3, <1>5, <3>1 DEF IInv, JobsOK
  <2> QED
    BY <1>13, <2>1 DEF IInv, JobsOK
<1>15. MessagesOK'
  <2>1. ASSUME NEW i \in 1 .. Len(r)
        PROVE  r[i].type = "page" /\ r[i].thread \in Threads /\ thr'[r[i].thread] = "paging"
    <3>1. MessageOK(completion[i + 1]) /\ r[i] = completion[i + 1] /\ r[i].type = "page" /\ r[i].thread # t
      BY <1>1 DEF IInv, MessagesOK
    <3> QED
      BY <1>6, <3>1 DEF MessageOK
  <2> QED
    BY <2>1 DEF MessagesOK, MessageOK, r
<1>16. FaultsOK'
  <2>1. \A u \in Threads : thr'[u] # "faulted"
    BY <1>1, <1>6
  <2> QED
    BY <2>1 DEF FaultsOK
<1>17. PlacesOK'
  <2>1. /\ \A i \in 1 .. Len(pending) : pending[i] \in Threads
        /\ reader # NoThread => reader \in Threads
    BY <1>4 DEF OtherTypes
  <2>2. \A i \in 1 .. Len(pending) : InFlight(pending[i])'
    BY <1>1, <1>2, <1>6, <2>1 DEF IInv, PlacesOK, InFlight
  <2>3. \A i, j \in 1 .. Len(r) : r[i].type = "page" /\ r[i].thread = r[j].thread => i = j
    <3> SUFFICES ASSUME NEW i \in 1 .. Len(r), NEW j \in 1 .. Len(r), r[i].thread = r[j].thread
                 PROVE  i = j
      OBVIOUS
    <3>1. /\ i + 1 \in 1 .. Len(completion) /\ j + 1 \in 1 .. Len(completion)
          /\ completion[i + 1].type = "page"
          /\ completion[i + 1].thread = completion[j + 1].thread
      BY <1>1
    <3>2. i + 1 = j + 1
      BY <3>1 DEF IInv, PlacesOK
    <3> QED
      BY <3>2
  <2>4. \A i \in 1 .. Len(pending), j \in 1 .. Len(r) : r[j].thread # pending[i]
    BY <1>1 DEF IInv, PlacesOK
  <2>5. reader # NoThread => /\ InFlight(reader)'
                             /\ \A i \in 1 .. Len(pending) : pending[i] # reader
                             /\ \A i \in 1 .. Len(r) : r[i].thread # reader
    BY <1>1, <1>2, <1>6, <2>1 DEF IInv, PlacesOK, InFlight
  <2>6. pending' = pending /\ reader' = reader /\ NoRepeats(pending)
    BY <1>2 DEF IInv, PlacesOK
  <2> QED
    BY <2>2, <2>3, <2>4, <2>5, <2>6 DEF PlacesOK, r
<1>18. FramesOK'
  <2>1. \A f \in Slots : page'[f] # NoPage => frame'[f] = page'[f]
    BY <1>2, <1>3, <1>5 DEF IInv, FramesOK
  <2>2. ASSUME NEW i \in 1 .. Len(r)
        PROVE  LET j == job'[r[i].thread] IN map'[j.page] # NoSlot \/ frame'[j.slot] = j.page
    <3>1. MessageOK(completion[i + 1]) /\ r[i] = completion[i + 1] /\ r[i].type = "page"
          /\ r[i].thread # t /\ i + 1 \in 1 .. Len(completion)
      BY <1>1 DEF IInv, MessagesOK
    <3>2. r[i].thread \in Threads /\ InFlight(r[i].thread) /\ job'[r[i].thread] = job[r[i].thread]
      BY <1>6, <3>1 DEF MessageOK, InFlight
    <3>3. LET j == job[r[i].thread] IN /\ map[j.page] # NoSlot \/ frame[j.slot] = j.page
                                       /\ j.page \in VPages
      BY <3>1, <3>2 DEF IInv, FramesOK, SkippedLoadSafe, JobsOK
    <3> QED
      BY <1>2, <1>5, <3>2, <3>3
  <2>3. SkippedLoadSafe'
    BY <2>2 DEF SkippedLoadSafe, r
  <2> QED
    BY <2>1, <2>3 DEF FramesOK
<1> QED
  BY <1>5, <1>10, <1>11, <1>12, <1>13, <1>14, <1>15, <1>16, <1>17, <1>18 DEF IInv, TLBInv

(* A new region keeps the invariant.                                       *)
LEMMA VM_AllocRegionStep ==
  ASSUME IInv, VM_AllocRegion
  PROVE  IInv'
<1> DEFINE m == Head(completion)
           n == m.pages
           new == [start |-> RegionStart, pages |-> n]
<1>1. completion \in Seq(Message) /\ completion # <<>> /\ ~restarted /\ m.type = "alloc"
  BY DEF IInv, TypeOK, VM_AllocRegion, ManagerReady
<1>2. /\ m = completion[1] /\ 1 \in 1 .. Len(completion) /\ m \in Message
      /\ Tail(completion) \in Seq(Message) /\ Len(Tail(completion)) = Len(completion) - 1
  BY <1>1, TailFacts
<1>3. Len(completion) = 1 /\ MessageOK(m)
  <2>1. completion[1].type # "page"
    BY <1>1, <1>2
  <2> QED
    BY <1>2, <2>1 DEF IInv, MessagesOK
<1>4. completion' = <<>>
  <2> DEFINE r == Tail(completion)
  <2>1. r \in Seq(Message) /\ Len(r) = 0
    BY <1>2, <1>3
  <2> HIDE DEF r
  <2>2. r = <<>>
    BY <2>1, EmptySeq
  <2> QED
    BY <2>2 DEF r, VM_AllocRegion
<1>5. PICK t \in Threads : t = m.thread /\ thr[t] = "allocating"
  BY <1>1, <1>3 DEF MessageOK
<1>6. n \in 1 .. NumPages /\ RegionStart + n <= NumPages
  BY <1>1, <1>2, <1>3 DEF MessageOK, Message
<1>7. /\ regions' = Append(regions, new)
      /\ map' = [p \in VPages |-> IF p \in RegionStart .. RegionStart + n - 1 + (n % 2)
                                  THEN NoSlot ELSE map[p]]
      /\ thr' = [thr EXCEPT ![t] = "running"]
      /\ UNCHANGED <<want, faultedThread, page, tlb, chain, entries, hw, cur, frame,
                     freeJobs, job, pending, reader, restarted>>
  BY <1>5 DEF VM_AllocRegion
<1> HIDE DEF m, n
<1>8. OtherTypes /\ TLBInv
  BY TLBPart
<1>9. RegionEnd \in Nat /\ RegionStart \in Nat /\ RegionEnd <= RegionStart /\ NumPages \in Nat
  <2>1. regions \in Seq([start : VPages, pages : 1 .. NumPages]) /\ Len(regions) > 0
    BY <1>8 DEF IInv, OtherTypes, RegionsOK
  <2>2. Len(regions) \in 1 .. Len(regions)
    BY <2>1
  <2>3. regions[Len(regions)] \in [start : VPages, pages : 1 .. NumPages]
    BY <2>1, <2>2, ElementOfSeq
  <2>4. regions[Len(regions)].start \in Nat /\ regions[Len(regions)].pages \in Nat /\ NumPages \in Nat
    <3>1. regions[Len(regions)].start \in VPages /\ regions[Len(regions)].pages \in 1 .. NumPages
      BY <2>3
    <3>2. NumPages \in Nat
      BY PagerAssumption
    <3> QED
      BY <3>1, <3>2 DEF VPages
  <2>5. RegionEnd \in Nat /\ RegionStart = RegionEnd + (RegionEnd % 2)
    BY <2>4 DEF RegionEnd, RegionStart
  <2> QED
    BY <2>4, <2>5
<1>10. map' = map
  <2>1. map \in [VPages -> Slots \cup {NoSlot}]
    BY <1>8 DEF TLBInv, TLBTypes
  <2>2. ASSUME NEW p \in VPages, p \in RegionStart .. RegionStart + n - 1 + (n % 2)
        PROVE  map[p] = NoSlot
    <3>1. ~(p < RegionEnd)
      BY <1>6, <1>9, <2>2 DEF VPages
    <3> QED
      BY <3>1 DEF IInv, RegionsOK
  <2> QED
    BY <1>7, <2>1, <2>2
<1>11. new \in [start : VPages, pages : 1 .. NumPages]
  BY <1>6, <1>9 DEF VPages
<1>12. /\ regions' \in Seq([start : VPages, pages : 1 .. NumPages])
       /\ Len(regions') = Len(regions) + 1 /\ Len(regions) \in Nat
       /\ regions'[Len(regions) + 1] = new
       /\ \A i \in 1 .. Len(regions) : regions'[i] = regions[i]
  BY <1>7, <1>8, <1>11, AppendFacts DEF OtherTypes
<1>13. RegionEnd' = RegionStart + n /\ RegionEnd <= RegionEnd'
  BY <1>6, <1>9, <1>12 DEF RegionEnd
<1>14. RegionsOK'
  <2>1. ASSUME NEW i \in 1 .. Len(regions')
        PROVE  regions'[i].start + regions'[i].pages <= RegionEnd'
    <3>1. CASE i \in 1 .. Len(regions)
      <4>1. regions[i] \in [start : VPages, pages : 1 .. NumPages]
        BY <1>8, <3>1, ElementOfSeq DEF OtherTypes
      <4>2. regions[i].start \in Int /\ regions[i].pages \in Int
        BY <4>1 DEF VPages
      <4>3. regions[i].start + regions[i].pages <= RegionEnd
        BY <3>1 DEF IInv, RegionsOK
      <4>4. RegionEnd' \in Int
        BY <1>6, <1>9, <1>13
      <4>5. RegionEnd <= RegionEnd' /\ RegionEnd \in Int
        BY <1>6, <1>9, <1>13
      <4>6. regions'[i] = regions[i]
        BY <1>12, <3>1
      <4> HIDE DEF RegionEnd
      <4> QED
        BY <4>2, <4>3, <4>4, <4>5, <4>6
    <3>2. CASE i = Len(regions) + 1
      BY <1>6, <1>9, <1>12, <1>13, <3>2
    <3> QED
      BY <1>12, <3>1, <3>2
  <2>2. ASSUME NEW p \in VPages, map'[p] # NoSlot
        PROVE  p < RegionEnd'
    <3>1. p < RegionEnd
      BY <1>10, <2>2 DEF IInv, RegionsOK
    <3> QED
      BY <1>6, <1>9, <1>13, <3>1 DEF VPages
  <2>3. Len(regions') > 0 /\ RegionEnd' <= NumPages
    BY <1>6, <1>12, <1>13
  <2> QED
    BY <2>1, <2>2, <2>3 DEF RegionsOK
<1>15. thr' \in [Threads -> {"running", "faulted", "paging", "allocating"}]
  BY <1>7, <1>8 DEF OtherTypes
<1>16. TypeOK'
  BY <1>4, <1>7, <1>8, <1>10, <1>12, <1>15 DEF TypeOK, OtherTypes, TLBInv, TLBTypes
<1>17. \A u \in Threads : (InFlight(u)' <=> InFlight(u)) /\ thr'[u] # "faulted"
  <2>1. \A u \in Threads : thr[u] # "faulted"
    BY <1>1, <1>2 DEF IInv, FaultsOK
  <2> QED
    BY <1>5, <1>7, <1>8, <2>1 DEF OtherTypes, InFlight
<1>18. JobSlots' = JobSlots /\ Flying' = Flying
  BY <1>7, <1>17 DEF JobSlots, Flying
<1>19. JobsOK'
  <2>1. ASSUME NEW u \in Threads, InFlight(u)
        PROVE  job[u].page < RegionEnd'
    <3>1. job[u].page \in VPages /\ job[u].page < RegionEnd
      BY <2>1 DEF IInv, JobsOK
    <3> QED
      BY <1>6, <1>9, <1>13, <3>1 DEF VPages
  <2> QED
    BY <1>7, <1>17, <2>1 DEF IInv, JobsOK
<1>20. JobsCounted'
  BY <1>7, <1>18 DEF IInv, JobsCounted
<1>21. ResidencyConsistent' /\ EntriesOK' /\ TLBAgrees'
  BY <1>7, <1>10 DEF IInv, ResidencyConsistent, EntriesOK, TLBAgrees
<1>22. MessagesOK' /\ FaultsOK' /\ FramesOK'
  <2>1. \A f \in Slots : page'[f] # NoPage => frame'[f] = page'[f]
    BY <1>7 DEF IInv, FramesOK
  <2> QED
    BY <1>4, <1>17, <2>1, Drained
<1>23. PlacesOK'
  BY <1>4, <1>7, <1>17, PlacesDrained
<1>24. ChainOK'
  BY <1>7, <1>18 DEF IInv, ChainOK, OnChain, Elements, NoRepeats
<1> QED
  BY <1>14, <1>16, <1>19, <1>20, <1>21, <1>22, <1>23, <1>24 DEF IInv

----------------------------------------------------------------------------
(* The invariant, and what follows from it                                 *)

(* VM_Initialize establishes the invariant.                                *)
LEMMA Initially ==
  ASSUME Init
  PROVE  IInv
<1>0. FirstRegionPages \in 1 .. NumPages /\ 0 \in VPages /\ NumPages \in Nat
  BY PagerAssumption DEF VPages
<1>1. TypeOK
  <2>1. chain \in Seq(Slots)
    BY Counts DEF Init, Slots
  <2>2. regions \in Seq([start : VPages, pages : 1 .. NumPages])
    BY <1>0 DEF Init
  <2>3. hw \in [TLBIndex -> Entry] /\ entries \in [TLBIndex -> Entry]
    BY DEF Init, Entry, EmptyEntry, WiredEntry
  <2>4. cur \in FirstTLB .. NumTLB - 1
    BY Indices DEF Init
  <2>5. job \in [Threads -> [page : VPages \cup {NoPage}, slot : Slots \cup {NoSlot}]]
    BY DEF Init, NoJob
  <2>6. freeJobs \in 0 .. NumJobs
    BY Counts DEF Init
  <2>7. /\ thr \in [Threads -> {"running", "faulted", "paging", "allocating"}]
        /\ want \in [Threads -> VPages \cup {NoPage}]
        /\ faultedThread \in Threads \cup {NoThread}
        /\ page \in [Slots -> VPages \cup {NoPage}]
        /\ tlb \in [Slots -> TLBIndex \cup {NoTLB}]
        /\ map \in [VPages -> Slots \cup {NoSlot}]
        /\ frame \in [Slots -> VPages \cup {NoPage}]
    BY DEF Init
  <2>8. /\ pending \in Seq(Threads) /\ completion \in Seq(Message)
        /\ reader \in Threads \cup {NoThread}
    BY DEF Init
  <2>9. restarted \in BOOLEAN
    BY DEF Init
  <2> QED
    BY <2>1, <2>2, <2>3, <2>4, <2>5, <2>6, <2>7, <2>8, <2>9 DEF TypeOK
<1>2. RegionsOK
  <2>1. Len(regions) = 1 /\ regions[1] = [start |-> 0, pages |-> FirstRegionPages]
    BY DEF Init
  <2>2. RegionEnd = FirstRegionPages
    BY <1>0, <2>1 DEF RegionEnd
  <2>3. \A p \in VPages : map[p] = NoSlot
    BY DEF Init
  <2> QED
    BY <1>0, <2>1, <2>2, <2>3 DEF RegionsOK
<1> USE DEF Init
<1>3. MessagesOK /\ FaultsOK
  BY DEF MessagesOK, FaultsOK
<1>4. JobsOK /\ Flying = {} /\ JobSlots = {}
  BY DEF JobsOK, InFlight, Flying, JobSlots
<1>5. JobsCounted
  BY <1>4, Counts, FS_EmptySet DEF JobsCounted
<1>6. PlacesOK
  BY DEF PlacesOK, NoRepeats
<1>7. ResidencyConsistent
  BY DEF ResidencyConsistent, EmptyEntry
<1>8. EntriesOK
  BY Indices DEF EntriesOK, EmptyEntry
<1>9. TLBAgrees
  <2>1. FirstTLB \in Nat /\ NumTLB \in Nat
    BY EntryCounts
  <2>2. /\ \A i \in FirstTLB .. NumTLB - 1 : ~(i < FirstTLB)
        /\ \A i \in 0 .. FirstTLB - 1 : i < FirstTLB
    BY <2>1
  <2> DEFINE low == 0 .. FirstTLB - 1
             high == FirstTLB .. NumTLB - 1
  <2>3. /\ hw = [i \in TLBIndex |-> IF i < FirstTLB THEN WiredEntry ELSE EmptyEntry]
        /\ entries = [i \in TLBIndex |-> EmptyEntry]
    OBVIOUS
  <2>4. high \subseteq TLBIndex /\ low \subseteq TLBIndex
    BY Indices
  <2>5. (\A i \in high : ~(i < FirstTLB)) /\ \A i \in low : i < FirstTLB
    BY <2>2
  <2> HIDE DEF low, high, Init
  <2>6. \A i \in high : hw[i] = EmptyEntry /\ entries[i] = EmptyEntry
    BY <2>3, <2>4, <2>5
  <2>7. \A i \in low : hw[i] = WiredEntry
    BY <2>3, <2>4, <2>5
  <2> QED
    BY <2>6, <2>7 DEF TLBAgrees, low, high
<1>10. ChainOK
  <2>1. Len(chain) = NumSlots /\ \A i \in 1 .. NumSlots : chain[i] = i - 1
    BY Counts
  <2>2. NoRepeats(chain)
    BY <2>1, Counts DEF NoRepeats
  <2>3. ASSUME NEW s \in Slots  PROVE s \in Elements(chain)
    <3>1. s + 1 \in 1 .. NumSlots /\ chain[s + 1] = s
      BY <2>1, Counts DEF Slots
    <3> QED
      BY <2>1, <3>1 DEF Elements
  <2>4. ASSUME NEW s \in Elements(chain)  PROVE s \in Slots
    BY <2>1, Counts DEF Elements, Slots
  <2> QED
    BY <1>4, <2>2, <2>3, <2>4 DEF ChainOK, OnChain
<1>11. FramesOK
  BY DEF FramesOK, SkippedLoadSafe
<1> QED
  BY <1>1, <1>2, <1>3, <1>4, <1>5, <1>6, <1>7, <1>8, <1>9, <1>10, <1>11 DEF IInv

(* A step that changes nothing keeps the invariant.                        *)
LEMMA Stutters ==
  ASSUME IInv, UNCHANGED vars
  PROVE  IInv'
<1>1. \A u \in Threads : InFlight(u)' <=> InFlight(u)
  BY DEF vars, InFlight
<1>2. JobSlots' = JobSlots /\ Flying' = Flying /\ RegionEnd' = RegionEnd /\ RegionStart' = RegionStart
  BY <1>1 DEF vars, JobSlots, Flying, RegionEnd, RegionStart
<1>3. TypeOK'
  BY DEF vars, tlbVars, IInv, TypeOK
<1>4. RegionsOK' /\ JobsOK' /\ JobsCounted' /\ ChainOK'
  BY <1>1, <1>2 DEF vars, IInv, RegionsOK, JobsOK, JobsCounted, ChainOK, OnChain, Elements, NoRepeats
<1>5. MessagesOK' /\ FaultsOK' /\ FramesOK'
  BY <1>2 DEF vars, IInv, MessagesOK, MessageOK, FaultsOK, FramesOK, SkippedLoadSafe
<1>6. PlacesOK'
  BY DEF vars, IInv, PlacesOK, NoRepeats, InFlight
<1>7. ResidencyConsistent' /\ EntriesOK' /\ TLBAgrees'
  BY DEF vars, IInv, ResidencyConsistent, EntriesOK, TLBAgrees
<1> QED
  BY <1>3, <1>4, <1>5, <1>6, <1>7 DEF IInv

(* The invariant is inductive: every step of the pager preserves it.       *)
THEOREM InvariantHolds == Spec => []IInv
<1>1. Init => IInv
  BY Initially
<1>2. IInv /\ [Next]_vars => IInv'
  <2> SUFFICES ASSUME IInv, [Next]_vars  PROVE IInv'
    OBVIOUS
  <2>1. CASE Game
    BY <2>1, GameStep
  <2>2. CASE Manager
    BY <2>2, TLBMissResidentStep, TLBMissPageInStep, TLBMissOutsideStep,
       VM_FinishPageJobStep, VM_AllocRegionStep DEF Manager
  <2>3. CASE Reader
    BY <2>3, ReaderLoadStep, ReaderSkipStep DEF Reader
  <2>4. CASE ReaderLoaded
    BY <2>4, ReaderLoadedStep
  <2>5. CASE Restarted \/ UNCHANGED vars
    BY <2>5, Stutters DEF Restarted
  <2> QED
    BY <2>1, <2>2, <2>3, <2>4, <2>5 DEF Next
<1> QED
  BY <1>1, <1>2, PTL DEF Spec

(* Every variable keeps its type; in particular the pool of job blocks     *)
(* neither overflows nor goes below zero.                                  *)
THEOREM TypesHold == Spec => []TypeOK
<1>1. IInv => TypeOK
  BY DEF IInv
<1> QED
  BY <1>1, InvariantHolds, PTL

(* No thread reads a frame whose contents are not the page's.              *)
THEOREM TranslationIsCorrect == Spec => []TranslationCorrect
<1>1. IInv => TranslationCorrect
  <2> SUFFICES ASSUME IInv, NEW i \in TLBIndex
               PROVE  /\ hw[i].a # NoSlot => frame[hw[i].a] = hw[i].id
                      /\ hw[i].b # NoSlot => frame[hw[i].b] = hw[i].id + 1
    BY DEF TranslationCorrect
  <2>1. CASE i \in 0 .. FirstTLB - 1
    BY <2>1 DEF IInv, TLBAgrees, WiredEntry
  <2>2. CASE i \in FirstTLB .. NumTLB - 1
    <3>1. hw[i] = entries[i] /\ entries[i] \in Entry
      BY <2>2 DEF IInv, TLBAgrees, TypeOK
    <3>2. ASSUME NEW s \in Slots, tlb[s] = i
          PROVE  frame[s] = page[s]
      BY <3>2, Sentinels DEF IInv, ResidencyConsistent, FramesOK
    <3>3. /\ entries[i].a # NoSlot =>
               entries[i].a \in Slots /\ tlb[entries[i].a] = i /\ page[entries[i].a] = entries[i].id
          /\ entries[i].b # NoSlot =>
               entries[i].b \in Slots /\ tlb[entries[i].b] = i /\ page[entries[i].b] = entries[i].id + 1
      BY <3>1 DEF IInv, ResidencyConsistent, Entry
    <3> QED
      BY <3>1, <3>2, <3>3
  <2> QED
    BY <2>1, <2>2, Indices
<1> QED
  BY <1>1, InvariantHolds, PTL

(* Regions' maps, frames and TLB entries agree about residency.            *)
THEOREM ResidencyIsConsistent == Spec => []ResidencyConsistent
<1>1. IInv => ResidencyConsistent
  BY DEF IInv
<1> QED
  BY <1>1, InvariantHolds, PTL

(* A load the reader skipped is not needed when the manager tests again.   *)
THEOREM SkippedLoadsAreSafe == Spec => []SkippedLoadSafe
<1>1. IInv => SkippedLoadSafe
  BY DEF IInv, FramesOK
<1> QED
  BY <1>1, InvariantHolds, PTL

(* Jobs under way own their frames.                                        *)
THEOREM JobFramesAreExclusive == Spec => []JobFramesExclusive
<1>1. IInv => JobFramesExclusive
  BY DEF IInv, JobFramesExclusive, JobsOK, ResidencyConsistent
<1> QED
  BY <1>1, InvariantHolds, PTL

(* One word names the faulted thread, and no fault overwrites another's.   *)
THEOREM FaultsAreNotLost == Spec => []FaultNotLost
<1>1. IInv => FaultNotLost
  <2> SUFFICES ASSUME IInv  PROVE FaultNotLost
    OBVIOUS
  <2>1. completion # <<>> => 1 \in 1 .. Len(completion)
    BY EmptySeq DEF IInv, TypeOK
  <2>2. \A t \in Threads : thr[t] = "faulted" /\ ~restarted =>
          faultedThread = t /\ \E i \in 1 .. Len(completion) : completion[i].type = "fault"
    BY <2>1 DEF IInv, FaultsOK
  <2>3. \A i \in 1 .. Len(completion) : completion[i].type = "fault" =>
          Len(completion) = 1 /\ thr[faultedThread] = "faulted"
    BY DEF IInv, MessagesOK, MessageOK
  <2> QED
    BY <2>2, <2>3 DEF FaultNotLost
<1> QED
  BY <1>1, InvariantHolds, PTL

(* A fault finds a free job block: the manager, which alone returns them,  *)
(* never waits for one.                                                    *)
THEOREM TheManagerNeverBlocks == Spec => []ManagerNeverBlocks
<1>1. IInv => ManagerNeverBlocks
  <2> SUFFICES ASSUME IInv  PROVE ManagerNeverBlocks
    OBVIOUS
  <2>1. freeJobs + Cardinality(Flying) = NumJobs /\ freeJobs \in 0 .. NumJobs
    BY DEF IInv, JobsCounted, TypeOK
  <2>2. ASSUME FaultMessage  PROVE freeJobs > 0
    <3>1. faultedThread \in Threads /\ faultedThread \notin Flying
      BY <2>2, FaultAtHead DEF Flying, InFlight
    <3>2. IsFiniteSet(Threads) /\ Cardinality(Threads) <= NumJobs
      BY PagerAssumption
    <3> DEFINE rest == Threads \ {faultedThread}
    <3>3. IsFiniteSet(rest) /\ Cardinality(rest) = Cardinality(Threads) - 1
      BY <3>1, <3>2, FS_RemoveElement
    <3>4. Flying \in SUBSET rest
      BY <3>1 DEF Flying
    <3>5. Cardinality(Flying) <= Cardinality(rest)
      BY <3>3, <3>4, FS_Subset
    <3>6. Cardinality(Flying) \in Nat /\ Cardinality(Threads) \in Nat
      BY <3>2, FlyingFinite, FS_CardinalityType DEF IInv
    <3> HIDE DEF rest
    <3> QED
      BY <2>1, <3>2, <3>3, <3>5, <3>6, Counts
  <2> QED
    BY <2>1, <2>2 DEF ManagerNeverBlocks, Flying
<1> QED
  BY <1>1, InvariantHolds, PTL
----------------------------------------------------------------------------
(* The list of frames                                                      *)

(* A sequence without repetitions is as long as the set of what it holds.  *)
LEMMA LengthOfDistinct ==
  ASSUME NEW S, NEW q \in Seq(S), NoRepeats(q)
  PROVE  IsFiniteSet(Elements(q)) /\ Cardinality(Elements(q)) = Len(q)
<1>1. Len(q) \in Nat /\ q \in [1 .. Len(q) -> Elements(q)]
  BY DEF Elements
<1>2. q \in Bijection(1 .. Len(q), Elements(q))
  BY <1>1 DEF Bijection, Injection, Surjection, Elements, NoRepeats, IsInjective
<1>3. IsFiniteSet(1 .. Len(q)) /\ Cardinality(1 .. Len(q)) = Len(q)
  BY <1>1, FS_Interval
<1>4. ExistsBijection(1 .. Len(q), Elements(q))
  BY <1>2 DEF ExistsBijection
<1> QED
  BY <1>3, <1>4, FS_Bijection

(* The frames of jobs under way, one for each job at most.                 *)
LEMMA JobSlotsCounted ==
  ASSUME IInv
  PROVE  /\ IsFiniteSet(JobSlots) /\ Cardinality(JobSlots) \in Nat
         /\ Cardinality(JobSlots) <= Cardinality(Flying)
<1> DEFINE f == [t \in Flying |-> job[t].slot]
<1>1. IsFiniteSet(Flying)
  BY FlyingFinite DEF IInv
<1>2. f \in Surjection(Flying, JobSlots)
  BY DEF Surjection, JobSlots, Flying
<1>3. IsFiniteSet(JobSlots) /\ Cardinality(JobSlots) <= Cardinality(Flying)
  BY <1>1, <1>2, FS_Surjection
<1> QED
  BY <1>3, FS_CardinalityType

(* What is not on the list is in a job's hands.                            *)
LEMMA ChainLength ==
  ASSUME IInv
  PROVE  Len(chain) \in Nat /\ Len(chain) = NumSlots - Cardinality(JobSlots)
<1>1. chain \in Seq(Slots) /\ NoRepeats(chain) /\ Elements(chain) = Slots \ JobSlots
  BY DEF IInv, TypeOK, ChainOK, OnChain
<1>2. Len(chain) = Cardinality(Slots \ JobSlots) /\ Len(chain) \in Nat
  <2>1. Cardinality(Elements(chain)) = Len(chain)
    BY <1>1, LengthOfDistinct
  <2>2. Len(chain) \in Nat
    BY <1>1
  <2> QED
    BY <1>1, <2>1, <2>2
<1>3. IsFiniteSet(Slots) /\ Cardinality(Slots) = NumSlots
  BY Counts, FS_Interval DEF Slots
<1>4. Slots \cap JobSlots = JobSlots
  BY DEF IInv, JobsOK, JobSlots
<1>5. Cardinality(Slots \ JobSlots) = Cardinality(Slots) - Cardinality(Slots \cap JobSlots)
  BY <1>3, FS_Difference
<1> QED
  BY <1>2, <1>3, <1>4, <1>5

(* The list of frames is long enough for every unlink, however many jobs   *)
(* are under way.                                                          *)
THEOREM TheChainIsSound == Spec => []ChainSound
<1>1. IInv => ChainSound
  <2> SUFFICES ASSUME IInv  PROVE ChainSound
    OBVIOUS
  <2> DEFINE T == Cardinality(Threads)
             F == Cardinality(Flying)
  <2>1. IsFiniteSet(Threads) /\ T \in Nat /\ T <= NumJobs /\ T + 2 <= NumSlots
    BY Counts, FS_CardinalityType, PagerAssumption
  <2>2. F \in Nat /\ F <= T /\ (Flying # Threads => F < T)
    <3>1. F \in Nat /\ IsFiniteSet(Flying) /\ Flying \in SUBSET Threads
      BY FlyingFinite DEF IInv, Flying
    <3>2. F <= T /\ (F = T => Flying = Threads)
      BY <2>1, <3>1, FS_Subset
    <3> QED
      BY <2>1, <3>1, <3>2
  <2>3. Len(chain) \in Nat /\ Len(chain) >= NumSlots - F
    BY <2>2, ChainLength, JobSlotsCounted, Counts
  <2> HIDE DEF T, F
  <2>4. Len(chain) > NumSlots - T - 1 /\ Len(chain) >= 2 /\ (Flying # Threads => Len(chain) >= 3)
    BY <2>1, <2>2, <2>3, Counts
  <2>5. ASSUME ManagerReady, Head(completion).type # "page"
        PROVE  Flying # Threads
    <3>1. completion \in Seq(Message) /\ completion # <<>>
      BY <2>5 DEF IInv, TypeOK, ManagerReady
    <3>2. Head(completion) = completion[1] /\ 1 \in 1 .. Len(completion) /\ completion[1] \in Message
      BY <3>1, TailFacts
    <3>3. MessageOK(completion[1])
      BY <3>2 DEF IInv, MessagesOK
    <3> QED
      BY <2>5, <3>2, <3>3 DEF MessageOK, Message, Flying, InFlight
  <2>6. /\ \A i, j \in 1 .. Len(chain) : chain[i] = chain[j] => i = j
        /\ OnChain = Slots \ JobSlots
    BY DEF IInv, ChainOK, NoRepeats
  <2> QED
    BY <2>4, <2>5, <2>6 DEF ChainSound, T
<1> QED
  BY <1>1, InvariantHolds, PTL

----------------------------------------------------------------------------
(* The pager implements DemandPaging                                       *)

(* A thread that stopped for a page wants that page, also when its job is  *)
(* under way, and no other thread wants any.                               *)
WantOK ==
  \A t \in Threads :
    /\ thr[t] \in {"running", "allocating"} => want[t] = NoPage
    /\ InFlight(t) => want[t] = job[t].page

(* The region that is asked for, by the thread that waits for it.          *)
LEMMA RequestAtHead ==
  ASSUME IInv, ManagerReady, Head(completion).type = "alloc"
  PROVE  Head(completion).thread \in Threads /\ thr[Head(completion).thread] = "allocating"
<1>1. completion \in Seq(Message) /\ completion # <<>>
  BY DEF IInv, TypeOK, ManagerReady
<1>2. Head(completion) = completion[1] /\ 1 \in 1 .. Len(completion)
  BY <1>1, TailFacts
<1>3. MessageOK(completion[1])
  BY <1>2 DEF IInv, MessagesOK
<1> QED
  BY <1>2, <1>3 DEF MessageOK

LEMMA WantKept ==
  ASSUME IInv, WantOK, [Next]_vars  PROVE WantOK'
<1>1. OtherTypes
  BY TLBPart
<1>2. CASE Game
  <2>1. PICK t \in Threads :
          (\E p \in VPages : TLBFault(t, p)) \/ OtherFault(t) \/ (\E n \in 1 .. NumPages : VM_Alloc(t, n))
    BY <1>2 DEF Game
  <2>2. CASE \E p \in VPages : TLBFault(t, p)
    BY <1>1, <2>2 DEF TLBFault, OtherTypes, WantOK, InFlight
  <2>3. CASE OtherFault(t)
    BY <1>1, <2>3 DEF OtherFault, OtherTypes, WantOK, InFlight
  <2>4. CASE \E n \in 1 .. NumPages : VM_Alloc(t, n)
    BY <1>1, <2>4 DEF VM_Alloc, OtherTypes, WantOK, InFlight
  <2> QED
    BY <2>1, <2>2, <2>3, <2>4
<1>3. CASE TLBMissResident
  <2>1. faultedThread \in Threads
    BY <1>3, FaultAtHead DEF TLBMissResident
  <2> QED
    BY <1>1, <1>3, <2>1 DEF TLBMissResident, Resume, OtherTypes, WantOK, InFlight
<1>4. CASE TLBMissPageIn
  <2>1. faultedThread \in Threads
    BY <1>4, FaultAtHead DEF TLBMissPageIn
  <2> QED
    BY <1>1, <1>4, <2>1 DEF TLBMissPageIn, OtherTypes, WantOK, InFlight
<1>5. CASE TLBMissOutside
  BY <1>5 DEF TLBMissOutside, WantOK, InFlight
<1>6. CASE VM_FinishPageJob
  <2>1. Head(completion).thread \in Threads
    BY <1>6, JobAtHead DEF VM_FinishPageJob
  <2> QED
    BY <1>1, <1>6, <2>1 DEF VM_FinishPageJob, Resume, ReturnJob, OtherTypes, WantOK, InFlight
<1>7. CASE VM_AllocRegion
  <2>1. PICK t \in Threads : thr[t] = "allocating" /\ thr' = [thr EXCEPT ![t] = "running"]
    BY <1>7, RequestAtHead DEF VM_AllocRegion
  <2> QED
    BY <1>1, <1>7, <2>1 DEF VM_AllocRegion, OtherTypes, WantOK, InFlight
<1>8. CASE Reader \/ ReaderLoaded
  BY <1>8 DEF Reader, ReaderLoad, ReaderSkip, ReaderLoaded, WantOK, InFlight
<1>9. CASE Restarted \/ UNCHANGED vars
  BY <1>9 DEF Restarted, vars, WantOK, InFlight
<1> QED
  BY <1>2, <1>3, <1>4, <1>5, <1>6, <1>7, <1>8, <1>9 DEF Next, Manager

(* Wired pages never fault, so that they are never paged in.               *)
WiredKept ==
  \A p \in WiredPages : map[p] = NoSlot /\ \A t \in Threads : want[t] # p

(* Without the expansion pak there is no wired entry and no wired page, and *)
(* with it entry 0 is the wired one.                                       *)
LEMMA WiredEntries ==
  /\ WiredPages \subseteq VPages
  /\ WiredPages # {} => 0 \in 0 .. FirstTLB - 1
  /\ \A i \in 0 .. FirstTLB - 1 : i = 0
  /\ \A p \in VPages : EvenPage(p) \in WiredPages <=> p \in WiredPages
<1>1. /\ FirstTLB \in 0 .. 1 /\ NumPages \in Nat
      /\ FirstRegionPages \in 2 .. NumPages /\ FirstRegionPages % 2 = 0
  BY PagerAssumption
<1>2. ASSUME NEW p \in VPages
      PROVE  EvenPage(p) \in 0 .. FirstRegionPages - 1 <=> p \in 0 .. FirstRegionPages - 1
  <2>1. p \in Nat /\ (p % 2 = 0 \/ p % 2 = 1)
    BY DEF VPages
  <2> QED
    BY <1>1, <2>1 DEF EvenPage
<1> QED
  BY <1>1, <1>2 DEF WiredPages, VPages

(* What the wired entry and the others match.                              *)
LEMMA WhatMatches ==
  ASSUME IInv
  PROVE  /\ \A i \in 0 .. FirstTLB - 1 : hw[i] = WiredEntry /\ Matches(i) = WiredPages
         /\ \A i \in FirstTLB .. NumTLB - 1 :
              /\ hw[i] = entries[i] /\ hw[i] # WiredEntry
              /\ hw[i].id = NoPage => Matches(i) = {}
              /\ hw[i].id # NoPage => /\ hw[i].id \in VPages /\ hw[i].id % 2 = 0
                                      /\ Matches(i) = {hw[i].id, hw[i].id + 1}
<1>1. TLBAgrees /\ EntriesOK
  BY DEF IInv
<1>2. ASSUME NEW i \in 0 .. FirstTLB - 1
      PROVE  hw[i] = WiredEntry /\ Matches(i) = WiredPages
  BY <1>1, Sentinels DEF TLBAgrees, WiredEntry, Matches
<1>3. ASSUME NEW i \in FirstTLB .. NumTLB - 1
      PROVE  /\ hw[i] = entries[i] /\ hw[i] # WiredEntry
             /\ hw[i].id = NoPage => Matches(i) = {}
             /\ hw[i].id # NoPage => /\ hw[i].id \in VPages /\ hw[i].id % 2 = 0
                                     /\ Matches(i) = {hw[i].id, hw[i].id + 1}
  <2>1. i \in TLBIndex /\ hw[i] = entries[i]
    BY <1>1, Indices DEF TLBAgrees
  <2>2. hw[i].id # NoPage => hw[i].id \in VPages /\ hw[i].id % 2 = 0
    BY <1>1, <2>1 DEF EntriesOK
  <2>3. hw[i].id # WiredId
    BY <2>2, Sentinels
  <2> QED
    BY <2>1, <2>2, <2>3 DEF WiredEntry, Matches
<1> QED
  BY <1>2, <1>3

(* The TLB translates the wired pages and those whose frames have an entry. *)
LEMMA VisibleMapped ==
  ASSUME IInv, NEW p \in VPages
  PROVE  Visible(p) <=> Mapped(map[p]) \/ p \in WiredPages
<1>1. /\ TLBTypes /\ ResidencyConsistent /\ EntriesOK /\ TLBAgrees
      /\ EvenPage(p) \in VPages
      /\ p % 2 = 0 => EvenPage(p) = p
      /\ p % 2 # 0 => EvenPage(p) + 1 = p
  BY TLBPart, Pairs DEF TLBInv
<1>2. ASSUME NEW e \in VPages, e % 2 = 0
      PROVE  p \in {e, e + 1} <=> e = EvenPage(p)
  <2>1. p \in Nat /\ e \in Nat /\ (p % 2 = 0 \/ p % 2 = 1)
    BY DEF VPages
  <2> QED
    BY <1>2, <2>1 DEF EvenPage
<1>3. ASSUME Visible(p), p \notin WiredPages PROVE Mapped(map[p])
  <2>1. PICK i \in TLBIndex :
          /\ p \in Matches(i)
          /\ hw[i] = WiredEntry \/ (IF p % 2 = 0 THEN hw[i].a ELSE hw[i].b) # NoSlot
    BY <1>3 DEF Visible
  <2> DEFINE s == IF p % 2 = 0 THEN hw[i].a ELSE hw[i].b
  <2>2. i \in FirstTLB .. NumTLB - 1
    BY <1>3, <2>1, WhatMatches, Indices
  <2>3. hw[i] = entries[i] /\ entries[i] \in Entry /\ hw[i].id = EvenPage(p) /\ s # NoSlot
    BY <1>1, <1>2, <2>1, <2>2, WhatMatches DEF TLBTypes
  <2>4. s \in Slots /\ tlb[s] = i /\ page[s] = p
    BY <1>1, <2>1, <2>3 DEF ResidencyConsistent, Entry
  <2>5. map[p] = s /\ tlb[s] # NoTLB
    BY <1>1, <2>4, Sentinels DEF ResidencyConsistent
  <2> QED
    BY <2>4, <2>5, Sentinels DEF Mapped
<1>4. ASSUME Mapped(map[p]) PROVE Visible(p)
  <2> DEFINE s == map[p]
             i == tlb[s]
  <2>1. s \in Slots /\ s # NoSlot /\ i \in TLBIndex /\ page[s] = p
    BY <1>1, <1>4 DEF Mapped, TLBTypes, ResidencyConsistent
  <2>2. /\ entries[i].id = EvenPage(p)
        /\ s = IF p % 2 = 0 THEN entries[i].a ELSE entries[i].b
    BY <1>1, <1>4, <2>1 DEF Mapped, ResidencyConsistent
  <2>3. i \in FirstTLB .. NumTLB - 1
    BY <1>1, <2>1, <2>2, Indices, Sentinels DEF EntriesOK, EmptyEntry
  <2>4. hw[i] = entries[i]
    BY <1>1, <2>3 DEF TLBAgrees
  <2>5. p \in Matches(i)
    BY <1>1, <1>2, <2>2, <2>3, <2>4, WhatMatches, Sentinels
  <2> QED
    BY <2>1, <2>2, <2>4, <2>5 DEF Visible
<1>5. ASSUME p \in WiredPages PROVE Visible(p)
  <2>1. 0 \in 0 .. FirstTLB - 1 /\ 0 \in TLBIndex
    BY <1>5, WiredEntries, Indices
  <2>2. hw[0] = WiredEntry /\ Matches(0) = WiredPages
    BY <2>1, WhatMatches
  <2> QED
    BY <1>5, <2>1, <2>2 DEF Visible
<1> QED
  BY <1>3, <1>4, <1>5

(* A page that is mapped is not a wired one: only a fault has a page       *)
(* mapped, and the wired pages never fault.                                *)
LEMMA WiredPagesKept ==
  ASSUME IInv, WantOK, WiredKept, [Next]_vars  PROVE WiredKept'
<1>0. OtherTypes /\ TLBTypes
  BY TLBPart DEF TLBInv
<1>1. ASSUME NEW t \in Threads, want' = [want EXCEPT ![t] = NoPage], map' = map  PROVE WiredKept'
  <2>1. NoPage \notin WiredPages
    BY WiredEntries, Sentinels
  <2>2. ASSUME NEW p \in WiredPages  PROVE map'[p] = NoSlot
    BY <1>1 DEF WiredKept
  <2>3. ASSUME NEW p \in WiredPages, NEW u \in Threads  PROVE want'[u] # p
    BY <1>1, <1>0, <2>1 DEF WiredKept, OtherTypes
  <2>4. \A p \in WiredPages : map'[p] = NoSlot /\ \A u \in Threads : want'[u] # p
    BY <2>2, <2>3
  <2> QED
    BY <2>4 DEF WiredKept, WiredPages
<1>2. CASE Game
  <2>1. PICK t \in Threads :
          (\E p \in VPages : TLBFault(t, p)) \/ OtherFault(t) \/ (\E n \in 1 .. NumPages : VM_Alloc(t, n))
    BY <1>2 DEF Game
  <2>2. ASSUME NEW p \in VPages, TLBFault(t, p)  PROVE WiredKept'
    <3>1. p \notin WiredPages
      BY <2>2, VisibleMapped DEF TLBFault
    <3>2. want' = [want EXCEPT ![t] = p] /\ map' = map
      BY <2>2 DEF TLBFault, tlbVars
    <3> QED
      BY <1>0, <3>1, <3>2 DEF WiredKept, WiredPages, OtherTypes
  <2>3. CASE OtherFault(t)
    BY <1>1, <2>3 DEF OtherFault, tlbVars
  <2>4. CASE \E n \in 1 .. NumPages : VM_Alloc(t, n)
    BY <2>4 DEF VM_Alloc, tlbVars, WiredKept, WiredPages
  <2> QED
    BY <2>1, <2>2, <2>3, <2>4
<1>3. ASSUME NEW t \in Threads, Resume(t), map' = map  PROVE WiredKept'
  BY <1>1, <1>3 DEF Resume
<1>4. ASSUME NEW t \in Threads, NEW s \in Slots, Resume(t), VM_MapTLBEntry(want[t], s)  PROVE WiredKept'
  <2>1. map' = [map EXCEPT ![want[t]] = s] /\ want[t] \notin WiredPages
    BY <1>4 DEF VM_MapTLBEntry, Install, WiredKept
  <2> QED
    BY <1>0, <1>4, <2>1, WiredEntries, Sentinels DEF Resume, OtherTypes, TLBTypes, WiredKept, WiredPages
<1>5. CASE TLBMissResident
  <2>1. faultedThread \in Threads /\ want[faultedThread] \in VPages
    BY <1>5, FaultAtHead, WantedInRegion DEF TLBMissResident
  <2>2. map[want[faultedThread]] \in Slots
    BY <1>0, <1>5, <2>1 DEF TLBMissResident, TLBTypes
  <2> QED
    BY <1>3, <1>4, <1>5, <2>1, <2>2 DEF TLBMissResident, tlbVars
<1>6. CASE TLBMissPageIn
  <2>1. ForgetPage(Head(chain)) /\ want' = want
    BY <1>6 DEF TLBMissPageIn
  <2>2. \A p \in VPages : map'[p] = map[p] \/ map'[p] = NoSlot
    BY <1>0, <2>1 DEF ForgetPage, TLBTypes
  <2> QED
    BY <2>1, <2>2, WiredEntries DEF WiredKept, WiredPages
<1>7. CASE TLBMissOutside
  BY <1>7 DEF TLBMissOutside, tlbVars, WiredKept, WiredPages
<1>8. CASE VM_FinishPageJob
  <2> DEFINE t == Head(completion).thread
  <2>1. t \in Threads /\ InFlight(t)
    BY <1>8, JobAtHead DEF VM_FinishPageJob
  <2>2. job[t].slot \in Slots /\ job[t].page = want[t]
    BY <2>1 DEF IInv, JobsOK, WantOK
  <2>3. Resume(t) /\ (map' = map \/ VM_MapTLBEntry(job[t].page, job[t].slot))
    BY <1>8 DEF VM_FinishPageJob, tlbVars
  <2> QED
    BY <1>3, <1>4, <2>1, <2>2, <2>3
<1>9. CASE VM_AllocRegion
  <2>1. want' = want /\ \A p \in VPages : map'[p] = map[p] \/ map'[p] = NoSlot
    BY <1>9 DEF VM_AllocRegion
  <2> QED
    BY <2>1, WiredEntries DEF WiredKept, WiredPages
<1>10. CASE Reader \/ ReaderLoaded
  BY <1>10 DEF Reader, ReaderLoad, ReaderSkip, ReaderLoaded, tlbVars, WiredKept, WiredPages
<1>11. CASE Restarted \/ UNCHANGED vars
  BY <1>11 DEF Restarted, vars, tlbVars, WiredKept, WiredPages
<1> QED
  BY <1>2, <1>5, <1>6, <1>7, <1>8, <1>9, <1>10, <1>11 DEF Next, Manager

(* WantOK and WiredKept hold in every reachable state.                     *)
LEMMA WantsHold == Spec => [](WantOK /\ WiredKept)
<1>1. Init => WantOK /\ WiredKept
  BY WiredEntries, Sentinels DEF Init, WantOK, InFlight, WiredKept
<1>2. IInv /\ (WantOK /\ WiredKept) /\ [Next]_vars => (WantOK /\ WiredKept)'
  BY WantKept, WiredPagesKept
<1> QED
  BY <1>1, <1>2, InvariantHolds, PTL DEF Spec

(* The TLB never matches a page twice, and its wired entry is kept.        *)
THEOREM TLBIsCoherent == Spec => []TLBCoherent
<1>1. ASSUME IInv, WiredKept  PROVE TLBCoherent
  <2>1. ASSUME NEW i \in FirstTLB .. NumTLB - 1, hw[i].id # NoPage
        PROVE  hw[i].id \notin WiredPages /\ hw[i].id + 1 \notin WiredPages
    <3> DEFINE e == hw[i].id
    <3>1. /\ e \in VPages /\ e % 2 = 0 /\ hw[i] = entries[i] /\ entries[i].id # NoPage
          /\ i \in TLBIndex
      BY <1>1, <2>1, WhatMatches, Indices
    <3>2. EvenPage(e) = e /\ e + 1 \in VPages /\ EvenPage(e + 1) = e
      BY <3>1, PagerAssumption DEF VPages, EvenPage
    <3>3. entries[i].a # NoSlot \/ entries[i].b # NoSlot
      BY <1>1, <3>1 DEF IInv, EntriesOK
    <3>4. entries[i].a \in Slots \cup {NoSlot} /\ entries[i].b \in Slots \cup {NoSlot}
      BY <1>1, <3>1 DEF IInv, TypeOK, Entry
    <3>5. \/ entries[i].a \in Slots /\ page[entries[i].a] = e
          \/ entries[i].b \in Slots /\ page[entries[i].b] = e + 1
      BY <1>1, <3>1, <3>3, <3>4 DEF IInv, ResidencyConsistent
    <3>6. map[e] # NoSlot \/ map[e + 1] # NoSlot
      BY <1>1, <3>1, <3>2, <3>5, Sentinels DEF IInv, ResidencyConsistent
    <3>7. e \notin WiredPages \/ e + 1 \notin WiredPages
      BY <1>1, <3>6 DEF WiredKept
    <3> QED
      BY <3>1, <3>2, <3>7, WiredEntries
  <2>2. ASSUME NEW i \in FirstTLB .. NumTLB - 1, NEW j \in 0 .. FirstTLB - 1
        PROVE  Matches(i) \cap Matches(j) = {}
    BY <1>1, <2>1, WhatMatches
  <2>3. ASSUME NEW i \in FirstTLB .. NumTLB - 1, NEW j \in FirstTLB .. NumTLB - 1, i # j
        PROVE  Matches(i) \cap Matches(j) = {}
    <3>1. CASE hw[i].id = NoPage \/ hw[j].id = NoPage
      BY <1>1, <3>1, WhatMatches
    <3>2. CASE hw[i].id # NoPage /\ hw[j].id # NoPage
      <4>1. hw[i].id # hw[j].id
        BY <1>1, <2>3, <3>2, WhatMatches, Indices DEF IInv, EntriesOK
      <4>2. /\ hw[i].id \in Nat /\ hw[i].id % 2 = 0 /\ Matches(i) = {hw[i].id, hw[i].id + 1}
            /\ hw[j].id \in Nat /\ hw[j].id % 2 = 0 /\ Matches(j) = {hw[j].id, hw[j].id + 1}
        BY <1>1, <3>2, WhatMatches DEF VPages
      <4> QED
        BY <4>1, <4>2
    <3> QED
      BY <3>1, <3>2
  <2>4. ASSUME NEW i \in TLBIndex, NEW j \in TLBIndex, i # j
        PROVE  Matches(i) \cap Matches(j) = {}
    BY <2>2, <2>3, <2>4, Indices, WiredEntries
  <2> QED
    BY <1>1, <2>4, WhatMatches DEF TLBCoherent
<1> QED
  BY <1>1, InvariantHolds, WantsHold, PTL

Resident == {p \in VPages : map[p] # NoSlot}
Seen     == {p \in VPages : Visible(p)}

SeenMapped == Seen = {p \in VPages : Mapped(map[p]) \/ p \in WiredPages}
SeenInMemory == Seen \subseteq Resident \cup WiredPages /\ Cardinality(Resident) <= NumSlots

LEMMA SeenAreMapped == ASSUME IInv PROVE SeenMapped
BY VisibleMapped DEF SeenMapped, Seen

(* Resident pages have frames of their own.                                *)
LEMMA ResidentFits == ASSUME IInv PROVE SeenInMemory
<1> DEFINE f == [p \in Resident |-> map[p]]
<1>1. IsFiniteSet(Slots) /\ Cardinality(Slots) = NumSlots
  BY Counts, FS_Interval DEF Slots
<1>2. f \in [Resident -> Slots]
  BY DEF Resident, IInv, TypeOK
<1>3. ASSUME NEW p \in Resident, NEW q \in Resident, f[p] = f[q]
      PROVE  p = q
  BY <1>3 DEF Resident, IInv, ResidencyConsistent
<1>4. f \in Injection(Resident, Slots)
  BY <1>2, <1>3 DEF Injection, IsInjective
<1> HIDE DEF f
<1>5. Cardinality(Resident) <= NumSlots
  BY <1>1, <1>4, FS_Injection
<1>6. Seen \subseteq Resident \cup WiredPages
  BY SeenAreMapped DEF SeenMapped, Resident, Mapped
<1> QED
  BY <1>5, <1>6 DEF SeenInMemory

(* A thread runs again with its page in memory.                            *)
LEMMA Serves ==
  ASSUME SeenInMemory', SeenMapped, NEW t \in Threads, want[t] \in VPages, ~restarted, UNCHANGED restarted,
         want' = [want EXCEPT ![t] = NoPage],
         Resident' = Resident \cup {want[t]},
         \/ Seen' = Seen /\ want[t] \in Resident
         \/ want[t] \in Seen'
  PROVE  Abstract!Serve(t)
<1>1. Cardinality(Resident') <= NumSlots /\ Seen' \subseteq Resident' \cup WiredPages
  BY DEF SeenInMemory, WiredPages
<1>2. WiredPages \subseteq Seen
  BY WiredEntries DEF SeenMapped
<1>3. want[t] # NoPage
  BY Sentinels
<1>4. Seen' \subseteq Seen \cup {want[t]} \cup Resident
  BY <1>1, <1>2
<1>5. Abstract!Cardinality(Resident') = Cardinality(Resident')
  BY DEF Abstract!Cardinality, Cardinality
<1> QED
  BY <1>1, <1>3, <1>4, <1>5 DEF Abstract!Serve, Resident, Seen

(* What VM_MapTLBEntry does to residency.                                  *)
LEMMA MapsIn ==
  ASSUME IInv, SeenMapped', NEW p \in VPages, NEW s \in Slots, VM_MapTLBEntry(p, s)
  PROVE  Resident' = Resident \cup {p} /\ p \in Seen'
<1>1. map' = [map EXCEPT ![p] = s] /\ tlb'[s] # NoTLB /\ s # NoSlot
  <2>1. map' = [map EXCEPT ![p] = s]
    BY DEF VM_MapTLBEntry, Install
  <2>2. cur \in TLBIndex /\ NoTLB \notin TLBIndex
    BY Indices, Sentinels DEF IInv, TypeOK
  <2>3. tlb'[s] # NoTLB
    BY <2>2 DEF VM_MapTLBEntry, Joins, Mapped
  <2> QED
    BY <2>1, <2>3, Sentinels
<1>2. map'[p] = s /\ Resident' = Resident \cup {p}
  BY <1>1 DEF Resident, IInv, TypeOK
<1>3. Mapped(map[p])'
  BY <1>1, <1>2 DEF Mapped
<1> QED
  BY <1>2, <1>3 DEF SeenMapped

LEMMA Stays ==
  ASSUME UNCHANGED <<tlbVars, want, restarted>>
  PROVE  UNCHANGED Abstract!vars
BY DEF tlbVars, Abstract!vars, Visible, Matches

LEMMA GameSimulated ==
  ASSUME IInv, WantOK, Game
  PROVE  [Abstract!Next]_(Abstract!vars)
<1>1. ~restarted /\ want \in [Threads -> VPages \cup {NoPage}]
  BY DEF Game, TLBFault, OtherFault, VM_Alloc, GameMayRun, IInv, TypeOK
<1>2. PICK t \in Threads :
        (\E p \in VPages : TLBFault(t, p)) \/ OtherFault(t) \/ (\E n \in 1 .. NumPages : VM_Alloc(t, n))
  BY DEF Game
<1>3. CASE \E p \in VPages : TLBFault(t, p)
  <2>1. PICK p \in VPages : TLBFault(t, p)
    BY <1>3
  <2>2. want[t] = NoPage /\ p \notin Seen /\ want' = [want EXCEPT ![t] = p]
        /\ UNCHANGED <<tlbVars, restarted>>
    BY <2>1 DEF TLBFault, WantOK, Seen
  <2>3. Abstract!Touch(t, p)
    BY <1>1, <2>2 DEF Abstract!Touch, Seen, tlbVars, Visible, Matches
  <2> QED
    BY <2>3 DEF Abstract!Next
<1>4. CASE OtherFault(t)
  <2>1. want[t] = NoPage /\ want' = [want EXCEPT ![t] = NoPage]
        /\ UNCHANGED <<tlbVars, restarted>>
    BY <1>4 DEF OtherFault, WantOK
  <2> QED
    BY <1>1, <2>1, Stays
<1>5. CASE \E n \in 1 .. NumPages : VM_Alloc(t, n)
  BY <1>5, Stays DEF VM_Alloc
<1> QED
  BY <1>2, <1>3, <1>4, <1>5

LEMMA ResidentSimulated ==
  ASSUME IInv, SeenMapped, SeenMapped', SeenInMemory', TLBMissResident
  PROVE  Abstract!Next
<1> DEFINE t == faultedThread
           p == want[t]
           s == map[p]
<1>1. t \in Threads /\ p \in VPages /\ s # NoSlot /\ ~restarted /\ UNCHANGED restarted
      /\ want' = [want EXCEPT ![t] = NoPage]
      /\ IF tlb[s] = NoTLB THEN VM_MapTLBEntry(p, s) ELSE UNCHANGED tlbVars
  BY FaultAtHead, WantedInRegion DEF TLBMissResident, Resume
<1>2. s \in Slots
  BY <1>1 DEF IInv, TypeOK
<1>3. CASE tlb[s] = NoTLB
  <2>1. Resident' = Resident \cup {p} /\ p \in Seen'
    BY <1>1, <1>2, <1>3, MapsIn
  <2> QED
    BY <1>1, <2>1, Serves DEF Abstract!Next
<1>4. CASE tlb[s] # NoTLB
  <2>1. Seen' = Seen /\ Resident' = Resident /\ p \in Resident
    BY <1>1, <1>4 DEF tlbVars, Seen, Resident, Visible, Matches
  <2> QED
    BY <1>1, <2>1, Serves DEF Abstract!Next
<1> QED
  BY <1>3, <1>4

LEMMA FinishSimulated ==
  ASSUME IInv, SeenMapped, SeenMapped', SeenInMemory', WantOK, VM_FinishPageJob
  PROVE  Abstract!Next
<1> DEFINE t == Head(completion).thread
           p == job[t].page
           s == job[t].slot
<1>1. t \in Threads /\ InFlight(t) /\ ~restarted /\ UNCHANGED restarted
      /\ want' = [want EXCEPT ![t] = NoPage]
      /\ IF map[p] = NoSlot THEN VM_MapTLBEntry(p, s) ELSE UNCHANGED tlbVars
  BY JobAtHead DEF VM_FinishPageJob, Resume
<1> HIDE DEF t
<1>2. p \in VPages /\ s \in Slots /\ want[t] = p
  BY <1>1 DEF IInv, JobsOK, WantOK
<1>3. CASE map[p] = NoSlot
  <2>1. Resident' = Resident \cup {p} /\ p \in Seen'
    BY <1>1, <1>2, <1>3, MapsIn
  <2> QED
    BY <1>1, <1>2, <2>1, Serves DEF Abstract!Next
<1>4. CASE map[p] # NoSlot
  <2>1. Seen' = Seen /\ Resident' = Resident /\ p \in Resident
    BY <1>1, <1>2, <1>4 DEF tlbVars, Seen, Resident, Visible, Matches
  <2> QED
    BY <1>1, <1>2, <2>1, Serves DEF Abstract!Next
<1> QED
  BY <1>3, <1>4

(* A frame taken for a job gives up the page it holds.                     *)
LEMMA PageInSimulated ==
  ASSUME IInv, WiredKept, SeenMapped', TLBMissPageIn
  PROVE  [Abstract!Next]_(Abstract!vars)
<1> DEFINE s == Head(chain)
<1>1. ~restarted /\ UNCHANGED <<want, restarted>> /\ VM_UnmapTLBEntry(s) /\ ForgetPage(s)
  BY FaultAtHead DEF TLBMissPageIn
<1>2. s \in Slots
  BY FrameToTake, TailFacts DEF IInv, TypeOK
<1> HIDE DEF s
<1>3. /\ tlb \in [Slots -> TLBIndex \cup {NoTLB}]
      /\ map \in [VPages -> Slots \cup {NoSlot}] /\ page[s] \in VPages \cup {NoPage}
      /\ ResidencyConsistent
  BY <1>2 DEF IInv, TypeOK
<1>4. tlb'[s] = NoTLB /\ \A f \in Slots : f # s => tlb'[f] = tlb[f]
  BY <1>1, <1>2, <1>3 DEF VM_UnmapTLBEntry
<1>5. CASE page[s] = NoPage
  <2>1. tlb[s] = NoTLB /\ UNCHANGED <<map, hw>>
    BY <1>1, <1>2, <1>3, <1>5 DEF VM_UnmapTLBEntry, ForgetPage, ResidencyConsistent
  <2> QED
    BY <1>1, <2>1 DEF Abstract!vars, Visible, Matches
<1>6. CASE page[s] # NoPage
  <2>1. PICK q \in VPages : q = page[s] /\ map[q] = s /\ map' = [map EXCEPT ![q] = NoSlot] /\ s # NoSlot
    BY <1>1, <1>2, <1>3, <1>6, Sentinels DEF ForgetPage, ResidencyConsistent
  <2>2. q \in Resident /\ Resident' = Resident \ {q}
    BY <1>3, <2>1 DEF Resident
  <2>3. \A p \in VPages : p # q => map[p] # s
    BY <1>2, <1>3, <2>1 DEF ResidencyConsistent
  <2>4. \A p \in VPages : Mapped(map[p])' <=> (p # q /\ Mapped(map[p]))
    BY <1>3, <1>4, <2>1, <2>3 DEF Mapped
  <2>5. q \notin WiredPages
    BY <2>1 DEF WiredKept
  <2>6. Seen' = Seen \ {q}
    BY <2>4, <2>5, SeenAreMapped DEF SeenMapped, WiredPages
  <2>7. Abstract!PageOut(q)
    BY <1>1, <2>1, <2>2, <2>6 DEF Abstract!PageOut, Resident, Seen
  <2> QED
    BY <2>7 DEF Abstract!Next
<1> QED
  BY <1>5, <1>6

(* No page of a new region was in memory.                                  *)
LEMMA AllocSimulated ==
  ASSUME IInv, VM_AllocRegion
  PROVE  UNCHANGED Abstract!vars
<1>1. UNCHANGED <<want, restarted, hw>>
  BY DEF VM_AllocRegion
<1>2. \A p \in VPages : map[p] # NoSlot => p < RegionEnd
  BY DEF IInv, RegionsOK
<1>3. RegionEnd \in Nat
  <2>1. regions \in Seq([start : VPages, pages : 1 .. NumPages]) /\ Len(regions) > 0
    BY DEF IInv, TypeOK, RegionsOK
  <2>2. Len(regions) \in 1 .. Len(regions)
    BY <2>1
  <2>3. regions[Len(regions)] \in [start : VPages, pages : 1 .. NumPages]
    BY <2>1, <2>2, ElementOfSeq
  <2> QED
    BY <2>3, PagerAssumption DEF VPages, RegionEnd
<1>4. RegionStart \in Nat /\ RegionStart >= RegionEnd
  BY <1>3 DEF RegionStart, RegionEnd
<1>5. \A p \in VPages : map'[p] = map[p]
  <2> SUFFICES ASSUME NEW p \in VPages, p >= RegionStart PROVE map[p] = NoSlot
    BY DEF VM_AllocRegion
  <2> QED
    BY <1>2, <1>3, <1>4 DEF VPages
<1> QED
  BY <1>1, <1>5 DEF Abstract!vars, Visible, Matches

(* What the pager's threads see of it is demand paging in NumSlots frames. *)
THEOREM PagerImplementsDemandPaging == Spec => ImplementsDemandPaging
<1>1. Init => WantOK /\ Abstract!Init
  <2> SUFFICES ASSUME Init PROVE WantOK /\ Abstract!Init
    OBVIOUS
  <2>1. IInv
    BY Initially
  <2>2. Resident = {}
    BY DEF Init, Resident
  <2>3. Seen = WiredPages
    BY <2>1, <2>2, SeenAreMapped, WiredEntries DEF SeenMapped, Resident, Mapped
  <2> QED
    BY <2>2, <2>3 DEF Init, WantOK, InFlight, Abstract!Init, Resident, Seen
<1>2. Spec => [](WantOK /\ WiredKept)
  BY WantsHold
<1>3. IInv => SeenMapped /\ SeenInMemory
  BY SeenAreMapped, ResidentFits
<1>4. IInv /\ SeenMapped /\ (SeenMapped /\ SeenInMemory)' /\ (WantOK /\ WiredKept) /\ [Next]_vars => [Abstract!Next]_(Abstract!vars)
  <2> SUFFICES ASSUME IInv, SeenMapped, SeenMapped', SeenInMemory', WantOK, WiredKept, [Next]_vars
               PROVE [Abstract!Next]_(Abstract!vars)
    OBVIOUS
  <2>1. CASE Game
    BY <2>1, GameSimulated
  <2>2. CASE TLBMissResident
    BY <2>2, ResidentSimulated
  <2>3. CASE TLBMissPageIn
    BY <2>3, PageInSimulated
  <2>4. CASE TLBMissOutside
    <3>1. Abstract!Halt
      <4>1. ~restarted
        BY <2>4, FaultAtHead DEF TLBMissOutside
      <4> QED
        BY <2>4, <4>1 DEF TLBMissOutside, Abstract!Halt, tlbVars, Visible, Matches
    <3> QED
      BY <3>1 DEF Abstract!Next
  <2>5. CASE VM_FinishPageJob
    BY <2>5, FinishSimulated
  <2>6. CASE VM_AllocRegion
    BY <2>6, AllocSimulated
  <2>7. CASE Reader \/ ReaderLoaded
    BY <2>7, Stays DEF Reader, ReaderLoad, ReaderSkip, ReaderLoaded
  <2>8. CASE Restarted \/ UNCHANGED vars
    BY <2>8, Stays DEF Restarted, vars, tlbVars
  <2> QED
    BY <2>1, <2>2, <2>3, <2>4, <2>5, <2>6, <2>7, <2>8 DEF Next, Manager
<1> QED
  BY <1>1, <1>2, <1>3, <1>4, InvariantHolds, PTL DEF Spec, ImplementsDemandPaging, Abstract!Spec
============================================================================
