---------------------------- MODULE Ingest_proofs ----------------------------
(***************************************************************************)
(* Safety of the ingest core for any number of connections, contracts and  *)
(* events, any flush threshold and any queue depth.                        *)
(***************************************************************************)
EXTENDS Ingest, FiniteSetTheorems, TLAPS

-----------------------------------------------------------------------------
(* Identity: rows, ids and placeholders.                                   *)

Placeholders(n) == {-k : k \in 1..n}

RowsInv ==
  /\ IsChain(chain) /\ nextSyn \in Nat
  /\ ~known => DOMAIN chain = {}

\* An id is the exchange's or a placeholder already given out.
IdRange ==
  /\ \A i \in DOMAIN chain : chain[i].id \in RealIds \cup Placeholders(nextSyn)
  /\ DOMAIN issued \subseteq Placeholders(nextSyn)

IdInv == RowsInv /\ IdRange /\ IndexInverse /\ PlaceholderForever

idVars == <<known, chain, byCon, nextSyn, issued>>

LEMMA IdFrame ==
  ASSUME IdInv, UNCHANGED idVars PROVE IdInv'
BY DEF IdInv, idVars, RowsInv, IsChain, IdRange, IndexInverse, PlaceholderForever, Ids

LEMMA NotBoth == \A n \in Nat : RealIds \cap Placeholders(n) = {}
BY IngestAssumption DEF Placeholders

LEMMA PlaceholdersGrow ==
  ASSUME NEW m \in Nat, NEW n \in Nat, m <= n
  PROVE  Placeholders(m) \subseteq Placeholders(n)
BY DEF Placeholders

\* The index of a chain whose ids are distinct is their inverse.
LEMMA RowOfInverse ==
  ASSUME NEW ch, \A i, j \in DOMAIN ch : ch[i].id = ch[j].id => i = j
  PROVE  /\ DOMAIN RowOf(ch) = Ids(ch)
         /\ \A i \in DOMAIN ch : RowOf(ch)[ch[i].id] = i
<1>1. DOMAIN RowOf(ch) = Ids(ch) BY DEF RowOf
<1>2. ASSUME NEW i \in DOMAIN ch PROVE RowOf(ch)[ch[i].id] = i
  <2>1. ch[i].id \in Ids(ch) BY DEF Ids
  <2>2. RowOf(ch)[ch[i].id] = CHOOSE j \in DOMAIN ch : ch[j].id = ch[i].id
    BY <2>1 DEF RowOf
  <2> QED BY <2>2
<1> QED BY <1>1, <1>2

\* Distinct ids, from the index.
LEMMA IdsDistinct ==
  ASSUME IndexInverse PROVE \A i, j \in DOMAIN chain : chain[i].id = chain[j].id => i = j
BY DEF IndexInverse

LEMMA BareCount ==
  ASSUME NEW kept \in SUBSET Identities
  PROVE  IsFiniteSet(Bare(kept)) /\ Cardinality(Bare(kept)) \in Nat
<1>1. Bare(kept) \subseteq Identities BY DEF Bare
<1> QED BY <1>1, IngestAssumption, FS_Subset, FS_CardinalityType

\* What adoptChainLocked builds.
LEMMA AdoptedRows ==
  ASSUME IdInv, NEW kept \in SUBSET Identities, NEW f \in Numberings(Bare(kept))
  PROVE  LET new == Adopted(kept, f) IN
         /\ IsChain(new) /\ DOMAIN new = kept
         /\ \A i \in Carried(kept) : /\ i \in DOMAIN chain /\ new[i].id = chain[i].id
                                     /\ new[i].oi = chain[i].oi
         /\ \A i \in Bare(kept) : /\ new[i].id = -(nextSyn + f[i])
                                  /\ f[i] \in 1..Cardinality(Bare(kept))
         /\ kept = Carried(kept) \cup Bare(kept)
<1> DEFINE new == Adopted(kept, f)
<1>1. DOMAIN new = kept /\ new = [i \in kept |-> new[i]]
  BY DEF Adopted
<1>2. kept = Carried(kept) \cup Bare(kept) /\ Carried(kept) \cap Bare(kept) = {}
      /\ Carried(kept) \subseteq kept
  BY DEF Carried, Bare
<1>3. ASSUME NEW i \in Carried(kept)
      PROVE  /\ i \in DOMAIN chain /\ new[i] \in Row /\ new[i].id = chain[i].id
             /\ new[i].oi = chain[i].oi
  <2>1. i \in DOMAIN chain BY DEF Carried
  <2>2. chain[i] \in Row BY <2>1 DEF IdInv, RowsInv, IsChain
  <2>3. new[i] = [chain[i] EXCEPT !.terms = 0] BY <1>2 DEF Adopted
  <2> QED BY <2>1, <2>2, <2>3 DEF Row
<1>4. f \in [Bare(kept) -> 1..Cardinality(Bare(kept))] BY DEF Numberings
<1>5. ASSUME NEW i \in Bare(kept)
      PROVE  /\ new[i].id = -(nextSyn + f[i]) /\ new[i] \in Row
             /\ f[i] \in 1..Cardinality(Bare(kept))
  <2>1. f[i] \in 1..Cardinality(Bare(kept)) BY <1>4
  <2>2. nextSyn \in Nat /\ Cardinality(Bare(kept)) \in Nat BY BareCount DEF IdInv, RowsInv
  <2>3. new[i] = FreshRow(-(nextSyn + f[i])) BY <1>2 DEF Adopted
  <2>4. -(nextSyn + f[i]) \in Int BY <2>1, <2>2
  <2> QED BY <2>1, <2>3, <2>4 DEF FreshRow, Row, OiSources
<1> HIDE DEF new
<1> QED BY <1>1, <1>2, <1>3, <1>5 DEF IsChain, new

LEMMA AdoptedDistinct ==
  ASSUME IdInv, NEW kept \in SUBSET Identities, NEW f \in Numberings(Bare(kept))
  PROVE  \A i, j \in kept : Adopted(kept, f)[i].id = Adopted(kept, f)[j].id => i = j
<1> DEFINE new == Adopted(kept, f)
           n == Cardinality(Bare(kept))
<1>1. /\ \A i \in Carried(kept) : i \in DOMAIN chain /\ new[i].id = chain[i].id
      /\ \A i \in Bare(kept) : new[i].id = -(nextSyn + f[i]) /\ f[i] \in 1..n
      /\ kept = Carried(kept) \cup Bare(kept)
  BY AdoptedRows
<1>2. n \in Nat /\ nextSyn \in Nat BY BareCount DEF IdInv, RowsInv
<1>3. \A i, j \in Bare(kept) : f[i] = f[j] => i = j BY DEF Numberings
<1>4. \A i \in DOMAIN chain : chain[i].id \in RealIds \cup Placeholders(nextSyn)
  BY DEF IdInv, IdRange
<1>5. \A i \in Bare(kept) : new[i].id \notin RealIds \cup Placeholders(nextSyn)
  BY <1>1, <1>2, IngestAssumption DEF Placeholders
<1>6. \A i, j \in Carried(kept) : new[i].id = new[j].id => i = j
  BY <1>1, IdsDistinct DEF IdInv
<1>7. \A i, j \in Bare(kept) : new[i].id = new[j].id => i = j
  BY <1>1, <1>2, <1>3
<1> HIDE DEF new
<1> QED BY <1>1, <1>4, <1>5, <1>6, <1>7 DEF new

LEMMA ChainIds ==
  ASSUME IdInv, NEW c \in Conns, NEW kept \in SUBSET Identities, NEW sp \in Spots,
         NEW f \in Numberings(Bare(kept)), OnChain(c, kept, sp, f)
  PROVE  IdInv'
<1> DEFINE new == Adopted(kept, f)
           n == Cardinality(Bare(kept))
           fresh == {new[i].id : i \in Bare(kept)}
<1>1. chain' = new /\ byCon' = RowOf(new) /\ known' = TRUE /\ nextSyn' = nextSyn + n
  BY DEF OnChain
<1>2. issued' = [k \in DOMAIN issued \cup fresh |->
                   IF k \in DOMAIN issued THEN issued[k]
                   ELSE CHOOSE i \in Bare(kept) : new[i].id = k]
  BY DEF OnChain
<1>3. /\ IsChain(new) /\ DOMAIN new = kept
      /\ \A i \in Carried(kept) : i \in DOMAIN chain /\ new[i].id = chain[i].id
      /\ \A i \in Bare(kept) : new[i].id = -(nextSyn + f[i]) /\ f[i] \in 1..n
      /\ kept = Carried(kept) \cup Bare(kept)
  BY AdoptedRows
<1>4. n \in Nat /\ nextSyn \in Nat /\ nextSyn' \in Nat /\ nextSyn <= nextSyn'
  BY <1>1, BareCount DEF IdInv, RowsInv
<1>5. Placeholders(nextSyn) \subseteq Placeholders(nextSyn') BY <1>4, PlaceholdersGrow
<1>6. \A i \in Bare(kept) : new[i].id \in Placeholders(nextSyn') \ Placeholders(nextSyn)
  BY <1>1, <1>3, <1>4 DEF Placeholders
<1>7. \A i, j \in kept : new[i].id = new[j].id => i = j BY AdoptedDistinct
<1> HIDE DEF new
<1>8. RowsInv' BY <1>1, <1>3, <1>4 DEF RowsInv, IsChain
<1>9. IdRange'
  <2>1. \A i \in kept : new[i].id \in RealIds \cup Placeholders(nextSyn')
    BY <1>3, <1>5, <1>6 DEF IdInv, IdRange
  <2>2. DOMAIN issued' \subseteq Placeholders(nextSyn')
    BY <1>2, <1>5, <1>6 DEF IdInv, IdRange
  <2> QED BY <1>1, <1>3, <2>1, <2>2 DEF IdRange
<1>10. IndexInverse'
  BY <1>1, <1>3, <1>7, RowOfInverse DEF IndexInverse
<1>11. PlaceholderForever'
  <2> SUFFICES ASSUME NEW i \in kept, new[i].id \notin RealIds
               PROVE  new[i].id \in DOMAIN issued' /\ issued'[new[i].id] = i
    BY <1>1, <1>3 DEF PlaceholderForever
  <2>1. CASE i \in Carried(kept)
    BY <1>2, <1>3, <2>1 DEF IdInv, PlaceholderForever
  <2>2. CASE i \in Bare(kept)
    <3>1. new[i].id \in fresh BY <2>2
    <3>2. new[i].id \notin DOMAIN issued BY <1>6, <2>2 DEF IdInv, IdRange
    <3>3. issued'[new[i].id] = CHOOSE j \in Bare(kept) : new[j].id = new[i].id
      BY <1>2, <3>1, <3>2, SMTT(30)
    <3>4. \A j \in Bare(kept) : new[j].id = new[i].id => j = i
      BY <1>3, <1>7, <2>2
    <3> QED BY <1>2, <2>2, <3>1, <3>3, <3>4, SMTT(30)
  <2> QED BY <1>3, <2>1, <2>2
<1> QED BY <1>8, <1>9, <1>10, <1>11 DEF IdInv

\* onOptComp finds a row of the chain and leaves it with the wire's Con_Id.
LEMMA PatchedRow ==
  ASSUME IdInv, NEW c \in Conns, NEW con \in RealIds, NEW i \in Identities,
         NEW kind \in Kinds, OnOptComp(c, con, i, kind)
  PROVE  LET row == Patched(chain[i], con, kind) IN
         /\ i \in DOMAIN chain /\ (con \in Ids(chain) => chain[i].id = con)
         /\ row \in Row /\ row.id = con
<1> DEFINE row == Patched(chain[i], con, kind)
<1>1. Resolves(con, i) BY DEF OnOptComp
<1>2. i \in DOMAIN chain /\ (con \in Ids(chain) => chain[i].id = con)
  BY <1>1 DEF Resolves, IdInv, IndexInverse, Ids
<1>3. chain[i] \in Row BY <1>2 DEF IdInv, RowsInv, IsChain
<1>4. row \in Row /\ row.id = con
  <2> DEFINE old == chain[i]
             ok == IF kind \in {"quote", "bad"} THEN kind = "quote" ELSE old.ok
             oi == IF kind = "oi" THEN "tws" ELSE old.oi
             terms == IF kind = "amend" /\ con \in DOMAIN byCon THEN 1 - old.terms
                      ELSE old.terms
  <2>1. /\ old.iv \in 0..1 /\ old.ok \in BOOLEAN /\ old.oi \in OiSources
        /\ old.terms \in 0..1
    BY <1>3 DEF Row
  <2>2. 1 - old.iv \in 0..1 /\ terms \in 0..1 BY <2>1
  <2>3. ok \in BOOLEAN BY <2>1, Zenon
  <2>4. oi \in OiSources BY <2>1 DEF OiSources
  <2>5. row = [old EXCEPT !.id = con, !.iv = 1 - old.iv, !.ok = ok, !.oi = oi,
                          !.terms = terms]
    BY DEF Patched
  <2>6. old \in Row BY <1>3
  <2> HIDE DEF ok, oi, terms, old, row
  <2>7. PICK o \in BOOLEAN :
          row = [old EXCEPT !.id = con, !.iv = 1 - old.iv, !.ok = o, !.oi = oi,
                            !.terms = terms]
    BY <2>3, <2>5, Zenon
  <2> QED BY <2>2, <2>4, <2>6, <2>7 DEF Row
<1> QED BY <1>2, <1>4

LEMMA PatchIds ==
  ASSUME IdInv, NEW c \in Conns, NEW con \in RealIds, NEW i \in Identities,
         NEW kind \in Kinds, OnOptComp(c, con, i, kind)
  PROVE  IdInv'
<1> DEFINE row == Patched(chain[i], con, kind)
           new == [chain EXCEPT ![i] = row]
<1>1. /\ chain' = new /\ byCon' = Reindex(i, con) /\ known' = known
      /\ nextSyn' = nextSyn /\ issued' = issued
  BY DEF OnOptComp
<1>2. i \in DOMAIN chain /\ (con \in Ids(chain) => chain[i].id = con)
  BY PatchedRow
<1>4. row \in Row /\ row.id = con BY PatchedRow
<1> HIDE DEF row
<1>5. /\ DOMAIN new = DOMAIN chain /\ new[i] = row
      /\ \A j \in DOMAIN chain \ {i} : new[j] = chain[j]
  BY <1>2
<1>6. new = [j \in DOMAIN chain |-> new[j]]
  OBVIOUS
<1> HIDE DEF new
<1>7. \A j \in DOMAIN chain \ {i} : chain[j].id # con /\ chain[j].id # chain[i].id
  BY <1>2, IdsDistinct DEF IdInv, Ids
<1>8. RowsInv'
  BY <1>1, <1>2, <1>4, <1>5, <1>6 DEF IdInv, RowsInv, IsChain
<1>9. IdRange'
  BY <1>1, <1>4, <1>5 DEF IdInv, IdRange
<1>10. PlaceholderForever'
  BY <1>1, <1>4, <1>5 DEF IdInv, PlaceholderForever
<1>11. IndexInverse'
  <2>1. Ids(new) = (Ids(chain) \ {chain[i].id}) \cup {con}
    BY <1>2, <1>4, <1>5, <1>7 DEF Ids
  <2>2. DOMAIN byCon' = Ids(new)
    BY <1>1, <2>1 DEF Reindex, IdInv, IndexInverse
  <2>3. byCon'[con] = i BY <1>1 DEF Reindex
  <2>4. \A j \in DOMAIN chain \ {i} : byCon'[chain[j].id] = byCon[chain[j].id]
    BY <1>1, <1>7 DEF Reindex, IdInv, IndexInverse, Ids
  <2>5. \A j \in DOMAIN new : byCon'[new[j].id] = j
    BY <1>4, <1>5, <2>3, <2>4 DEF IdInv, IndexInverse
  <2> QED BY <1>1, <2>2, <2>5 DEF IndexInverse
<1> QED BY <1>8, <1>9, <1>10, <1>11 DEF IdInv

LEMMA VendorIds ==
  ASSUME IdInv, NEW matched \in SUBSET DOMAIN chain, ApplyVendorOI(matched)
  PROVE  IdInv'
<1>1. /\ chain' = [i \in DOMAIN chain |->
                     IF i \in matched THEN [chain[i] EXCEPT !.oi = "vendor"] ELSE chain[i]]
      /\ UNCHANGED <<known, byCon, nextSyn, issued>>
  BY DEF ApplyVendorOI
<1>2. \A i \in DOMAIN chain : chain[i] \in Row BY DEF IdInv, RowsInv, IsChain
<1>3. /\ DOMAIN chain' = DOMAIN chain /\ chain' = [i \in DOMAIN chain |-> chain'[i]]
      /\ \A i \in DOMAIN chain : chain'[i] \in Row /\ chain'[i].id = chain[i].id
  BY <1>1, <1>2 DEF Row, OiSources
<1>4. Ids(chain') = Ids(chain) BY <1>3 DEF Ids
<1>5. RowsInv' BY <1>1, <1>3 DEF IdInv, RowsInv, IsChain
<1>6. IdRange' /\ PlaceholderForever' BY <1>1, <1>3 DEF IdInv, IdRange, PlaceholderForever
<1>7. IndexInverse' BY <1>1, <1>3, <1>4 DEF IdInv, IndexInverse
<1> QED BY <1>5, <1>6, <1>7 DEF IdInv

LEMMA IdStep == IdInv /\ [Next]_vars => IdInv'
<1> SUFFICES ASSUME IdInv, [Next]_vars PROVE IdInv'
  OBVIOUS
<1>1. ASSUME NEW c \in Conns, CopyChain(c) \/ ApplyChain(c) \/ ApplySpot(c) \/
             OnStatus(c) \/ \E sp \in Spots : OnSpot(c, sp)
      PROVE  IdInv'
  BY <1>1, IdFrame DEF CopyChain, ApplyChain, ApplySpot, OnStatus, OnSpot, idVars, chainVars
<1>2. ASSUME NEW c \in Conns, NEW kept \in (SUBSET Identities) \ {{}}, NEW sp \in Spots,
             NEW f \in Numberings(Bare(kept)), OnChain(c, kept, sp, f)
      PROVE  IdInv'
  BY <1>2, ChainIds
<1>3. ASSUME NEW c \in Conns, NEW con \in RealIds, NEW i \in Identities,
             NEW kind \in Kinds, OnOptComp(c, con, i, kind)
      PROVE  IdInv'
  BY <1>3, PatchIds
<1>4. ASSUME NEW matched \in SUBSET DOMAIN chain, ApplyVendorOI(matched) PROVE IdInv'
  BY <1>4, VendorIds
<1>5. CASE \/ FlushAll \/ SubmitLogs \/ SubmitPoints \/ DrainErrors \/ CommitBatch
           \/ AbortBatch \/ UNCHANGED vars
  BY <1>5, IdFrame DEF FlushAll, SubmitLogs, SubmitPoints, DrainErrors, CommitBatch,
                       AbortBatch, vars, idVars, chainVars
<1> QED BY <1>1, <1>2, <1>3, <1>4, <1>5 DEF Next, HandlerStep

LEMMA IdInit == Init => IdInv
<1> SUFFICES ASSUME Init PROVE IdInv
  OBVIOUS
<1>1. DOMAIN chain = {} /\ DOMAIN byCon = {} /\ DOMAIN issued = {} /\ nextSyn = 0
      /\ chain = [i \in DOMAIN chain |-> chain[i]]
  BY DEF Init, NoRows
<1>2. Ids(chain) = {} BY <1>1 DEF Ids
<1> QED BY <1>1, <1>2
        DEF IdInv, RowsInv, IsChain, IdRange, IndexInverse, PlaceholderForever

LEMMA IdInvariant == Spec => []IdInv
BY IdInit, IdStep, PTL DEF Spec

\* byCon is the inverse of the working chain's Con_Ids, for any number of
\* contracts, connections and re-discoveries (ingest.go:576-585, 746-757).
THEOREM IndexIsInverse == Spec => []IndexInverse
<1>1. IdInv => IndexInverse BY DEF IdInv
<1> QED BY <1>1, IdInvariant, PTL

\* No placeholder is ever given to a second contract (ingest.go:131-134).
THEOREM PlaceholdersForever == Spec => []PlaceholderForever
<1>1. IdInv => PlaceholderForever BY DEF IdInv
<1> QED BY <1>1, IdInvariant, PTL

-----------------------------------------------------------------------------
(* Open interest.                                                          *)

OiKept == \A i \in DOMAIN chain \cap DOMAIN chain' :
            chain[i].oi # "none" => chain'[i].oi # "none"

LEMMA OiStep == IdInv /\ [Next]_vars => OiKept
<1> SUFFICES ASSUME IdInv, [Next]_vars PROVE OiKept
  OBVIOUS
<1>0. \A i \in DOMAIN chain : chain[i] \in Row BY DEF IdInv, RowsInv, IsChain
<1>1. ASSUME UNCHANGED chain PROVE OiKept
  BY <1>1 DEF OiKept
<1>2. ASSUME NEW c \in Conns, CopyChain(c) \/ ApplyChain(c) \/ ApplySpot(c) \/
             OnStatus(c) \/ \E sp \in Spots : OnSpot(c, sp)
      PROVE  OiKept
  BY <1>1, <1>2 DEF CopyChain, ApplyChain, ApplySpot, OnStatus, OnSpot, chainVars
<1>3. ASSUME NEW c \in Conns, NEW kept \in (SUBSET Identities) \ {{}}, NEW sp \in Spots,
             NEW f \in Numberings(Bare(kept)), OnChain(c, kept, sp, f)
      PROVE  OiKept
  <2>1. chain' = Adopted(kept, f) BY <1>3 DEF OnChain
  <2>2. DOMAIN chain' = kept /\ \A i \in Carried(kept) : chain'[i].oi = chain[i].oi
    BY <2>1, AdoptedRows
  <2>3. DOMAIN chain \cap kept \subseteq Carried(kept)
    BY DEF Carried, IdInv, RowsInv
  <2> QED BY <2>2, <2>3 DEF OiKept
<1>4. ASSUME NEW c \in Conns, NEW con \in RealIds, NEW i \in Identities,
             NEW kind \in Kinds, OnOptComp(c, con, i, kind)
      PROVE  OiKept
  <2>1. chain' = [chain EXCEPT ![i] = Patched(chain[i], con, kind)]
    BY <1>4 DEF OnOptComp
  <2>2. ASSUME i \in DOMAIN chain, chain[i].oi # "none"
        PROVE  Patched(chain[i], con, kind).oi # "none"
    BY <1>0, <2>2 DEF Patched, Row
  <2> HIDE DEF Patched
  <2> QED BY <2>1, <2>2 DEF OiKept
<1>5. ASSUME NEW matched \in SUBSET DOMAIN chain, ApplyVendorOI(matched) PROVE OiKept
  <2>1. chain' = [i \in DOMAIN chain |->
                    IF i \in matched THEN [chain[i] EXCEPT !.oi = "vendor"] ELSE chain[i]]
    BY <1>5 DEF ApplyVendorOI
  <2> QED BY <1>0, <2>1 DEF OiKept, Row
<1>6. CASE \/ FlushAll \/ SubmitLogs \/ SubmitPoints \/ DrainErrors \/ CommitBatch
           \/ AbortBatch \/ UNCHANGED vars
  BY <1>1, <1>6 DEF FlushAll, SubmitLogs, SubmitPoints, DrainErrors, CommitBatch,
                    AbortBatch, vars, chainVars
<1> QED BY <1>2, <1>3, <1>4, <1>5, <1>6 DEF Next, HandlerStep

\* No step, a re-discovery included, takes a surviving row's open interest away
\* (ingest.go:513-545).
THEOREM OpenInterestSurvives == Spec => OiSurvives
<1>1. IdInv /\ [Next]_vars => [OiKept]_vars BY OiStep
<1> QED BY <1>1, IdInvariant, PTL DEF Spec, OiSurvives, OiKept

-----------------------------------------------------------------------------
(* The book.                                                               *)

Publishing == \E c \in Conns : pub[c].pc \in {"copy", "apply"}
Moving == \E c \in Conns : pub[c].pc = "spot"

\* BookCurrent while other handlers are between their two critical sections:
\* a moving spot leaves the rows current, a publication leaves nothing known.
BookInv ==
  /\ DOMAIN pub = Conns /\ book = [rows |-> book.rows, spot |-> book.spot]
  /\ known /\ ~pending /\ lag = "none" /\ ~Publishing =>
       book.rows = chain /\ (~Moving => book = [rows |-> chain, spot |-> spot])

LEMMA BookFrame ==
  ASSUME BookInv, UNCHANGED <<known, chain, spot, pending, pub, book, lag>>
  PROVE  BookInv'
BY DEF BookInv, Publishing, Moving

LEMMA BookHandler ==
  ASSUME BookInv, NEW c \in Conns, CopyChain(c) \/ ApplyChain(c) \/ ApplySpot(c)
  PROVE  BookInv'
<1>1. CASE CopyChain(c)
  <2>1. DOMAIN pub' = Conns /\ pub'[c].pc = "apply" /\ book' = book
    BY <1>1 DEF CopyChain, BookInv, bookVars
  <2> QED BY <2>1 DEF BookInv, Publishing
<1>2. CASE ApplyChain(c)
  <2>1. DOMAIN pub' = Conns /\ book' = [rows |-> book'.rows, spot |-> book'.spot]
    BY <1>2 DEF ApplyChain, BookInv
  <2>2. lag' = "none" => book' = [rows |-> chain', spot |-> spot']
    BY <1>2 DEF ApplyChain, Current, chainVars
  <2> QED BY <2>1, <2>2 DEF BookInv
<1>3. CASE ApplySpot(c)
  <2>1. /\ DOMAIN pub' = Conns /\ pub'[c] = Idle
        /\ \A d \in Conns \ {c} : pub'[d] = pub[d]
    BY <1>3 DEF ApplySpot, BookInv
  <2>2. Publishing <=> Publishing'
    BY <1>3, <2>1 DEF Publishing, ApplySpot, Idle
  <2>3. UNCHANGED <<known, chain, spot, pending>> BY <1>3 DEF ApplySpot, chainVars
  <2>4. ASSUME lag' = "none"
        PROVE  lag = "none" /\ book' = [book EXCEPT !.spot = spot]
    BY <1>3, <2>4 DEF ApplySpot
  <2>5. ASSUME known', ~pending', lag' = "none", ~Publishing'
        PROVE  book' = [rows |-> chain', spot |-> spot']
    <3>1. book.rows = chain BY <2>2, <2>3, <2>4, <2>5 DEF BookInv
    <3> QED BY <2>3, <2>4, <2>5, <3>1 DEF BookInv
  <2>6. book' = [rows |-> book'.rows, spot |-> book'.spot]
    BY <1>3 DEF ApplySpot, BookInv
  <2> QED BY <2>1, <2>5, <2>6 DEF BookInv
<1> QED BY <1>1, <1>2, <1>3

\* publishLocked under the lock leaves the book current or refused.
LEMMA ApplyCurrent ==
  ASSUME NEW rows, NEW sp, Apply(rows, sp), BookInv
  PROVE  /\ book' = [rows |-> book'.rows, spot |-> book'.spot]
         /\ lag' = "none" => book' = [rows |-> rows, spot |-> sp]
BY DEF Apply, BookInv

LEMMA BookPatch ==
  ASSUME BookInv, NEW c \in Conns, NEW con \in RealIds, NEW i \in Identities,
         NEW kind \in Kinds, OnOptComp(c, con, i, kind)
  PROVE  BookInv'
<1> DEFINE full == patchCount + 1 >= FlushPatches
<1>1. CASE full
  <2>1. Apply(chain', spot') BY <1>1 DEF OnOptComp
  <2>2. pub' = pub BY DEF OnOptComp
  <2> QED BY <2>1, <2>2, ApplyCurrent DEF BookInv
<1>2. CASE ~full
  <2>1. pending' BY <1>2, Zenon DEF OnOptComp, PendingAfterPatch
  <2>2. UNCHANGED <<pub, book>> BY <1>2 DEF OnOptComp, bookVars
  <2> QED BY <2>1, <2>2 DEF BookInv
<1> QED BY <1>1, <1>2

LEMMA BookStep == BookInv /\ [Next]_vars => BookInv'
<1> SUFFICES ASSUME BookInv, [Next]_vars PROVE BookInv'
  OBVIOUS
<1>1. ASSUME NEW c \in Conns,
             CopyChain(c) \/ ApplyChain(c) \/ ApplySpot(c) \/ OnStatus(c)
      PROVE  BookInv'
  <2>1. CASE OnStatus(c) BY <2>1, BookFrame DEF OnStatus, chainVars, bookVars
  <2> QED BY <1>1, <2>1, BookHandler
<1>2. ASSUME NEW c \in Conns, NEW sp \in Spots, OnSpot(c, sp) PROVE BookInv'
  <2>1. /\ DOMAIN pub' = Conns /\ pub'[c].pc = "spot"
        /\ \A d \in Conns \ {c} : pub'[d] = pub[d]
        /\ UNCHANGED <<known, chain, pending, book, lag>>
    BY <1>2 DEF OnSpot, BookInv, bookVars
  <2>2. pub[c].pc = "idle" BY <1>2 DEF OnSpot, Event, Idle
  <2>3. Moving' BY <2>1 DEF Moving
  <2>4. Publishing <=> Publishing' BY <2>1, <2>2 DEF Publishing
  <2> QED BY <2>1, <2>3, <2>4 DEF BookInv
<1>3. ASSUME NEW c \in Conns, NEW kept \in (SUBSET Identities) \ {{}}, NEW sp \in Spots,
             NEW f \in Numberings(Bare(kept)), OnChain(c, kept, sp, f)
      PROVE  BookInv'
  <2>1. DOMAIN pub' = Conns /\ pub'[c].pc = "copy" /\ book' = book
    BY <1>3, ZenonT(30) DEF OnChain, Detached, bookVars
  <2> QED BY <2>1 DEF BookInv, Publishing
<1>4. ASSUME NEW c \in Conns, NEW con \in RealIds, NEW i \in Identities,
             NEW kind \in Kinds, OnOptComp(c, con, i, kind)
      PROVE  BookInv'
  BY <1>4, BookPatch
<1>5. ASSUME NEW matched \in SUBSET DOMAIN chain, ApplyVendorOI(matched) PROVE BookInv'
  <2>1. Apply(chain', spot') /\ UNCHANGED <<pub, spot>>
    BY <1>5 DEF ApplyVendorOI
  <2> QED BY <2>1, ApplyCurrent DEF BookInv
<1>6. CASE FlushAll
  <2>1. CASE pending
    <3>1. Apply(chain', spot') /\ UNCHANGED <<pub, spot>>
      BY <1>6, <2>1 DEF FlushAll
    <3> QED BY <3>1, ApplyCurrent DEF BookInv
  <2>2. CASE ~pending
    BY <1>6, <2>2, BookFrame DEF FlushAll, bookVars
  <2> QED BY <2>1, <2>2
<1>7. CASE \/ SubmitLogs \/ SubmitPoints \/ DrainErrors \/ CommitBatch
           \/ AbortBatch \/ UNCHANGED vars
  BY <1>7, BookFrame DEF SubmitLogs, SubmitPoints, DrainErrors, CommitBatch,
                         AbortBatch, vars, chainVars, bookVars
<1> QED BY <1>1, <1>2, <1>3, <1>4, <1>5, <1>6, <1>7 DEF Next, HandlerStep

\* Every accepted patch reaches the book, for any number of handlers and any
\* flush threshold, unless a publication was refused or overtaken
\* (ingest.go:429-437, 705, 851-865).
THEOREM BookIsCurrent == Spec => []BookCurrent
<1>1. Init => BookInv
  BY DEF Init, BookInv, NoBook, Publishing, Idle
<1>2. BookInv => BookCurrent
  BY DEF BookInv, BookCurrent, Quiet, Idle, Publishing, Moving
<1> QED BY <1>1, <1>2, BookStep, PTL DEF Spec

-----------------------------------------------------------------------------
(* The store's queue.                                                      *)

Chains == UNION {[D -> Row] : D \in SUBSET Identities}
Task == [kind : {"contracts"}, rows : Chains]
          \cup [kind : {"logs"}, ids : SUBSET RealIds]
          \cup [kind : {"points"}, pts : SUBSET Nat]
Flusher == [pc : {"idle", "logs", "points"}, logs : SUBSET RealIds, points : SUBSET Nat]

\* What a task brings to the contracts and the points of the queue.
Brings(t) == IF t.kind = "contracts" THEN Ids(t.rows) ELSE {}
Points(t) == IF t.kind = "points" THEN t.pts ELSE {}

QueuedContracts == ContractsBefore(Len(tasks) + 1)

QueueInv ==
  /\ tasks \in Seq(Task) /\ flusher \in Flusher
  /\ flusher.pc = "idle" => flusher.points = {}
  /\ pendLogs \subseteq RealIds /\ pendPoints \subseteq Nat

\* Spots in flight outside the lock are numbered, each with a number of its own.
EventInv ==
  /\ DOMAIN pub = Conns /\ events \in Nat
  /\ \A c \in Conns : pub[c].pc = "spot" => pub[c].event \in 1..events
  /\ \A c, d \in Conns : pub[c].pc = "spot" /\ pub[d].pc = "spot"
                           /\ pub[c].event = pub[d].event => c = d
  /\ \A c \in Conns : pub[c].pc = "copy" =>
       pub[c] = [pc |-> "copy", live |-> pub[c].live, rows |-> pub[c].rows,
                 spot |-> pub[c].spot]

LEMMA ChainsAreChains == \A ch : IsChain(ch) => ch \in Chains
BY DEF IsChain, Chains

LEMMA QueueGrows ==
  ASSUME tasks \in Seq(Task), NEW t \in Task, tasks' = Append(tasks, t)
  PROVE  /\ tasks' \in Seq(Task)
         /\ \A k \in 1..Len(tasks) + 1 : ContractsBefore(k)' = ContractsBefore(k)
         /\ QueuedContracts' = QueuedContracts \cup Brings(t)
         /\ \A k \in TasksOf("logs") : k \in TasksOf("logs")' /\ tasks'[k] = tasks[k]
         /\ \A k \in TasksOf("logs")' :
              k \in TasksOf("logs") \/ (k = Len(tasks) + 1 /\ t.kind = "logs")
         /\ Len(tasks') = Len(tasks) + 1 /\ tasks'[Len(tasks) + 1] = t
         /\ QueuedPoints' = QueuedPoints \cup Points(t)
<1>1. /\ tasks' \in Seq(Task) /\ Len(tasks') = Len(tasks) + 1
      /\ tasks'[Len(tasks) + 1] = t /\ Len(tasks) \in Nat
      /\ \A k \in 1..Len(tasks) : tasks'[k] = tasks[k]
  OBVIOUS
<1>2. \A kind : TasksOf(kind)' = TasksOf(kind)
                   \cup (IF t.kind = kind THEN {Len(tasks) + 1} ELSE {})
  BY <1>1 DEF TasksOf
<1>3. \A kind : TasksOf(kind) \subseteq 1..Len(tasks)
  BY DEF TasksOf
<1>4. ASSUME NEW k \in 1..Len(tasks) + 1 PROVE ContractsBefore(k)' = ContractsBefore(k)
  <2>1. {j \in TasksOf("contracts")' : j < k} = {j \in TasksOf("contracts") : j < k}
    BY <1>1, <1>2
  <2> QED BY <1>1, <1>3, <2>1 DEF ContractsBefore, Ids
<1>5. QueuedContracts' = QueuedContracts \cup Brings(t)
  <2>1. {j \in TasksOf("contracts") : j < Len(tasks) + 1} = TasksOf("contracts")
    BY <1>1, <1>3
  <2>2. {j \in TasksOf("contracts")' : j < Len(tasks') + 1} = TasksOf("contracts")'
    BY <1>1, <1>2, <1>3
  <2>3. QueuedContracts = UNION {Ids(tasks[j].rows) : j \in TasksOf("contracts")}
    BY <2>1 DEF QueuedContracts, ContractsBefore
  <2>4. QueuedContracts' = UNION {Ids(tasks'[j].rows) : j \in TasksOf("contracts")'}
    BY <2>2 DEF QueuedContracts, ContractsBefore, Ids
  <2>5. \A j \in TasksOf("contracts") : Ids(tasks'[j].rows) = Ids(tasks[j].rows)
    BY <1>1, <1>3
  <2> QED BY <1>1, <1>2, <1>3, <2>3, <2>4, <2>5 DEF Brings
<1>6. QueuedPoints' = QueuedPoints \cup Points(t)
  BY <1>1, <1>2, <1>3 DEF QueuedPoints, QueuedBatches, Points
<1> QED BY <1>1, <1>2, <1>3, <1>4, <1>5, <1>6

LEMMA Patch1 ==
  ASSUME IdInv, NEW c \in Conns, NEW con \in RealIds, NEW i \in Identities,
         NEW kind \in Kinds, OnOptComp(c, con, i, kind)
  PROVE  LET t == [kind |-> "contracts", rows |-> [j \in {i} |-> chain'[i]]]
         IN  t \in Task /\ Brings(t) = {con}
<1> DEFINE row == Patched(chain[i], con, kind)
           t == [kind |-> "contracts", rows |-> [j \in {i} |-> chain'[i]]]
<1>1. row \in Row /\ row.id = con /\ i \in DOMAIN chain BY PatchedRow
<1>2. chain' = [chain EXCEPT ![i] = row] BY DEF OnOptComp
<1> HIDE DEF row
<1>3. chain'[i] = row BY <1>1, <1>2
<1>4. [j \in {i} |-> row] \in [{i} -> Row] /\ {i} \in SUBSET Identities BY <1>1
<1>5. Ids([j \in {i} |-> row]) = {con} BY <1>1 DEF Ids
<1>6. [j \in {i} |-> row] \in Chains BY <1>4, Zenon DEF Chains
<1> QED BY <1>3, <1>5, <1>6 DEF Task, Brings

LEMMA EventStep == EventInv /\ [Next]_vars => EventInv'
<1> SUFFICES ASSUME EventInv, [Next]_vars PROVE EventInv'
  OBVIOUS
<1>1. ASSUME DOMAIN pub' = Conns, events' \in {events, events + 1},
             \A c \in Conns : pub'[c].pc \in {"spot", "copy"} => pub'[c] = pub[c]
      PROVE  EventInv'
  BY <1>1 DEF EventInv
<1>2. ASSUME NEW c \in Conns, CopyChain(c) \/ ApplyChain(c) \/ ApplySpot(c)
      PROVE  EventInv'
  <2>1. /\ DOMAIN pub' = Conns /\ events' = events /\ pub'[c].pc \notin {"spot", "copy"}
        /\ \A d \in Conns \ {c} : pub'[d] = pub[d]
    BY <1>2 DEF CopyChain, ApplyChain, ApplySpot, EventInv, Idle
  <2> QED BY <1>1, <2>1
<1>3. ASSUME NEW c \in Conns, NEW sp \in Spots, OnSpot(c, sp) PROVE EventInv'
  <2>1. /\ DOMAIN pub' = Conns /\ events' = events + 1
        /\ pub'[c].pc = "spot" /\ pub'[c].event = events + 1
        /\ \A d \in Conns \ {c} : pub'[d] = pub[d]
    BY <1>3 DEF OnSpot, Event, EventInv
  <2> QED BY <2>1 DEF EventInv
<1>4. ASSUME NEW c \in Conns, NEW kept \in (SUBSET Identities) \ {{}}, NEW sp \in Spots,
             NEW f \in Numberings(Bare(kept)), OnChain(c, kept, sp, f)
      PROVE  EventInv'
  <2> DEFINE entry(p, l, r) == [pc |-> "copy", live |-> l, rows |-> r, spot |-> p.spot]
  <2>1. /\ DOMAIN pub' = Conns /\ events' = events + 1
        /\ pub'[c] = [pc |-> "copy", live |-> TRUE, rows |-> Adopted(kept, f), spot |-> sp]
        /\ \A d \in Conns \ {c} : pub'[d] = Detached(c)[d]
    BY <1>4, ZenonT(30) DEF OnChain, Event, Detached
  <2>2. ASSUME NEW d \in Conns \ {c}
        PROVE  \/ pub'[d] = pub[d]
               \/ pub[d].pc = "copy" /\ pub'[d] = entry(pub[d], FALSE, chain)
    <3>1. CASE pub[d].pc = "copy" /\ pub[d].live
      <4>1. pub'[d] = [pub[d] EXCEPT !.live = FALSE, !.rows = chain]
        BY <2>1, <3>1, ZenonT(30) DEF Detached
      <4>2. pub[d] = entry(pub[d], pub[d].live, pub[d].rows) BY <3>1 DEF EventInv
      <4> QED BY <3>1, <4>1, <4>2
    <3>2. CASE ~(pub[d].pc = "copy" /\ pub[d].live)
      BY <2>1, <3>2, ZenonT(30) DEF Detached
    <3> QED BY <3>1, <3>2
  <2>3. \A d \in Conns : pub'[d].pc = "spot" => pub'[d] = pub[d] BY <2>1, <2>2
  <2>4. \A d \in Conns : pub'[d].pc = "copy" =>
          pub'[d] = entry(pub'[d], pub'[d].live, pub'[d].rows)
    BY <2>1, <2>2 DEF EventInv
  <2> QED BY <2>1, <2>3, <2>4 DEF EventInv
<1>5. ASSUME NEW c \in Conns, NEW con \in RealIds, NEW i \in Identities,
             NEW kind \in Kinds, OnOptComp(c, con, i, kind)
      PROVE  EventInv'
  BY <1>1, <1>5 DEF OnOptComp, Event, EventInv
<1>8. ASSUME NEW c \in Conns, OnStatus(c) PROVE EventInv'
  BY <1>1, <1>8 DEF OnStatus, Event, EventInv
<1>6. ASSUME NEW matched \in SUBSET DOMAIN chain, ApplyVendorOI(matched) PROVE EventInv'
  BY <1>1, <1>6 DEF ApplyVendorOI, EventInv
<1>7. CASE \/ FlushAll \/ SubmitLogs \/ SubmitPoints \/ DrainErrors \/ CommitBatch
           \/ AbortBatch \/ UNCHANGED vars
  BY <1>1, <1>7 DEF FlushAll, SubmitLogs, SubmitPoints, DrainErrors, CommitBatch,
                    AbortBatch, vars, EventInv
<1> QED BY <1>2, <1>3, <1>4, <1>5, <1>6, <1>7, <1>8 DEF Next, HandlerStep

LEMMA QueueStep == IdInv /\ EventInv /\ QueueInv /\ [Next]_vars => QueueInv'
<1> SUFFICES ASSUME IdInv, EventInv, QueueInv, [Next]_vars PROVE QueueInv'
  OBVIOUS
<1> USE DEF QueueInv
<1>1. ASSUME NEW c \in Conns, CopyChain(c) \/ ApplyChain(c) PROVE QueueInv'
  BY <1>1 DEF CopyChain, ApplyChain, rowVars, storeVars
<1>2. ASSUME NEW c \in Conns, ApplySpot(c) PROVE QueueInv'
  <2>1. UNCHANGED <<tasks, flusher, pendLogs>> /\ pub[c].pc = "spot"
        /\ (pendPoints' = pendPoints \/ pendPoints' = pendPoints \cup {pub[c].event})
    BY <1>2 DEF ApplySpot, Pends, storeVars
  <2>2. pub[c].event \in Nat BY <2>1 DEF EventInv
  <2>3. pendPoints' \subseteq Nat BY <2>1, <2>2
  <2> QED BY <2>1, <2>3
<1>3. ASSUME NEW c \in Conns, NEW sp \in Spots, OnSpot(c, sp) PROVE QueueInv'
  BY <1>3 DEF OnSpot, Event, rowVars, storeVars
<1>4. ASSUME NEW c \in Conns, NEW kept \in (SUBSET Identities) \ {{}}, NEW sp \in Spots,
             NEW f \in Numberings(Bare(kept)), OnChain(c, kept, sp, f)
      PROVE  QueueInv'
  <2>1. UNCHANGED <<flusher, pendLogs, pendPoints>> BY <1>4 DEF OnChain, rowVars
  <2>2. [kind |-> "contracts", rows |-> Adopted(kept, f)] \in Task
    BY AdoptedRows, ChainsAreChains DEF Task
  <2>3. \/ tasks' = tasks
        \/ tasks' = Append(tasks, [kind |-> "contracts", rows |-> Adopted(kept, f)])
    BY <1>4 DEF OnChain, Enqueued, Refused
  <2> QED BY <2>1, <2>2, <2>3, SMTT(30)
<1>5. ASSUME NEW c \in Conns, NEW con \in RealIds, NEW i \in Identities,
             NEW kind \in Kinds, OnOptComp(c, con, i, kind)
      PROVE  QueueInv'
  <2> DEFINE t == [kind |-> "contracts", rows |-> [j \in {i} |-> chain'[i]]]
  <2>1. /\ events' = events + 1 /\ flusher' = flusher
        /\ pendLogs' = pendLogs \cup {con} /\ pendPoints' = pendPoints \cup {events'}
    BY <1>5 DEF OnOptComp, Event, EventInv, Pends
  <2>2. t \in Task BY <1>5, Patch1, ZenonT(30)
  <2>3. tasks' = tasks \/ tasks' = Append(tasks, t)
    BY <1>5 DEF OnOptComp, Enqueued, Refused
  <2> QED BY <2>1, <2>2, <2>3, SMTT(30) DEF EventInv
<1>6. ASSUME NEW matched \in SUBSET DOMAIN chain, ApplyVendorOI(matched) PROVE QueueInv'
  BY <1>6 DEF ApplyVendorOI, rowVars, storeVars
<1>7. CASE FlushAll
  BY <1>7 DEF FlushAll, Flusher, storeVars
<1>8. CASE SubmitLogs
  <2>1. flusher' \in Flusher /\ (flusher'.pc = "idle" => flusher'.points = {})
    <3>1. \/ flusher' = [flusher EXCEPT !.pc = "points", !.logs = {}]
          \/ flusher' = NotFlushing
      BY <1>8 DEF SubmitLogs
    <3>2. [flusher EXCEPT !.pc = "points", !.logs = {}] \in Flusher BY DEF Flusher
    <3>3. NotFlushing \in Flusher BY DEF Flusher, NotFlushing
    <3>4. [flusher EXCEPT !.pc = "points", !.logs = {}].pc = "points" BY DEF Flusher
    <3>5. NotFlushing.points = {} BY DEF NotFlushing
    <3> QED BY <3>1, <3>2, <3>3, <3>4, <3>5
  <2>2. [kind |-> "logs", ids |-> flusher.logs] \in Task BY DEF Flusher, Task
  <2>3. tasks' = tasks \/ tasks' = Append(tasks, [kind |-> "logs", ids |-> flusher.logs])
    BY <1>8 DEF SubmitLogs, Enqueued, Refused
  <2> QED BY <1>8, <2>1, <2>2, <2>3, SMTT(30) DEF SubmitLogs, rowVars
<1>9. CASE SubmitPoints
  <2>1. flusher' \in Flusher /\ flusher'.points = {}
    BY <1>9 DEF SubmitPoints, Flusher, NotFlushing
  <2>2. [kind |-> "points", pts |-> flusher.points] \in Task BY DEF Flusher, Task
  <2>3. \/ tasks' = tasks
        \/ tasks' = Append(tasks, [kind |-> "points", pts |-> flusher.points])
    BY <1>9 DEF SubmitPoints, Enqueued, Refused
  <2> QED BY <1>9, <2>1, <2>2, <2>3 DEF SubmitPoints, rowVars
<1>10. CASE DrainErrors \/ CommitBatch \/ AbortBatch \/ UNCHANGED vars
  <2>1. UNCHANGED <<flusher, pendLogs, pendPoints>> /\ tasks' \in {tasks, <<>>}
    BY <1>10 DEF DrainErrors, CommitBatch, AbortBatch, vars, rowVars, storeVars
  <2>2. <<>> \in Seq(Task) OBVIOUS
  <2> QED BY <2>1, <2>2
<1>11. ASSUME NEW c \in Conns, OnStatus(c) PROVE QueueInv'
  <2>1. /\ UNCHANGED <<tasks, flusher, pendLogs>> /\ events' = events + 1
        /\ pendPoints' = pendPoints \cup {events'}
    BY <1>11 DEF OnStatus, Event, Pends, storeVars
  <2>2. pendPoints' \subseteq Nat BY <2>1 DEF EventInv
  <2> QED BY <2>1, <2>2
<1> QED BY <1>1, <1>2, <1>3, <1>4, <1>5, <1>6, <1>7, <1>8, <1>9, <1>10, <1>11
        DEF Next, HandlerStep

-----------------------------------------------------------------------------
(* Computation rows and the contracts they refer to.                       *)

Stored == db.cons \cup QueuedContracts

RefsOk ==
  /\ persisted \subseteq Stored /\ pendLogs \subseteq Stored
  /\ flusher.logs \subseteq Stored
  /\ \A k \in TasksOf("logs") : RefsHold(k)

RefInv == faulted \/ RefsOk

LEMMA RefsFrame ==
  ASSUME RefsOk, UNCHANGED <<tasks, db>>, persisted' \subseteq Stored,
         pendLogs' \subseteq Stored, flusher'.logs \subseteq Stored
  PROVE  RefsOk'
<1>1. /\ Stored' = Stored /\ TasksOf("logs")' = TasksOf("logs")
      /\ \A k : RefsHold(k)' <=> RefsHold(k)
  BY DEF Stored, QueuedContracts, ContractsBefore, TasksOf, RefsHold, Ids
<1> QED BY <1>1 DEF RefsOk

LEMMA RefsAppend ==
  ASSUME QueueInv, RefsOk, NEW t \in Task, tasks' = Append(tasks, t), db' = db,
         t.kind = "logs" => t.ids \subseteq Stored,
         persisted' \subseteq Stored \cup Brings(t),
         pendLogs' \subseteq Stored \cup Brings(t),
         flusher'.logs \subseteq Stored \cup Brings(t)
  PROVE  RefsOk'
<1>1. Stored' = Stored \cup Brings(t)
  BY QueueGrows DEF Stored, QueueInv
<1>2. ASSUME NEW k \in TasksOf("logs")' PROVE RefsHold(k)'
  <2>1. CASE k \in TasksOf("logs")
    <3>1. k \in 1..Len(tasks) + 1 /\ tasks'[k] = tasks[k]
      BY <2>1, QueueGrows DEF QueueInv, TasksOf
    <3>2. ContractsBefore(k)' = ContractsBefore(k)
      BY <3>1, QueueGrows DEF QueueInv
    <3>3. RefsHold(k) BY <2>1 DEF RefsOk
    <3> QED BY <3>1, <3>2, <3>3 DEF RefsHold
  <2>2. CASE k = Len(tasks) + 1 /\ t.kind = "logs"
    <3>1. ContractsBefore(k)' = QueuedContracts
      <4>1. k \in 1..Len(tasks) + 1 BY <2>2 DEF QueueInv
      <4> QED BY <2>2, <4>1, QueueGrows DEF QueueInv, QueuedContracts
    <3>2. tasks'[k] = t BY <2>2, QueueGrows DEF QueueInv
    <3> QED BY <2>2, <3>1, <3>2 DEF RefsHold, Stored
  <2> QED BY <2>1, <2>2, QueueGrows DEF QueueInv
<1> QED BY <1>1, <1>2 DEF RefsOk

LEMMA RefsPatch ==
  ASSUME IdInv, QueueInv, RefsOk, NEW c \in Conns, NEW con \in RealIds,
         NEW i \in Identities, NEW kind \in Kinds, OnOptComp(c, con, i, kind)
  PROVE  RefInv'
<1> DEFINE t == [kind |-> "contracts", rows |-> [j \in {i} |-> chain'[i]]]
           held == IF kind = "amend" /\ con \in DOMAIN byCon THEN persisted \ {con}
                   ELSE persisted
<1>1. /\ pendLogs' = pendLogs \cup {con} /\ UNCHANGED <<flusher, db>>
      /\ held \subseteq persisted
  BY DEF OnOptComp
<1>2. \/ con \in held /\ persisted' = held /\ tasks' = tasks
      \/ persisted' = held \cup {con} /\ tasks' = Append(tasks, t)
      \/ faulted' = TRUE
  BY DEF OnOptComp, NeedsUpsert, Enqueued, ContractsRefused
<1>3. t \in Task /\ Brings(t) = {con} /\ t.kind = "contracts" BY Patch1
<1> HIDE DEF t, held
<1>4. CASE con \in held /\ persisted' = held /\ tasks' = tasks
  <2>1. /\ persisted' \subseteq Stored /\ pendLogs' \subseteq Stored
        /\ flusher'.logs \subseteq Stored
    BY <1>1, <1>4 DEF RefsOk
  <2>2. RefsOk' BY <1>1, <1>4, <2>1, RefsFrame
  <2> QED BY <2>2 DEF RefInv
<1>5. CASE persisted' = held \cup {con} /\ tasks' = Append(tasks, t)
  <2>1. /\ persisted' \subseteq Stored \cup Brings(t)
        /\ pendLogs' \subseteq Stored \cup Brings(t)
        /\ flusher'.logs \subseteq Stored \cup Brings(t)
    BY <1>1, <1>3, <1>5 DEF RefsOk
  <2>2. RefsOk' BY <1>1, <1>3, <1>5, <2>1, RefsAppend
  <2> QED BY <2>2 DEF RefInv
<1> QED BY <1>2, <1>4, <1>5 DEF RefInv

LEMMA RefsChain ==
  ASSUME IdInv, QueueInv, RefsOk, NEW c \in Conns,
         NEW kept \in (SUBSET Identities) \ {{}}, NEW sp \in Spots,
         NEW f \in Numberings(Bare(kept)), OnChain(c, kept, sp, f)
  PROVE  RefInv'
<1> DEFINE t == [kind |-> "contracts", rows |-> Adopted(kept, f)]
<1>1. persisted' = {} /\ UNCHANGED <<pendLogs, flusher, db>>
  BY DEF OnChain, rowVars
<1>2. tasks' = tasks \/ tasks' = Append(tasks, t) \/ faulted' = TRUE
  BY DEF OnChain, Enqueued, ContractsRefused
<1>3. t \in Task /\ t.kind = "contracts"
  BY AdoptedRows, ChainsAreChains DEF Task
<1> HIDE DEF t
<1>4. CASE tasks' = tasks
  <2>1. RefsOk' BY <1>1, <1>4, RefsFrame DEF RefsOk
  <2> QED BY <2>1 DEF RefInv
<1>5. CASE tasks' = Append(tasks, t)
  <2>1. /\ persisted' \subseteq Stored \cup Brings(t)
        /\ pendLogs' \subseteq Stored \cup Brings(t)
        /\ flusher'.logs \subseteq Stored \cup Brings(t)
    BY <1>1 DEF RefsOk
  <2>2. RefsOk' BY <1>1, <1>3, <1>5, <2>1, RefsAppend
  <2> QED BY <2>2 DEF RefInv
<1> QED BY <1>2, <1>4, <1>5 DEF RefInv

LEMMA RefsSubmit ==
  ASSUME QueueInv, RefsOk, SubmitLogs \/ SubmitPoints PROVE RefInv'
<1> DEFINE l == [kind |-> "logs", ids |-> flusher.logs]
           p == [kind |-> "points", pts |-> flusher.points]
<1>1. UNCHANGED <<persisted, pendLogs, db>>
  BY DEF SubmitLogs, SubmitPoints, chainVars, rowVars
<1>2. \/ flusher'.logs = {} /\ (tasks' = tasks \/ tasks' = Append(tasks, l)
                                 \/ tasks' = Append(tasks, p))
      \/ faulted' = TRUE
  <2>1. flusher \in Flusher BY DEF QueueInv
  <2>2. [flusher EXCEPT !.pc = "points", !.logs = {}].logs = {}
    BY <2>1 DEF Flusher
  <2>3. NotFlushing.logs = {} BY DEF NotFlushing
  <2>4. CASE SubmitLogs
    <3>1. \/ /\ IF flusher.logs = {} THEN tasks' = tasks ELSE Enqueued(l)
             /\ flusher' = [flusher EXCEPT !.pc = "points", !.logs = {}]
          \/ faulted' = TRUE
      BY <2>4 DEF SubmitLogs
    <3> QED BY <2>2, <3>1 DEF Enqueued
  <2>5. CASE SubmitPoints
    <3>1. /\ flusher' = NotFlushing
          /\ (IF flusher.points = {} THEN tasks' = tasks ELSE Enqueued(p)) \/ faulted' = TRUE
      BY <2>5 DEF SubmitPoints
    <3> QED BY <2>3, <3>1 DEF Enqueued
  <2> QED BY <2>4, <2>5
<1>3. /\ l \in Task /\ l.ids = flusher.logs /\ p \in Task /\ p.kind # "logs"
  BY DEF QueueInv, Flusher, Task
<1> HIDE DEF l, p
<1>4. CASE flusher'.logs = {} /\ tasks' = tasks
  <2>1. RefsOk' BY <1>1, <1>4, RefsFrame DEF RefsOk
  <2> QED BY <2>1 DEF RefInv
<1>5. ASSUME NEW t \in {l, p}, flusher'.logs = {}, tasks' = Append(tasks, t)
      PROVE  RefInv'
  <2>1. t \in Task /\ (t.kind = "logs" => t.ids \subseteq Stored)
    BY <1>3, <1>5 DEF RefsOk
  <2>2. /\ persisted' \subseteq Stored \cup Brings(t)
        /\ pendLogs' \subseteq Stored \cup Brings(t)
        /\ flusher'.logs \subseteq Stored \cup Brings(t)
    BY <1>1, <1>5 DEF RefsOk
  <2>3. RefsOk' BY <1>1, <1>5, <2>1, <2>2, RefsAppend
  <2> QED BY <2>3 DEF RefInv
<1> QED BY <1>2, <1>4, <1>5 DEF RefInv

LEMMA RefsStep == IdInv /\ QueueInv /\ RefInv /\ [Next]_vars => RefInv'
<1> SUFFICES ASSUME IdInv, QueueInv, RefInv, [Next]_vars PROVE RefInv'
  OBVIOUS
<1>1. CASE faulted
  <2>1. faulted'
    <3>1. ASSUME NEW c \in Conns, HandlerStep(c) PROVE faulted'
      <4>1. ASSUME NEW kept, NEW sp, NEW f, OnChain(c, kept, sp, f) PROVE faulted'
        BY <1>1, <4>1, ZenonT(30) DEF OnChain, ContractsRefused
      <4>2. ASSUME NEW con, NEW i, NEW kind, OnOptComp(c, con, i, kind) PROVE faulted'
        BY <1>1, <4>2, ZenonT(30) DEF OnOptComp, ContractsRefused
      <4>3. CASE CopyChain(c) \/ ApplyChain(c) \/ ApplySpot(c) \/
                 OnStatus(c) \/ \E sp \in Spots : OnSpot(c, sp)
        BY <1>1, <4>3, ZenonT(30)
           DEF CopyChain, ApplyChain, ApplySpot, OnStatus, OnSpot, storeVars
      <4> QED BY <3>1, <4>1, <4>2, <4>3, ZenonT(30) DEF HandlerStep
    <3>2. ASSUME NEW matched, ApplyVendorOI(matched) PROVE faulted'
      BY <1>1, <3>2, ZenonT(30) DEF ApplyVendorOI, storeVars
    <3>3. CASE FlushAll \/ SubmitLogs \/ SubmitPoints
      BY <1>1, <3>3, ZenonT(30) DEF FlushAll, SubmitLogs, SubmitPoints, storeVars
    <3>4. CASE DrainErrors \/ CommitBatch \/ AbortBatch \/ UNCHANGED vars
      BY <1>1, <3>4, ZenonT(30) DEF DrainErrors, CommitBatch, AbortBatch, vars, storeVars
    <3> QED BY <3>1, <3>2, <3>3, <3>4, ZenonT(30) DEF Next
  <2> QED BY <2>1 DEF RefInv
<1>2. CASE RefsOk
  <2>1. ASSUME NEW c \in Conns, CopyChain(c) \/ ApplyChain(c) \/ ApplySpot(c) \/
               OnStatus(c) \/ \E sp \in Spots : OnSpot(c, sp)
        PROVE  RefInv'
    <3>1. UNCHANGED <<tasks, db, persisted, pendLogs, flusher>>
      BY <2>1 DEF CopyChain, ApplyChain, ApplySpot, OnStatus, OnSpot, chainVars, rowVars,
                  storeVars
    <3>2. RefsOk' BY <1>2, <3>1, RefsFrame DEF RefsOk
    <3> QED BY <3>2 DEF RefInv
  <2>2. ASSUME NEW c \in Conns, NEW kept \in (SUBSET Identities) \ {{}}, NEW sp \in Spots,
               NEW f \in Numberings(Bare(kept)), OnChain(c, kept, sp, f)
        PROVE  RefInv'
    BY <1>2, <2>2, RefsChain
  <2>3. ASSUME NEW c \in Conns, NEW con \in RealIds, NEW i \in Identities,
               NEW kind \in Kinds, OnOptComp(c, con, i, kind)
        PROVE  RefInv'
    BY <1>2, <2>3, RefsPatch
  <2>4. CASE \/ \E matched \in SUBSET DOMAIN chain : ApplyVendorOI(matched)
             \/ DrainErrors \/ UNCHANGED vars
    <3>1. UNCHANGED <<tasks, db, persisted, pendLogs, flusher>>
      BY <2>4 DEF ApplyVendorOI, DrainErrors, vars, chainVars, rowVars, storeVars
    <3>2. RefsOk' BY <1>2, <3>1, RefsFrame DEF RefsOk
    <3> QED BY <3>2 DEF RefInv
  <2>5. CASE FlushAll
    <3>1. /\ UNCHANGED <<tasks, db, persisted>> /\ pendLogs' = {}
          /\ flusher'.logs = pendLogs
      BY <2>5 DEF FlushAll, storeVars
    <3>2. RefsOk' BY <1>2, <3>1, RefsFrame DEF RefsOk
    <3> QED BY <3>2 DEF RefInv
  <2>6. CASE SubmitLogs \/ SubmitPoints
    BY <1>2, <2>6, RefsSubmit
  <2>7. CASE CommitBatch
    <3>1. /\ db'.cons = Stored /\ tasks' = <<>>
          /\ UNCHANGED <<persisted, pendLogs, flusher>>
      BY <2>7 DEF CommitBatch, Stored, QueuedContracts, chainVars, rowVars
    <3>2. TasksOf("logs")' = {} BY <3>1 DEF TasksOf
    <3>3. RefsOk' BY <1>2, <3>1, <3>2 DEF RefsOk, Stored
    <3> QED BY <3>3 DEF RefInv
  <2>8. CASE AbortBatch
    BY <2>8 DEF AbortBatch, RefInv
  <2> QED BY <2>1, <2>2, <2>3, <2>4, <2>5, <2>6, <2>7, <2>8 DEF Next, HandlerStep
<1> QED BY <1>1, <1>2 DEF RefInv

\* Without a refused enqueue or a failed transaction every queued computation
\* row finds its contract, whatever the order of handlers, flushes and
\* re-discoveries (ingest.go:35-37, 799-838).
THEOREM ReferencesHold == Spec => []RefsWithoutFault
<1>1. Init => IdInv /\ EventInv /\ QueueInv /\ RefInv
  <2> SUFFICES ASSUME Init PROVE IdInv /\ EventInv /\ QueueInv /\ RefInv
    OBVIOUS
  <2>1. IdInv BY IdInit
  <2>2. EventInv BY DEF Init, EventInv, Idle
  <2>3. QueueInv BY DEF Init, QueueInv, Flusher
  <2>4. RefsOk BY DEF Init, RefsOk, TasksOf
  <2> QED BY <2>1, <2>2, <2>3, <2>4 DEF RefInv
<1>2. IdInv /\ EventInv /\ QueueInv /\ RefInv /\ [Next]_vars
        => (IdInv /\ EventInv /\ QueueInv /\ RefInv)'
  BY IdStep, EventStep, QueueStep, RefsStep
<1>3. RefInv => RefsWithoutFault
  BY DEF RefInv, RefsOk, RefsWithoutFault
<1> QED BY <1>1, <1>2, <1>3, PTL DEF Spec

-----------------------------------------------------------------------------
(* Data points.                                                            *)

Held ==
  pendPoints \cup flusher.points \cup QueuedPoints \cup db.points \cup UNION lost

\* Every accepted point is in exactly one place.
Placed ==
  /\ accepted = Held
  /\ pendPoints \cap (flusher.points \cup QueuedPoints \cup db.points \cup UNION lost) = {}
  /\ flusher.points \cap (QueuedPoints \cup db.points \cup UNION lost) = {}
  /\ QueuedPoints \cap (db.points \cup UNION lost) = {} /\ db.points \cap UNION lost = {}

\* Every lost batch has its error.
Counted ==
  /\ IsFiniteSet(lost) /\ failed \in Nat /\ writeErrs \in Nat /\ errChans \in Nat
  /\ Cardinality(lost) + failed <= writeErrs + errChans

\* Points are numbers of past events, none of them of a spot still in flight.
PointInv ==
  /\ Held \subseteq 1..events
  /\ \A c \in Conns : pub[c].pc = "spot" => pub[c].event \notin Held
  /\ Placed /\ Counted

LEMMA InvAccounts == PointInv => PointsAccounted
BY DEF PointInv, Placed, Counted, Held, PointsAccounted

\* A handler's refused contract rows are counted on the spot.
Noted == \/ UNCHANGED <<failed, writeErrs>>
         \/ failed' = failed + 1 /\ writeErrs' = writeErrs + 1

LEMMA LossSeen ==
  ASSUME Counted, UNCHANGED <<lost, errChans>>, Noted
  PROVE  Counted'
<1>1. Cardinality(lost) \in Nat BY FS_CardinalityType DEF Counted
<1>2. CASE UNCHANGED <<failed, writeErrs>> BY <1>2 DEF Counted
<1>3. CASE failed' = failed + 1 /\ writeErrs' = writeErrs + 1 BY <1>1, <1>3 DEF Counted
<1> QED BY <1>2, <1>3 DEF Noted

\* A step that moves no point: events may be counted, spots may come in.
LEMMA PointsFrame ==
  ASSUME PointInv, EventInv, events' \in {events, events + 1}, Noted,
         UNCHANGED <<pendPoints, accepted, db, lost, errChans>>,
         flusher'.points = flusher.points, QueuedPoints' = QueuedPoints,
         \A c \in Conns : pub'[c].pc = "spot" =>
            pub'[c] = pub[c] \/ pub'[c].event = events + 1
  PROVE  PointInv'
<1>1. Held' = Held BY DEF Held
<1>2. Held' \subseteq 1..events' BY <1>1 DEF PointInv, EventInv
<1>3. ASSUME NEW c \in Conns, pub'[c].pc = "spot" PROVE pub'[c].event \notin Held'
  BY <1>1, <1>3 DEF PointInv, EventInv
<1>4. Placed' BY <1>1 DEF PointInv, Placed
<1>5. Counted' BY LossSeen DEF PointInv
<1> QED BY <1>2, <1>3, <1>4, <1>5 DEF PointInv

\* A step that adds one point to the pending ones.
LEMMA PointAdded ==
  ASSUME PointInv, EventInv, NEW e, e \in 1..events', e \notin Held,
         events' \in {events, events + 1}, Noted, Pends(e),
         UNCHANGED <<db, lost, errChans>>,
         flusher'.points = flusher.points, QueuedPoints' = QueuedPoints,
         \A c \in Conns : pub'[c].pc = "spot" => pub'[c] = pub[c] /\ pub[c].event # e
  PROVE  PointInv'
<1>0. pendPoints' = pendPoints \cup {e} /\ accepted' = accepted \cup {e} BY DEF Pends
<1>1. Held' = Held \cup {e} BY <1>0 DEF Held
<1>2. Held' \subseteq 1..events' BY <1>1 DEF PointInv, EventInv
<1>3. \A c \in Conns : pub'[c].pc = "spot" => pub'[c].event \notin Held'
  BY <1>1 DEF PointInv
<1>4. Placed'
  <2>1. accepted' = Held' BY <1>0, <1>1 DEF PointInv, Placed
  <2> QED BY <1>0, <2>1 DEF PointInv, Placed, Held
<1>5. Counted' BY LossSeen DEF PointInv
<1> QED BY <1>2, <1>3, <1>4, <1>5 DEF PointInv

LEMMA QueuedFrame == UNCHANGED tasks => QueuedPoints' = QueuedPoints
BY DEF QueuedPoints, QueuedBatches, TasksOf

LEMMA QueuedSame ==
  ASSUME QueueInv, NEW t \in Task, Points(t) = {}, tasks' = tasks \/ tasks' = Append(tasks, t)
  PROVE  QueuedPoints' = QueuedPoints
<1>1. CASE tasks' = tasks BY <1>1, QueuedFrame
<1>2. CASE tasks' = Append(tasks, t)
  <2>1. tasks \in Seq(Task) BY DEF QueueInv
  <2>2. QueuedPoints' = QueuedPoints \cup Points(t) BY <1>2, <2>1, QueueGrows
  <2> QED BY <2>2
<1> QED BY <1>1, <1>2

LEMMA PointsHandler ==
  ASSUME IdInv, EventInv, QueueInv, PointInv, NEW c \in Conns, HandlerStep(c)
  PROVE  PointInv'
<1>1. CASE CopyChain(c) \/ ApplyChain(c)
  <2>1. /\ UNCHANGED <<pendPoints, accepted, flusher, db, lost, errChans, tasks, events>>
        /\ Noted /\ \A d \in Conns : pub'[d].pc = "spot" => pub'[d] = pub[d]
    BY <1>1 DEF CopyChain, ApplyChain, EventInv, Idle, Noted, rowVars, storeVars
  <2> QED BY <2>1, PointsFrame, QueuedFrame
<1>2. CASE ApplySpot(c)
  <2>1. /\ UNCHANGED <<flusher, db, lost, errChans, tasks, events>> /\ Noted
        /\ pub[c].pc = "spot" /\ pub'[c].pc = "idle"
        /\ \A d \in Conns \ {c} : pub'[d] = pub[d]
        /\ UNCHANGED <<pendPoints, accepted>> \/ Pends(pub[c].event)
    BY <1>2 DEF ApplySpot, EventInv, Idle, Noted, storeVars
  <2>2. pub[c].event \in 1..events /\ pub[c].event \notin Held
    BY <2>1 DEF EventInv, PointInv
  <2>3. \A d \in Conns : pub'[d].pc = "spot" =>
           pub'[d] = pub[d] /\ pub[d].event # pub[c].event
    BY <2>1 DEF EventInv
  <2>4. CASE UNCHANGED <<pendPoints, accepted>>
    BY <2>1, <2>3, <2>4, PointsFrame, QueuedFrame
  <2>5. CASE Pends(pub[c].event)
    BY <2>1, <2>2, <2>3, <2>5, PointAdded, QueuedFrame
  <2> QED BY <2>1, <2>4, <2>5
<1>3. ASSUME NEW sp \in Spots, OnSpot(c, sp) PROVE PointInv'
  <2>1. /\ UNCHANGED <<pendPoints, accepted, flusher, db, lost, errChans, tasks>>
        /\ events' = events + 1 /\ pub'[c].event = events + 1 /\ Noted
        /\ \A d \in Conns \ {c} : pub'[d] = pub[d]
    BY <1>3 DEF OnSpot, Event, EventInv, Noted, rowVars, storeVars
  <2> QED BY <2>1, PointsFrame, QueuedFrame
<1>4. ASSUME NEW kept \in (SUBSET Identities) \ {{}}, NEW sp \in Spots,
             NEW f \in Numberings(Bare(kept)), OnChain(c, kept, sp, f)
      PROVE  PointInv'
  <2> DEFINE t == [kind |-> "contracts", rows |-> Adopted(kept, f)]
  <2>1. /\ UNCHANGED <<pendPoints, accepted, flusher, db, lost, errChans>>
        /\ events' = events + 1 /\ Noted
        /\ tasks' = tasks \/ tasks' = Append(tasks, t)
        /\ pub' = [Detached(c) EXCEPT ![c] = [pc |-> "copy", live |-> TRUE,
                                               rows |-> Adopted(kept, f), spot |-> sp]]
    BY <1>4 DEF OnChain, Event, Enqueued, Refused, ContractsRefused, Noted, rowVars
  <2>2. t \in Task /\ Points(t) = {}
    BY AdoptedRows, ChainsAreChains DEF Task, Points
  <2>3. QueuedPoints' = QueuedPoints
    BY <2>1, <2>2, QueuedSame
  <2>4. ASSUME NEW d \in Conns, pub'[d].pc = "spot" PROVE pub'[d] = pub[d]
    <3>1. d # c BY <2>1, <2>4 DEF Detached
    <3>2. CASE pub[d].pc = "copy"
      <4>1. pub[d] = [pc |-> "copy", live |-> pub[d].live, rows |-> pub[d].rows,
                      spot |-> pub[d].spot]
        BY <3>2 DEF EventInv
      <4>2. \/ pub'[d] = pub[d]
            \/ pub'[d] = [pub[d] EXCEPT !.live = FALSE, !.rows = chain]
        BY <2>1, <3>1 DEF Detached
      <4>3. [pub[d] EXCEPT !.live = FALSE, !.rows = chain].pc = "copy" BY <4>1
      <4> QED BY <2>4, <4>2, <4>3
    <3>3. CASE pub[d].pc # "copy" BY <2>1, <3>1, <3>3 DEF Detached
    <3> QED BY <3>2, <3>3
  <2> QED BY <2>1, <2>3, <2>4, PointsFrame
<1>5. ASSUME NEW con \in RealIds, NEW i \in Identities, NEW kind \in Kinds,
             OnOptComp(c, con, i, kind)
      PROVE  PointInv'
  <2> DEFINE t == [kind |-> "contracts", rows |-> [j \in {i} |-> chain'[i]]]
  <2>1. /\ UNCHANGED <<pub, flusher, db, lost, errChans>>
        /\ events' = events + 1 /\ Noted /\ Pends(events')
        /\ tasks' = tasks \/ tasks' = Append(tasks, t)
    BY <1>5 DEF OnOptComp, Event, Enqueued, Refused, ContractsRefused, Noted
  <2>2. t \in Task /\ Points(t) = {} BY <1>5, Patch1 DEF Points
  <2> HIDE DEF t
  <2>3. QueuedPoints' = QueuedPoints
    BY <2>1, <2>2, QueuedSame
  <2>4. events' \in 1..events' /\ events' \notin Held
        /\ \A d \in Conns : pub[d].pc = "spot" => pub[d].event # events'
    BY <2>1 DEF EventInv, PointInv
  <2> QED BY <2>1, <2>3, <2>4, PointAdded
<1>6. CASE OnStatus(c)
  <2>1. /\ UNCHANGED <<pub, flusher, db, lost, errChans, tasks>>
        /\ events' = events + 1 /\ Noted /\ Pends(events')
    BY <1>6 DEF OnStatus, Event, Noted, storeVars
  <2>2. events' \in 1..events' /\ events' \notin Held
        /\ \A d \in Conns : pub[d].pc = "spot" => pub[d].event # events'
    BY <2>1 DEF EventInv, PointInv
  <2> QED BY <2>1, <2>2, QueuedFrame, PointAdded
<1> QED BY <1>1, <1>2, <1>3, <1>4, <1>5, <1>6 DEF HandlerStep

LEMMA UnionCup ==
  ASSUME NEW A, NEW B PROVE UNION (A \cup B) = (UNION A) \cup (UNION B)
OBVIOUS

LEMMA UnionAdd ==
  ASSUME NEW A, NEW b PROVE UNION (A \cup {b}) = (UNION A) \cup b
OBVIOUS

\* One batch more is lost with one error more; so is a failure of another kind.
LEMMA OneLost ==
  ASSUME Counted, NEW b, errChans' = errChans, writeErrs' = writeErrs + 1,
         \/ lost' = lost \cup {b} /\ failed' = failed
         \/ lost' = lost /\ failed' = failed + 1
  PROVE  Counted'
<1>1. IsFiniteSet(lost) /\ Cardinality(lost) \in Nat BY FS_CardinalityType DEF Counted
<1>2. CASE lost' = lost /\ failed' = failed + 1 BY <1>1, <1>2 DEF Counted
<1>3. CASE lost' = lost \cup {b} /\ failed' = failed
  <2>1. IsFiniteSet(lost') /\ Cardinality(lost') \in {Cardinality(lost), Cardinality(lost) + 1}
    BY <1>1, <1>3, FS_AddElement
  <2> QED BY <1>1, <1>3, <2>1 DEF Counted
<1> QED BY <1>2, <1>3

\* An aborted queue loses as many batches as it had point tasks, at most.
LEMMA QueueLost ==
  ASSUME Counted, tasks \in Seq(Task), writeErrs' = writeErrs,
         errChans' = errChans + Cardinality(TasksOf("logs") \cup TasksOf("points")),
         lost' = lost \cup QueuedBatches, failed' = failed + Cardinality(TasksOf("logs"))
  PROVE  Counted'
<1> DEFINE L == TasksOf("logs")
           P == TasksOf("points")
           B == QueuedBatches
<1>1. IsFiniteSet(lost) /\ Cardinality(lost) \in Nat BY FS_CardinalityType DEF Counted
<1>2. IsFiniteSet(L) /\ IsFiniteSet(P) /\ L \cap P = {}
  <2>1. Len(tasks) \in Nat OBVIOUS
  <2>2. IsFiniteSet(1..Len(tasks)) BY <2>1, FS_Interval
  <2>3. L \subseteq 1..Len(tasks) /\ P \subseteq 1..Len(tasks) /\ L \cap P = {} BY DEF TasksOf
  <2> QED BY <2>2, <2>3, FS_Subset
<1>3. IsFiniteSet(B) /\ Cardinality(B) <= Cardinality(P)
  <2> DEFINE g == [k \in P |-> tasks[k].pts]
  <2>1. g \in Surjection(P, B) BY DEF Surjection, QueuedBatches
  <2> HIDE DEF g
  <2> QED BY <1>2, <2>1, FS_Surjection
<1>4. Cardinality(L) \in Nat /\ Cardinality(P) \in Nat /\ Cardinality(B) \in Nat
      /\ Cardinality(lost \cap B) \in Nat
  <2>1. IsFiniteSet(lost \cap B) BY <1>1, FS_Intersection
  <2> QED BY <1>2, <1>3, <2>1, FS_CardinalityType
<1>5. Cardinality(L \cup P) = Cardinality(L) + Cardinality(P)
  <2>1. Cardinality(L \cup P) = Cardinality(L) + Cardinality(P) - Cardinality(L \cap P)
    BY <1>2, FS_Union
  <2>2. Cardinality(L \cap P) = 0 BY <1>2, FS_EmptySet
  <2> HIDE DEF L, P
  <2> QED BY <1>4, <2>1, <2>2
<1>6. /\ IsFiniteSet(lost \cup B)
      /\ Cardinality(lost \cup B) = Cardinality(lost) + Cardinality(B) - Cardinality(lost \cap B)
  BY <1>1, <1>3, FS_Union
<1>7. /\ lost' = lost \cup B /\ errChans' = errChans + Cardinality(L \cup P)
      /\ failed' = failed + Cardinality(L)
  OBVIOUS
<1> HIDE DEF L, P, B
<1>8. /\ failed \in Nat /\ writeErrs \in Nat /\ errChans \in Nat
      /\ Cardinality(lost) + failed <= writeErrs + errChans
  BY DEF Counted
<1>9. IsFiniteSet(lost') BY <1>6, <1>7
<1>10. Cardinality(lost') = Cardinality(lost) + Cardinality(B) - Cardinality(lost \cap B)
  BY <1>6, <1>7
<1> DEFINE nl == Cardinality(L)
           np == Cardinality(P)
           nb == Cardinality(B)
           nc == Cardinality(lost \cap B)
           nn == Cardinality(lost)
<1>11. /\ errChans' = errChans + (nl + np) /\ failed' = failed + nl
       /\ Cardinality(lost') = nn + nb - nc /\ nb <= np
       /\ nn \in Nat /\ nl \in Nat /\ np \in Nat /\ nb \in Nat /\ nc \in Nat
       /\ nn + failed <= writeErrs + errChans
  BY <1>1, <1>3, <1>4, <1>5, <1>7, <1>8, <1>10
<1> HIDE DEF nl, np, nb, nc, nn
<1>12. /\ failed' \in Nat /\ writeErrs' \in Nat /\ errChans' \in Nat
       /\ Cardinality(lost') + failed' <= writeErrs' + errChans'
  BY <1>8, <1>11
<1> QED BY <1>9, <1>12 DEF Counted

LEMMA PointsStore ==
  ASSUME QueueInv, EventInv, PointInv, UNCHANGED <<pub, events>>,
         \/ FlushAll \/ SubmitLogs \/ SubmitPoints \/ DrainErrors \/ CommitBatch
         \/ AbortBatch
  PROVE  PointInv'
<1>1. ASSUME Held' = Held, Placed', Counted' PROVE PointInv'
  BY <1>1 DEF PointInv
<1>2. Placed /\ Counted /\ flusher \in Flusher /\ tasks \in Seq(Task)
  BY DEF PointInv, QueueInv
<1>3. CASE FlushAll
  <2>1. /\ UNCHANGED <<accepted, tasks, db, lost, failed, errChans, writeErrs>>
        /\ pendPoints' = {} /\ flusher'.points = pendPoints /\ flusher.pc = "idle"
    BY <1>3 DEF FlushAll, storeVars
  <2>2. flusher.points = {} BY <2>1 DEF QueueInv
  <2>3. Held' = Held BY <2>1, <2>2, QueuedFrame DEF Held
  <2>4. Placed' BY <1>2, <2>1, <2>2, <2>3, QueuedFrame DEF Placed
  <2>5. Counted' BY <1>2, <2>1, LossSeen DEF Noted
  <2> QED BY <1>1, <2>3, <2>4, <2>5
<1>4. CASE SubmitLogs
  <2> DEFINE t == [kind |-> "logs", ids |-> flusher.logs]
  <2>1. UNCHANGED <<pendPoints, accepted, db, errChans>> BY <1>4 DEF SubmitLogs, rowVars
  <2>2. t \in Task /\ Points(t) = {} BY <1>2 DEF Task, Points, Flusher
  <2>3. CASE /\ tasks' = tasks \/ tasks' = Append(tasks, t)
             /\ flusher' = [flusher EXCEPT !.pc = "points", !.logs = {}]
             /\ UNCHANGED <<writeErrs, lost, failed>>
    <3>1. QueuedPoints' = QueuedPoints BY <2>2, <2>3, QueuedSame
    <3>2. flusher'.points = flusher.points BY <1>2, <2>3 DEF Flusher
    <3>3. Held' = Held BY <2>1, <2>3, <3>1, <3>2 DEF Held
    <3>4. Placed' BY <1>2, <2>1, <2>3, <3>1, <3>2, <3>3 DEF Placed
    <3>5. Counted' BY <1>2, <2>1, <2>3, LossSeen DEF Noted
    <3> QED BY <1>1, <3>3, <3>4, <3>5
  <2>4. CASE /\ tasks' = tasks /\ writeErrs' = writeErrs + 1 /\ flusher' = NotFlushing
             /\ \/ flusher.points = {} /\ lost' = lost /\ failed' = failed + 1
                \/ lost' = lost \cup {flusher.points} /\ failed' = failed
    <3>1. QueuedPoints' = QueuedPoints /\ flusher'.points = {}
      BY <2>4, QueuedFrame DEF NotFlushing
    <3>2. UNION lost' = (UNION lost) \cup flusher.points BY <2>4, UnionAdd, Zenon
    <3>3. Held' = Held BY <2>1, <3>1, <3>2 DEF Held
    <3>4. Placed' BY <1>2, <2>1, <3>1, <3>2, <3>3 DEF Placed
    <3>5. Counted' BY <1>2, <2>1, <2>4, OneLost
    <3> QED BY <1>1, <3>3, <3>4, <3>5
  <2>5. \/ /\ tasks' = tasks \/ tasks' = Append(tasks, t)
           /\ flusher' = [flusher EXCEPT !.pc = "points", !.logs = {}]
           /\ UNCHANGED <<writeErrs, lost, failed>>
        \/ /\ tasks' = tasks /\ writeErrs' = writeErrs + 1 /\ flusher' = NotFlushing
           /\ \/ flusher.points = {} /\ lost' = lost /\ failed' = failed + 1
              \/ lost' = lost \cup {flusher.points} /\ failed' = failed
    BY <1>4 DEF SubmitLogs, Enqueued, Refused, LogsRefused
  <2> QED BY <2>3, <2>4, <2>5
<1>5. CASE SubmitPoints
  <2> DEFINE t == [kind |-> "points", pts |-> flusher.points]
  <2>1. UNCHANGED <<pendPoints, accepted, db, errChans, failed>> /\ flusher'.points = {}
    BY <1>5 DEF SubmitPoints, rowVars, NotFlushing
  <2>2. t \in Task /\ Points(t) = flusher.points BY <1>2 DEF Task, Points, Flusher
  <2>3. CASE flusher.points = {} /\ UNCHANGED <<tasks, writeErrs, lost>>
    <3>1. Held' = Held BY <2>1, <2>3, QueuedFrame DEF Held
    <3>2. Placed' BY <1>2, <2>1, <2>3, <3>1, QueuedFrame DEF Placed
    <3>3. Counted' BY <1>2, <2>1, <2>3, LossSeen DEF Noted
    <3> QED BY <1>1, <3>1, <3>2, <3>3
  <2>4. CASE tasks' = Append(tasks, t) /\ UNCHANGED <<writeErrs, lost>>
    <3>1. QueuedPoints' = QueuedPoints \cup flusher.points
      BY <1>2, <2>2, <2>4, QueueGrows
    <3>2. Held' = Held BY <2>1, <2>4, <3>1 DEF Held
    <3>3. Placed' BY <1>2, <2>1, <2>4, <3>1, <3>2 DEF Placed
    <3>4. Counted' BY <1>2, <2>1, <2>4, LossSeen DEF Noted
    <3> QED BY <1>1, <3>2, <3>3, <3>4
  <2>5. CASE /\ tasks' = tasks /\ writeErrs' = writeErrs + 1
             /\ lost' = lost \cup {flusher.points}
    <3>1. UNION lost' = (UNION lost) \cup flusher.points BY <2>5, UnionAdd, Zenon
    <3>2. Held' = Held BY <2>1, <2>5, <3>1, QueuedFrame DEF Held
    <3>3. Placed' BY <1>2, <2>1, <2>5, <3>1, <3>2, QueuedFrame DEF Placed
    <3>4. Counted' BY <1>2, <2>1, <2>5, OneLost
    <3> QED BY <1>1, <3>2, <3>3, <3>4
  <2>6. \/ flusher.points = {} /\ UNCHANGED <<tasks, writeErrs, lost>>
        \/ tasks' = Append(tasks, t) /\ UNCHANGED <<writeErrs, lost>>
        \/ /\ tasks' = tasks /\ writeErrs' = writeErrs + 1
           /\ lost' = lost \cup {flusher.points}
    BY <1>5 DEF SubmitPoints, Enqueued, Refused
  <2> QED BY <2>3, <2>4, <2>5, <2>6
<1>6. CASE DrainErrors
  <2>1. /\ UNCHANGED <<pendPoints, accepted, flusher, tasks, db, lost, failed>>
        /\ writeErrs' = writeErrs + errChans /\ errChans' = 0
    BY <1>6 DEF DrainErrors, rowVars
  <2>2. Counted'
    <3>1. Cardinality(lost) \in Nat BY <1>2, FS_CardinalityType DEF Counted
    <3> QED BY <1>2, <2>1, <3>1 DEF Counted
  <2>3. Held' = Held BY <2>1, QueuedFrame DEF Held
  <2>4. Placed' BY <1>2, <2>1, <2>3, QueuedFrame DEF Placed
  <2> QED BY <1>1, <2>2, <2>3, <2>4
<1>7. CASE CommitBatch
  <2>1. /\ UNCHANGED <<pendPoints, accepted, flusher, lost, failed, writeErrs, errChans>>
        /\ tasks' = <<>> /\ db'.points = db.points \cup QueuedPoints
    BY <1>7 DEF CommitBatch, rowVars
  <2>2. QueuedPoints' = {} BY <2>1 DEF QueuedPoints, QueuedBatches, TasksOf
  <2>3. Held' = Held BY <2>1, <2>2 DEF Held
  <2>4. Placed' BY <1>2, <2>1, <2>2, <2>3 DEF Placed
  <2>5. Counted' BY <1>2, <2>1, LossSeen DEF Noted
  <2> QED BY <1>1, <2>3, <2>4, <2>5
<1>8. CASE AbortBatch
  <2>1. /\ UNCHANGED <<pendPoints, accepted, flusher, db, writeErrs>> /\ tasks' = <<>>
        /\ errChans' = errChans + Cardinality(TasksOf("logs") \cup TasksOf("points"))
        /\ lost' = lost \cup QueuedBatches
        /\ failed' = failed + Cardinality(TasksOf("logs"))
    BY <1>8 DEF AbortBatch, rowVars
  <2>2. QueuedPoints' = {} BY <2>1 DEF QueuedPoints, QueuedBatches, TasksOf
  <2>3. UNION lost' = (UNION lost) \cup QueuedPoints BY <2>1, UnionCup, Zenon DEF QueuedPoints
  <2>4. Held' = Held BY <2>1, <2>2, <2>3 DEF Held
  <2>5. Placed' BY <1>2, <2>1, <2>2, <2>3, <2>4 DEF Placed
  <2>6. Counted' BY <1>2, <2>1, QueueLost
  <2> QED BY <1>1, <2>4, <2>5, <2>6
<1> QED BY <1>3, <1>4, <1>5, <1>6, <1>7, <1>8

LEMMA PointsStep ==
  IdInv /\ EventInv /\ QueueInv /\ PointInv /\ [Next]_vars => PointInv'
<1> SUFFICES ASSUME IdInv, EventInv, QueueInv, PointInv, [Next]_vars PROVE PointInv'
  OBVIOUS
<1>1. ASSUME NEW c \in Conns, HandlerStep(c) PROVE PointInv'
  BY <1>1, PointsHandler
<1>2. CASE \/ \E matched \in SUBSET DOMAIN chain : ApplyVendorOI(matched)
           \/ UNCHANGED vars
  <2>1. /\ UNCHANGED <<pub, pendPoints, accepted, flusher, db, lost, errChans, tasks>>
        /\ events' \in {events, events + 1} /\ Noted
    BY <1>2 DEF ApplyVendorOI, Noted, vars, rowVars, storeVars
  <2> QED BY <2>1, PointsFrame, QueuedFrame
<1>3. CASE \/ FlushAll \/ SubmitLogs \/ SubmitPoints \/ DrainErrors \/ CommitBatch
           \/ AbortBatch
  <2>1. UNCHANGED <<pub, events>>
    BY <1>3 DEF FlushAll, SubmitLogs, SubmitPoints, DrainErrors, CommitBatch, AbortBatch
  <2> QED BY <1>3, <2>1, PointsStore
<1> QED BY <1>1, <1>2, <1>3 DEF Next

\* Every data point a handler appended is in exactly one place, from the handler
\* to the database, none is dropped on the way, and every lost batch has a write
\* error of its own, counted or about to be (ingest.go:216-285).
THEOREM PointsAreAccounted == Spec => []PointsAccounted
<1>1. Init => IdInv /\ EventInv /\ QueueInv /\ PointInv
  <2> SUFFICES ASSUME Init PROVE IdInv /\ EventInv /\ QueueInv /\ PointInv
    OBVIOUS
  <2>1. IdInv BY IdInit
  <2>2. EventInv BY DEF Init, EventInv, Idle
  <2>3. QueueInv BY DEF Init, QueueInv, Flusher
  <2>4. QueuedPoints = {} BY DEF Init, QueuedPoints, QueuedBatches, TasksOf
  <2>5. Held = {} BY <2>4 DEF Init, Held
  <2>6. Placed BY <2>4, <2>5 DEF Init, Placed
  <2>7. Counted BY FS_EmptySet DEF Init, Counted
  <2>8. PointInv BY <2>5, <2>6, <2>7 DEF Init, PointInv, Idle
  <2> QED BY <2>1, <2>2, <2>3, <2>8
<1>2. IdInv /\ EventInv /\ QueueInv /\ PointInv /\ [Next]_vars
        => (IdInv /\ EventInv /\ QueueInv /\ PointInv)'
  BY IdStep, EventStep, QueueStep, PointsStep
<1>3. PointInv => PointsAccounted BY InvAccounts
<1> QED BY <1>1, <1>2, <1>3, PTL DEF Spec
=============================================================================
