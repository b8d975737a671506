------------------------ MODULE EvidenceSearchProofs ------------------------
(***************************************************************************)
(* Theorems about the evidence that searches return, for any index, any    *)
(* requests sharing a cache, and any changes of policies between their     *)
(* steps: whose evidence it is, when it was readable, what is left out of  *)
(* it and in which order it comes, from a leg to the answer of a tool.     *)
(***************************************************************************)
EXTENDS InvestigationToolsProofs, OrderingsProofs, SequenceTheorems

-----------------------------------------------------------------------------
(* Rankings.                                                               *)

\* The hits that entries of an index give rise to.
HitsOf(index) == {Hit(e, score) : e \in index, score \in Int}

\* What the constants say of an index: a chunk has one entry.
IndexSound(index) ==
  /\ IsFiniteSet(index)
  /\ \A e \in index : {e.chunk, e.match, e.near} \subseteq Int
  /\ \A e, f \in index : e.chunk = f.chunk => e = f

\* At most one hit per chunk.
Distinct(hits) == \A h, k \in hits : h.chunk = k.chunk => h = k

\* A sequence of hits of different chunks.
LegSound(index, leg) ==
  /\ leg \in Seq(HitsOf(index))
  /\ \A m, n \in DOMAIN leg : leg[m].chunk = leg[n].chunk => m = n

\* The fields of a hit.
LEMMA HitFields ==
  ASSUME NEW e, NEW score
  PROVE  LET h == Hit(e, score)
         IN /\ h.chunk = e.chunk /\ h.version = e.version /\ h.score = score
            /\ h.tenant = e.tenant /\ h.document = e.document
            /\ \A other : [h EXCEPT !.score = other] = Hit(e, other)
BY DEF Hit

\* A hit of an index comes from one of its entries; hits of one chunk differ
\* at most in their scores.
LEMMA HitsOfFacts ==
  ASSUME NEW index, IndexSound(index), NEW h \in HitsOf(index)
  PROVE  /\ h.chunk \in Int /\ h.score \in Int
         /\ \A score \in Int : LET t == [h EXCEPT !.score = score]
                               IN /\ t \in HitsOf(index) /\ t.score = score /\ t.chunk = h.chunk
                                  /\ RefOf(t) = RefOf(h) /\ ChunkVersion(t) = ChunkVersion(h)
         /\ \A k \in HitsOf(index) : k.chunk = h.chunk =>
              /\ RefOf(k) = RefOf(h) /\ ChunkVersion(k) = ChunkVersion(h)
              /\ \A score \in Int : [k EXCEPT !.score = score] = [h EXCEPT !.score = score]
              /\ k.score = h.score => k = h
<1>1. PICK e \in index, s \in Int : h = Hit(e, s)
  BY DEF HitsOf
<1>2. ASSUME NEW score \in Int
      PROVE  LET t == [h EXCEPT !.score = score]
             IN /\ t \in HitsOf(index) /\ t.score = score /\ t.chunk = h.chunk
                /\ RefOf(t) = RefOf(h) /\ ChunkVersion(t) = ChunkVersion(h)
  <2>1. [h EXCEPT !.score = score] = Hit(e, score)
    BY <1>1, HitFields
  <2>2. Hit(e, score) \in HitsOf(index)
    BY DEF HitsOf
  <2>3. QED
    BY <1>1, <2>1, <2>2, HitFields DEF RefOf, ChunkVersion
<1>3. ASSUME NEW k \in HitsOf(index), k.chunk = h.chunk
      PROVE  /\ RefOf(k) = RefOf(h) /\ ChunkVersion(k) = ChunkVersion(h)
             /\ \A score \in Int : [k EXCEPT !.score = score] = [h EXCEPT !.score = score]
             /\ k.score = h.score => k = h
  <2>1. PICK f \in index, t \in Int : k = Hit(f, t)
    BY DEF HitsOf
  <2>2. f = e
    BY <1>1, <1>3, <2>1, HitFields DEF IndexSound
  <2>3. QED
    BY <1>1, <2>1, <2>2, HitFields DEF RefOf, ChunkVersion
<1>4. QED
  BY <1>1, <1>2, <1>3, HitFields DEF IndexSound

\* The order of a ranking.
Before(h, k) == h.score > k.score \/ (h.score = k.score /\ h.chunk < k.chunk)

\* A set of hits of different chunks, ranked: all of them, in order.
LEMMA ByScoreFacts ==
  ASSUME NEW index, IndexSound(index), NEW hits, hits \subseteq HitsOf(index),
         IsFiniteSet(hits), Distinct(hits)
  PROVE  /\ ByScore(hits) \in Seq(hits) /\ LegSound(index, ByScore(hits))
         /\ \A h \in hits : \E n \in DOMAIN ByScore(hits) : ByScore(hits)[n] = h
         /\ \A m, n \in DOMAIN ByScore(hits) :
              m < n <=> Before(ByScore(hits)[m], ByScore(hits)[n])
<1> DEFINE before == {p \in hits \X hits : Before(p[1], p[2])}
           sorted == ByScore(hits)
           size == Cardinality(hits)
<1>1. sorted = Sorted(hits, before)
  BY DEF ByScore, Before
<1>2. \A h, k \in hits : <<h, k>> \in before <=> Before(h, k)
  OBVIOUS
<1>3. \A h \in hits : h.score \in Int /\ h.chunk \in Int
  BY HitsOfFacts
<1> HIDE DEF before, sorted, size
<1>4. StrictTotalOrder(before, hits)
  <2>1. \A h \in hits : <<h, h>> \notin before
    BY <1>2, <1>3 DEF Before
  <2>2. \A h, k \in hits : h # k => h.chunk # k.chunk
    BY DEF Distinct
  <2>3. \A h, k \in hits : h # k => <<h, k>> \in before \/ <<k, h>> \in before
    BY <1>2, <1>3, <2>2 DEF Before
  <2>4. \A h, k, l \in hits : Before(h, k) /\ Before(k, l) => Before(h, l)
    BY <1>3 DEF Before
  <2>5. \A h, k, l \in hits : <<h, k>> \in before /\ <<k, l>> \in before => <<h, l>> \in before
    BY <1>2, <2>4
  <2>6. QED
    BY <2>1, <2>3, <2>5 DEF StrictTotalOrder
<1>5. /\ size \in Nat /\ sorted \in [1..size -> hits]
      /\ \A h \in hits : \E n \in 1..size : sorted[n] = h
      /\ \A m, n \in 1..size : m < n <=> <<sorted[m], sorted[n]>> \in before
  BY <1>1, <1>4, SortedFacts DEF size
<1>6. sorted \in Seq(hits) /\ DOMAIN sorted = 1..size
  BY <1>5
<1>7. sorted \in Seq(HitsOf(index))
  BY <1>6
<1>8. \A m, n \in 1..size : m < n <=> Before(sorted[m], sorted[n])
  BY <1>2, <1>5
<1>9. \A m, n \in 1..size : sorted[m].chunk = sorted[n].chunk => m = n
  <2> SUFFICES ASSUME NEW m \in 1..size, NEW n \in 1..size, sorted[m].chunk = sorted[n].chunk
               PROVE  m = n
    OBVIOUS
  <2>1. sorted[m] = sorted[n] /\ m \in Int /\ n \in Int
    BY <1>5 DEF Distinct
  <2>2. ~(m < n) /\ ~(n < m)
    BY <1>5, <1>3, <1>8, <2>1 DEF Before
  <2>3. QED
    BY <2>1, <2>2
<1>10. QED
  BY <1>5, <1>6, <1>7, <1>8, <1>9 DEF LegSound, sorted

\* A part of a sequence, by its bounds.
LEMMA PartFacts ==
  ASSUME NEW S, NEW s \in Seq(S), NEW m \in Nat \ {0}, NEW n \in Nat, n <= Len(s)
  PROVE  LET part == SubSeq(s, m, n)
         IN /\ part \in Seq(S) /\ Len(part) \in Nat /\ DOMAIN part = 1..Len(part)
            /\ Len(part) = IF m <= n THEN n - m + 1 ELSE 0
            /\ \A i \in 1..Len(part) : i + (m - 1) \in 1..Len(s) /\ part[i] = s[i + (m - 1)]
<1> DEFINE part == SubSeq(s, m, n)
<1>1. m \in Int /\ n \in Int /\ \A i \in m..n : s[i] \in S
  OBVIOUS
<1>2. /\ part \in Seq(S)
      /\ Len(part) = IF m <= n THEN n - m + 1 ELSE 0
      /\ \A i \in 1..n - m + 1 : part[i] = s[m + i - 1]
  BY <1>1, SubSeqProperties
<1> HIDE DEF part
<1>3. Len(part) \in Nat /\ DOMAIN part = 1..Len(part)
  BY <1>2
<1>4. ASSUME NEW i \in 1..Len(part)
      PROVE  i + (m - 1) \in 1..Len(s) /\ part[i] = s[i + (m - 1)]
  <2>1. i \in 1..n - m + 1 /\ m + i - 1 = i + (m - 1) /\ m + i - 1 \in 1..Len(s)
    BY <1>2, <1>3
  <2>2. QED
    BY <1>2, <2>1
<1>5. QED
  BY <1>2, <1>3, <1>4 DEF part

\* A page of a ranking, or its beginning, has at most as many hits as its size,
\* of different chunks and in the same order.
LEMMA PageFacts ==
  ASSUME NEW index, NEW leg, LegSound(index, leg), NEW from \in Nat, NEW size \in Nat
  PROVE  LET end == from + size
             page == SubSeq(leg, from + 1, IF end < Len(leg) THEN end ELSE Len(leg))
         IN /\ LegSound(index, page) /\ Len(page) <= size
            /\ \A n \in DOMAIN page : n + from \in DOMAIN leg /\ page[n] = leg[n + from]
            /\ (from = 0) => Len(page) = IF size < Len(leg) THEN size ELSE Len(leg)
<1> DEFINE last == IF from + size < Len(leg) THEN from + size ELSE Len(leg)
           first == from + 1
           page == SubSeq(leg, first, last)
<1>1. leg \in Seq(HitsOf(index)) /\ Len(leg) \in Nat /\ DOMAIN leg = 1..Len(leg)
  BY DEF LegSound
<1>2. last \in Nat /\ last <= Len(leg) /\ last <= from + size
  BY <1>1
<1>3. (from = 0) => last = IF size < Len(leg) THEN size ELSE Len(leg)
  OBVIOUS
<1>4. first \in Nat \ {0} /\ first - 1 = from
  OBVIOUS
<1> HIDE DEF last, first
<1>5. /\ page \in Seq(HitsOf(index)) /\ Len(page) \in Nat /\ DOMAIN page = 1..Len(page)
      /\ Len(page) = IF first <= last THEN last - first + 1 ELSE 0
      /\ \A i \in 1..Len(page) : i + (first - 1) \in 1..Len(leg) /\ page[i] = leg[i + (first - 1)]
  BY <1>1, <1>2, <1>4, PartFacts
<1> HIDE DEF page
<1>6. Len(page) = IF first <= last THEN last - from ELSE 0
  BY <1>2, <1>4, <1>5
<1>7. Len(page) <= size
  BY <1>2, <1>4, <1>5
<1>8. \A i \in 1..Len(page) : i + from \in 1..Len(leg) /\ page[i] = leg[i + from]
  BY <1>4, <1>5
<1>9. ASSUME NEW m \in DOMAIN page, NEW n \in DOMAIN page, page[m].chunk = page[n].chunk
      PROVE  m = n
  <2>1. m + from \in DOMAIN leg /\ n + from \in DOMAIN leg
    BY <1>1, <1>5, <1>8
  <2>2. m + from = n + from
    BY <1>5, <1>8, <1>9, <2>1 DEF LegSound
  <2>3. QED
    BY <2>2, <1>5
<1>10. (from = 0) => Len(page) = IF size < Len(leg) THEN size ELSE Len(leg)
  <2> SUFFICES ASSUME from = 0  PROVE  Len(page) = IF size < Len(leg) THEN size ELSE Len(leg)
    OBVIOUS
  <2>1. first = 1
    BY <1>4
  <2>2. Len(page) = last
    BY <2>1, <1>2, <1>5
  <2>3. QED
    BY <2>2, <1>3
<1>11. LegSound(index, page)
  BY <1>5, <1>9 DEF LegSound
<1>12. QED
  BY <1>1, <1>5, <1>7, <1>8, <1>10, <1>11 DEF last, first, page

\* The first hits of a ranking.
LEMMA FirstFacts ==
  ASSUME NEW index, NEW leg, LegSound(index, leg), NEW size \in Nat
  PROVE  LET first == SubSeq(leg, 1, IF size < Len(leg) THEN size ELSE Len(leg))
         IN /\ LegSound(index, first) /\ Len(first) <= size /\ Len(first) <= Len(leg)
            /\ \A n \in DOMAIN first : n \in DOMAIN leg /\ first[n] = leg[n]
            /\ Len(first) = IF size < Len(leg) THEN size ELSE Len(leg)
<1> DEFINE first == SubSeq(leg, 1, IF size < Len(leg) THEN size ELSE Len(leg))
           page(from) == SubSeq(leg, from + 1, IF from + size < Len(leg) THEN from + size
                                               ELSE Len(leg))
<1>1. /\ LegSound(index, page(0)) /\ Len(page(0)) <= size
      /\ \A n \in DOMAIN page(0) : n + 0 \in DOMAIN leg /\ page(0)[n] = leg[n + 0]
      /\ Len(page(0)) = IF size < Len(leg) THEN size ELSE Len(leg)
  <2>1. ASSUME NEW from \in Nat
        PROVE  /\ LegSound(index, page(from)) /\ Len(page(from)) <= size
               /\ \A n \in DOMAIN page(from) :
                    n + from \in DOMAIN leg /\ page(from)[n] = leg[n + from]
               /\ (from = 0) => Len(page(from)) = IF size < Len(leg) THEN size ELSE Len(leg)
    BY PageFacts
  <2> HIDE DEF page
  <2>2. QED
    BY <2>1
<1>2. 0 + 1 = 1 /\ 0 + size = size
  OBVIOUS
<1>3. page(0) = first
  BY <1>2
<1> HIDE DEF page, first
<1>4. first \in Seq(HitsOf(index)) /\ leg \in Seq(HitsOf(index))
  BY <1>1, <1>3 DEF LegSound
<1>5. \A n \in DOMAIN first : n + 0 = n
  BY <1>4
<1>6. Len(first) <= Len(leg)
  BY <1>1, <1>3, <1>4
<1>7. QED
  BY <1>1, <1>3, <1>5, <1>6 DEF first

\* Reading together is reading each one alone.
LEMMA ReadAlone ==
  ASSUME NEW p, NEW R, NEW rows, NEW d
  PROVE  d \in AuthorizeReads(p, R, rows) <=> d \in R /\ d \in AuthorizeReads(p, {d}, rows)
BY DEF AuthorizeReads

\* A page of a set of hits of different chunks.
LEMMA RankedFacts ==
  ASSUME NEW index, IndexSound(index), NEW hits, hits \subseteq HitsOf(index),
         IsFiniteSet(hits), Distinct(hits),
         NEW context, context.offset \in Nat, context.limit \in Nat
  PROVE  LegSound(index, Ranked(hits, context)) /\ Len(Ranked(hits, context)) <= context.limit
<1> DEFINE from == context.offset
           size == context.limit
           leg == ByScore(hits)
           end == from + size
           page == SubSeq(leg, from + 1, IF end < Len(leg) THEN end ELSE Len(leg))
<1>1. LegSound(index, leg)
  BY ByScoreFacts
<1>2. Ranked(hits, context) = page
  BY DEF Ranked
<1>3. from \in Nat /\ size \in Nat
  OBVIOUS
<1> HIDE DEF leg, from, size
<1>4. LegSound(index, page) /\ Len(page) <= size
  BY <1>1, <1>3, PageFacts
<1>5. QED
  BY <1>2, <1>4 DEF size

\* The values of a function at finitely many places are finitely many.
LEMMA ValuesFinite ==
  ASSUME NEW S, IsFiniteSet(S), NEW f
  PROVE  IsFiniteSet({f[x] : x \in S})
<1> DEFINE g == [x \in S |-> f[x]]
           T == {f[x] : x \in S}
<1>1. g \in Surjection(S, T)
  BY DEF Surjection
<1> HIDE DEF g, T
<1>2. IsFiniteSet(T)
  BY <1>1, FS_Surjection
<1>3. QED
  BY <1>2 DEF T

\* Both queries find sequences of hits of different chunks, no longer than the limit.
LEMMA QueryFacts ==
  ASSUME NEW index, IndexSound(index), NEW p, NEW context,
         context.offset \in Nat, context.limit \in Nat
  PROVE  /\ LegSound(index, LexicalHits(index, p, context))
         /\ Len(LexicalHits(index, p, context)) <= context.limit
         /\ LegSound(index, DenseHits(index, p, context))
         /\ Len(DenseHits(index, p, context)) <= context.limit
<1>1. ASSUME NEW some \in SUBSET index, NEW score \in [index -> Int]
      PROVE  LET hits == {Hit(e, score[e]) : e \in some}
             IN hits \subseteq HitsOf(index) /\ IsFiniteSet(hits) /\ Distinct(hits)
  <2> DEFINE hits == {Hit(e, score[e]) : e \in some}
             hit == [e \in some |-> Hit(e, score[e])]
  <2>1. hits \subseteq HitsOf(index)
    BY <1>1 DEF HitsOf
  <2>2. IsFiniteSet(hits)
    <3>1. IsFiniteSet(some)
      BY FS_Subset DEF IndexSound
    <3>2. hits = {hit[e] : e \in some}
      OBVIOUS
    <3> HIDE DEF hits, hit
    <3>3. QED
      BY <3>1, <3>2, ValuesFinite
  <2>3. Distinct(hits)
    BY HitFields DEF Distinct, IndexSound
  <2>4. QED
    BY <2>1, <2>2, <2>3
<1> DEFINE matched == {f \in index : f.match > 0 /\ Matches(f, p, context)}
           near == {f \in index : f.corpus = Corpus /\ Matches(f, p, context)}
           lexical == {Hit(e, e.match) : e \in matched}
           dense == {Hit(e, e.near) : e \in near}
<1>2. matched \subseteq index /\ near \subseteq index
  OBVIOUS
<1>3. /\ LexicalHits(index, p, context) = Ranked(lexical, context)
      /\ DenseHits(index, p, context) = Ranked(dense, context)
  BY DEF LexicalHits, DenseHits
<1> HIDE DEF matched, near
<1>4. \A e \in index : e.match \in Int /\ e.near \in Int
  BY DEF IndexSound
<1>5. lexical \subseteq HitsOf(index) /\ IsFiniteSet(lexical) /\ Distinct(lexical)
  <2> DEFINE score == [e \in index |-> e.match]
             hits == {Hit(e, score[e]) : e \in matched}
  <2>1. score \in [index -> Int] /\ lexical = hits
    BY <1>2, <1>4
  <2> HIDE DEF score, lexical
  <2>2. hits \subseteq HitsOf(index) /\ IsFiniteSet(hits) /\ Distinct(hits)
    BY <1>1, <1>2, <2>1
  <2>3. QED
    BY <2>1, <2>2
<1>6. dense \subseteq HitsOf(index) /\ IsFiniteSet(dense) /\ Distinct(dense)
  <2> DEFINE score == [e \in index |-> e.near]
             hits == {Hit(e, score[e]) : e \in near}
  <2>1. score \in [index -> Int] /\ dense = hits
    BY <1>2, <1>4
  <2> HIDE DEF score, dense
  <2>2. hits \subseteq HitsOf(index) /\ IsFiniteSet(hits) /\ Distinct(hits)
    BY <1>1, <1>2, <2>1
  <2>3. QED
    BY <2>1, <2>2
<1> HIDE DEF lexical, dense
<1>7. QED
  BY <1>3, <1>5, <1>6, RankedFacts

\* Of a leg, the hits that may be read now, and all of them.
LEMMA AuthorizedFacts ==
  ASSUME NEW index, NEW leg, LegSound(index, leg), NEW p, NEW rows
  PROVE  LET kept == Authorized(leg, p, rows)
             Readable(h) == RefOf(h) \in AuthorizeReads(p, {RefOf(h)}, rows)
         IN /\ LegSound(index, kept) /\ Len(kept) <= Len(leg)
            /\ \A n \in DOMAIN kept : Readable(kept[n])
            /\ \A n \in DOMAIN leg : Readable(leg[n]) => \E m \in DOMAIN kept : kept[m] = leg[n]
<1> DEFINE kept == Authorized(leg, p, rows)
           Readable(h) == RefOf(h) \in AuthorizeReads(p, {RefOf(h)}, rows)
           places == {n \in DOMAIN leg : Readable(leg[n])}
           size == Cardinality(places)
<1>1. leg \in Seq(HitsOf(index)) /\ Len(leg) \in Nat /\ DOMAIN leg = 1..Len(leg)
  BY DEF LegSound
<1>2. CASE ~p.known
  <2>1. kept = <<>>
    BY <1>2 DEF Authorized
  <2>2. \A h : ~Readable(h)
    BY <1>2 DEF AuthorizeReads
  <2>3. LegSound(index, <<>>) /\ Len(<<>>) = 0
    BY DEF LegSound
  <2> HIDE DEF kept, Readable
  <2>4. QED
    BY <1>1, <2>1, <2>2, <2>3 DEF kept, Readable
<1>3. CASE p.known
  <2>1. \A n \in DOMAIN leg :
          RefOf(leg[n]) \in AuthorizeReads(p, {RefOf(h) : h \in ToSet(leg)}, rows) <=> n \in places
    BY ReadAlone DEF ToSet
  <2>2. kept = Selected(leg, places)
    <3>1. {n \in DOMAIN leg : RefOf(leg[n]) \in AuthorizeReads(p, {RefOf(h) : h \in ToSet(leg)}, rows)}
            = places
      BY <2>1
    <3> HIDE DEF places
    <3>2. QED
      BY <1>3, <3>1 DEF Authorized
  <2>3. places \in SUBSET DOMAIN leg
    OBVIOUS
  <2>4. \A n \in DOMAIN leg : n \in places <=> Readable(leg[n])
    OBVIOUS
  <2> HIDE DEF places, kept, Readable
  <2>5. kept \in Seq(HitsOf(index)) /\ Len(kept) = size /\ size \in 0..Len(leg)
    BY <1>1, <2>2, <2>3, SelectedFacts
  <2>6. PICK at \in [1..size -> places] :
          /\ \A n \in 1..size : kept[n] = leg[at[n]]
          /\ \A k \in places : \E n \in 1..size : at[n] = k
          /\ \A m, n \in 1..size : m < n <=> at[m] < at[n]
    BY <1>1, <2>2, <2>3, SelectedFacts
  <2> HIDE DEF size
  <2>7. DOMAIN kept = 1..size
    BY <2>5
  <2>8. \A n \in 1..size : at[n] \in DOMAIN leg /\ at[n] \in Int
    BY <1>1, <2>3
  <2>9. ASSUME NEW m \in DOMAIN kept, NEW n \in DOMAIN kept, kept[m].chunk = kept[n].chunk
        PROVE  m = n
    <3>1. at[m] = at[n]
      BY <2>6, <2>7, <2>8, <2>9 DEF LegSound
    <3>2. ~(m < n) /\ ~(n < m)
      BY <2>6, <2>7, <2>8, <3>1
    <3>3. m \in Int /\ n \in Int
      BY <2>5, <2>7
    <3>4. QED
      BY <3>2, <3>3
  <2>10. LegSound(index, kept)
    BY <2>5, <2>9 DEF LegSound
  <2>11. Len(kept) <= Len(leg)
    BY <1>1, <2>5
  <2>12. \A n \in DOMAIN kept : Readable(kept[n])
    BY <2>4, <2>6, <2>7, <2>8
  <2>13. \A n \in DOMAIN leg : Readable(leg[n]) => \E m \in DOMAIN kept : kept[m] = leg[n]
    BY <2>4, <2>6, <2>7
  <2>14. QED
    BY <2>10, <2>11, <2>12, <2>13 DEF kept, Readable
<1>4. QED
  BY <1>2, <1>3

-----------------------------------------------------------------------------
(* The fusion.                                                             *)

\* Of two divisors of a number, the smaller one goes into it more often.
LEMMA SmallerDivisor ==
  ASSUME NEW u \in Nat \ {0}, NEW x \in Nat \ {0}, NEW y \in Nat \ {0}, x < y,
         u % x = 0, u % y = 0
  PROVE  u \div x > u \div y
<1> DEFINE q == u \div x
           s == u \div y
<1>1. q \in Nat /\ s \in Nat
  OBVIOUS
<1>2. u = x * q /\ u = y * s
  OBVIOUS
<1> HIDE DEF q, s
<1>3. s > 0
  BY <1>1, <1>2
<1>4. \A a, b, c \in Nat : a <= b => c * a <= c * b
  OBVIOUS
<1>5. \A a, b, c \in Nat : a < b /\ c > 0 => a * c < b * c
  OBVIOUS
<1>6. x * s < y * s
  BY <1>1, <1>3, <1>5
<1>7. q <= s => x * q <= x * s
  BY <1>1, <1>4
<1>8. x * q \in Nat /\ x * s \in Nat /\ y * s \in Nat
  BY <1>1
<1>9. q > s
  BY <1>1, <1>2, <1>6, <1>7, <1>8
<1>10. QED
  BY <1>9 DEF q, s

\* What the constants say of the scores of ranks up to a limit.
ScoresSound(limit) == limit \in Nat /\ \A n \in 1..limit : ScoreUnit % (RrfK + n) = 0

\* An item that a leg has gets the score of its rank, a better one the better the
\* rank; one that it has not gets nothing.
LEMMA LegScoreFacts ==
  ASSUME NEW index, NEW leg, LegSound(index, leg), NEW id
  PROVE  /\ LegScore(leg, id) \in Nat
         /\ (\A n \in DOMAIN leg : ChunkVersion(leg[n]) # id) => LegScore(leg, id) = 0
         /\ \A n \in DOMAIN leg :
              ChunkVersion(leg[n]) = id => LegScore(leg, id) = ScoreUnit \div (RrfK + n)
<1> DEFINE ranks == {n \in DOMAIN leg : ChunkVersion(leg[n]) = id}
<1>1. \A m, n \in ranks : m = n
  BY DEF LegSound, ChunkVersion
<1>2. ranks \subseteq Nat \ {0}
  <2>1. leg \in Seq(HitsOf(index))
    BY DEF LegSound
  <2>2. QED
    BY <2>1
<1>3. LegScore(leg, id) = IF ranks = {} THEN 0 ELSE ScoreUnit \div (RrfK + CHOOSE n \in ranks : TRUE)
  BY DEF LegScore
<1>4. /\ \A n \in DOMAIN leg : ChunkVersion(leg[n]) = id <=> n \in ranks
      /\ (\A n \in DOMAIN leg : ChunkVersion(leg[n]) # id) => ranks = {}
  OBVIOUS
<1> HIDE DEF ranks
<1>5. ASSUME NEW n \in ranks PROVE LegScore(leg, id) = ScoreUnit \div (RrfK + n)
  <2>1. (CHOOSE m \in ranks : TRUE) = n
    BY <1>1, <1>5
  <2>2. QED
    BY <1>3, <2>1
<1>6. \A n \in ranks : ScoreUnit \div (RrfK + n) \in Nat
  <2> SUFFICES ASSUME NEW n \in ranks PROVE ScoreUnit \div (RrfK + n) \in Nat
    OBVIOUS
  <2>1. RrfK + n \in Nat \ {0} /\ ScoreUnit \in Nat
    BY <1>2, RankingAssumption
  <2>2. \A a \in Nat, b \in Nat \ {0} : a \div b \in Nat
    OBVIOUS
  <2>3. QED
    BY <2>1, <2>2
<1>7. LegScore(leg, id) \in Nat
  BY <1>3, <1>5, <1>6
<1>8. QED
  BY <1>3, <1>4, <1>5, <1>7

\* An item before another in a leg gets the better score of it.
LEMMA BetterRank ==
  ASSUME NEW index, NEW leg, LegSound(index, leg), NEW limit, ScoresSound(limit),
         Len(leg) <= limit, NEW i, NEW k, NEW m \in DOMAIN leg, NEW n \in DOMAIN leg, m < n,
         ChunkVersion(leg[m]) = i, ChunkVersion(leg[n]) = k
  PROVE  LegScore(leg, i) > LegScore(leg, k)
<1>1. leg \in Seq(HitsOf(index))
  BY DEF LegSound
<1>2. m \in 1..limit /\ n \in 1..limit
  BY <1>1 DEF ScoresSound
<1>3. /\ RrfK + m \in Nat \ {0} /\ RrfK + n \in Nat \ {0} /\ RrfK + m < RrfK + n
      /\ ScoreUnit \in Nat \ {0}
  BY <1>2, RankingAssumption
<1>4. ScoreUnit % (RrfK + m) = 0 /\ ScoreUnit % (RrfK + n) = 0
  BY <1>2 DEF ScoresSound
<1>5. ScoreUnit \div (RrfK + m) > ScoreUnit \div (RrfK + n)
  BY <1>3, <1>4, SmallerDivisor
<1>6. QED
  BY <1>5, LegScoreFacts

\* The legs of a fusion.
Legs(a, b) == <<a, b>>

\* What the legs found, and how it is scored.
Findings(a, b) == ToSet(a) \cup ToSet(b)
Scored(a, b, h) == [h EXCEPT !.score = FusedScore(Legs(a, b), ChunkVersion(h))]

\* What may be read alone, now.
Readable(p, rows, h) == RefOf(h) \in AuthorizeReads(p, {RefOf(h)}, rows)

\* A scored hit is one of the index; the hits of one chunk are scored alike.
LEMMA ScoredFacts ==
  ASSUME NEW index, IndexSound(index), NEW a, LegSound(index, a), NEW b, LegSound(index, b),
         NEW h \in Findings(a, b)
  PROVE  LET t == Scored(a, b, h)
         IN /\ h \in HitsOf(index) /\ t \in HitsOf(index) /\ t.chunk = h.chunk
            /\ t.score = LegScore(a, ChunkVersion(h)) + LegScore(b, ChunkVersion(h))
            /\ RefOf(t) = RefOf(h) /\ ChunkVersion(t) = ChunkVersion(h)
            /\ \A k \in Findings(a, b) : k.chunk = h.chunk => Scored(a, b, k) = t
<1> DEFINE score == LegScore(a, ChunkVersion(h)) + LegScore(b, ChunkVersion(h))
<1>1. \A id : FusedScore(Legs(a, b), id) = LegScore(a, id) + LegScore(b, id)
  BY DEF FusedScore, Legs
<1>2. Scored(a, b, h) = [h EXCEPT !.score = score]
  BY <1>1 DEF Scored
<1>3. Findings(a, b) \subseteq HitsOf(index)
  <2>1. a \in Seq(HitsOf(index)) /\ b \in Seq(HitsOf(index))
    BY DEF LegSound
  <2>2. QED
    BY <2>1 DEF Findings, ToSet
<1>4. score \in Int
  BY LegScoreFacts
<1>5. ASSUME NEW k \in Findings(a, b), k.chunk = h.chunk
      PROVE  Scored(a, b, k) = [h EXCEPT !.score = score]
  <2>1. ChunkVersion(k) = ChunkVersion(h) /\ [k EXCEPT !.score = score] = [h EXCEPT !.score = score]
    BY <1>3, <1>4, <1>5, HitsOfFacts
  <2>2. Scored(a, b, k) = [k EXCEPT !.score = score]
    BY <1>1, <2>1 DEF Scored
  <2>3. QED
    BY <2>1, <2>2
<1>6. h \in HitsOf(index)
  BY <1>3
<1> DEFINE t == [h EXCEPT !.score = score]
<1>7. /\ t \in HitsOf(index) /\ t.score = score /\ t.chunk = h.chunk
      /\ RefOf(t) = RefOf(h) /\ ChunkVersion(t) = ChunkVersion(h)
  BY <1>4, <1>6, HitsOfFacts
<1>8. Scored(a, b, h) = t
  BY <1>2
<1> HIDE DEF t
<1>9. QED
  BY <1>5, <1>6, <1>7, <1>8 DEF t

\* A fusion has the readable ones of its findings, best score first, and leaves
\* one out only for want of space and after all that score better.
LEMMA FusedFacts ==
  ASSUME NEW index, IndexSound(index), NEW a, LegSound(index, a), NEW b, LegSound(index, b),
         NEW p, NEW rows, NEW limit \in Nat
  PROVE  LET fused == Fused(Legs(a, b), p, rows, limit)
             readable == {h \in Findings(a, b) : Readable(p, rows, h)}
         IN /\ LegSound(index, fused) /\ Len(fused) <= limit
            /\ \A n \in DOMAIN fused : \E h \in readable : fused[n] = Scored(a, b, h)
            /\ \A h \in readable :
                 Len(fused) = limit \/ \E n \in DOMAIN fused : fused[n] = Scored(a, b, h)
            /\ \A h \in readable, n \in DOMAIN fused :
                 Before(Scored(a, b, h), fused[n]) =>
                   \E m \in DOMAIN fused : m < n /\ fused[m] = Scored(a, b, h)
<1> DEFINE legs == Legs(a, b)
           found == UNION {ToSet(legs[l]) : l \in DOMAIN legs}
           scored == {[h EXCEPT !.score = FusedScore(legs, ChunkVersion(h))] : h \in found}
           allowed == AuthorizeReads(p, {RefOf(h) : h \in found}, rows)
           kept == {h \in scored : RefOf(h) \in allowed}
           sorted == ByScore(kept)
           fused == SubSeq(sorted, 1, IF limit < Len(sorted) THEN limit ELSE Len(sorted))
           readable == {h \in Findings(a, b) : Readable(p, rows, h)}
<1>1. Fused(legs, p, rows, limit) = fused
  BY DEF Fused
<1>2. found = Findings(a, b)
  <2>1. DOMAIN legs = {1, 2} /\ legs[1] = a /\ legs[2] = b
    BY DEF Legs
  <2>2. QED
    BY <2>1 DEF Findings
<1>3. scored = {Scored(a, b, h) : h \in Findings(a, b)}
  BY <1>2 DEF Scored
<1>4. \A h \in Findings(a, b) : RefOf(h) \in allowed <=> Readable(p, rows, h)
  BY <1>2, ReadAlone DEF Readable
<1>5. kept = {Scored(a, b, h) : h \in readable}
  <2>1. \A h \in Findings(a, b) : RefOf(Scored(a, b, h)) = RefOf(h)
    BY ScoredFacts
  <2> HIDE DEF scored, allowed
  <2>2. QED
    BY <1>3, <1>4, <2>1
<1> HIDE DEF found, scored, allowed, kept
<1>6. kept \subseteq HitsOf(index) /\ Distinct(kept)
  BY <1>5, ScoredFacts DEF Distinct
<1>7. IsFiniteSet(kept)
  <2>1. /\ IsFiniteSet(1..Len(a)) /\ IsFiniteSet(1..Len(b))
        /\ DOMAIN a = 1..Len(a) /\ DOMAIN b = 1..Len(b)
    <3>1. a \in Seq(HitsOf(index)) /\ b \in Seq(HitsOf(index))
      BY DEF LegSound
    <3>2. Len(a) \in Int /\ Len(b) \in Int /\ DOMAIN a = 1..Len(a) /\ DOMAIN b = 1..Len(b)
      BY <3>1
    <3>3. IsFiniteSet(1..Len(a)) /\ IsFiniteSet(1..Len(b))
      BY <3>2, FS_Interval
    <3>4. QED
      BY <3>2, <3>3
  <2>2. IsFiniteSet({a[n] : n \in 1..Len(a)}) /\ IsFiniteSet({b[n] : n \in 1..Len(b)})
    BY <2>1, ValuesFinite
  <2>3. Findings(a, b) = {a[n] : n \in 1..Len(a)} \cup {b[n] : n \in 1..Len(b)}
    BY <2>1 DEF Findings, ToSet
  <2>4. IsFiniteSet(Findings(a, b))
    BY <2>2, <2>3, FS_Union
  <2>5. IsFiniteSet(readable)
    <3>1. readable \subseteq Findings(a, b)
      OBVIOUS
    <3>2. QED
      BY <2>4, <3>1, FS_Subset
  <2> DEFINE score == [h \in readable |-> Scored(a, b, h)]
  <2>6. kept = {score[h] : h \in readable}
    BY <1>5
  <2> HIDE DEF score, readable
  <2>7. QED
    BY <2>5, <2>6, ValuesFinite
<1>8. /\ LegSound(index, sorted) /\ sorted \in Seq(kept)
      /\ \A h \in kept : \E n \in DOMAIN sorted : sorted[n] = h
      /\ \A m, n \in DOMAIN sorted : m < n <=> Before(sorted[m], sorted[n])
  BY <1>6, <1>7, ByScoreFacts
<1> HIDE DEF sorted, fused
<1>9. /\ LegSound(index, fused) /\ Len(fused) <= limit
      /\ \A n \in DOMAIN fused : n \in DOMAIN sorted /\ fused[n] = sorted[n]
      /\ Len(fused) = IF limit < Len(sorted) THEN limit ELSE Len(sorted)
  BY <1>8, FirstFacts DEF fused
<1>10. /\ fused \in Seq(HitsOf(index)) /\ DOMAIN fused = 1..Len(fused) /\ Len(fused) \in Nat
       /\ DOMAIN sorted = 1..Len(sorted) /\ Len(sorted) \in Nat
  BY <1>8, <1>9 DEF LegSound
<1>11. \A n \in DOMAIN fused : \E h \in readable : fused[n] = Scored(a, b, h)
  BY <1>5, <1>8, <1>9
<1>12. ASSUME NEW h \in readable
       PROVE  Len(fused) = limit \/ \E n \in DOMAIN fused : fused[n] = Scored(a, b, h)
  <2>1. PICK n \in DOMAIN sorted : sorted[n] = Scored(a, b, h)
    BY <1>5, <1>8
  <2>2. QED
    BY <1>9, <1>10, <2>1
<1>13. ASSUME NEW h \in readable, NEW n \in DOMAIN fused, Before(Scored(a, b, h), fused[n])
       PROVE  \E m \in DOMAIN fused : m < n /\ fused[m] = Scored(a, b, h)
  <2>1. PICK m \in DOMAIN sorted : sorted[m] = Scored(a, b, h)
    BY <1>5, <1>8
  <2>2. m < n
    BY <1>8, <1>9, <1>13, <2>1
  <2>3. m \in DOMAIN fused
    BY <1>10, <2>1, <2>2
  <2>4. QED
    BY <1>9, <2>1, <2>2, <2>3
<1>14. QED
  BY <1>1, <1>9, <1>11, <1>12, <1>13

-----------------------------------------------------------------------------
(* The inductive invariant, of one request, of a record of the cache, and  *)
(* of all of them.                                                         *)

\* Readable under policies at least as new as a version.
ReadSince(p, d, since, rows) ==
  \E n \in 1..Len(rows) : since <= n /\ d \in AuthorizeReads(p, {d}, rows[n])

HitsSound(hits, p, since, w, index, rows) ==
  /\ LegSound(index, hits) /\ Len(hits) <= w.context.limit
  /\ \A n \in DOMAIN hits : ReadSince(p, RefOf(hits[n]), since, rows)

\* Each hit is among the evidence, or was not always readable.
Covers(evidence, hits, p, rows) ==
  \A n \in DOMAIN hits :
    \/ \E k \in DOMAIN rows : RefOf(hits[n]) \notin AuthorizeReads(p, {RefOf(hits[n])}, rows[k])
    \/ \E m \in DOMAIN evidence : ChunkVersion(evidence[m]) = ChunkVersion(hits[n])

\* Nothing is missing but for want of space.
Whole(evidence, p, w, index, rows) ==
  \/ Len(evidence) = w.context.limit
  \/ /\ Covers(evidence, LexicalHits(index, p, w.context), p, rows)
     /\ w.hybrid => Covers(evidence, DenseHits(index, p, w.context), p, rows)

\* Where a leg is lost only for want of an embedding, and results are kept as fused.
OnlyEmbeddingsFail(w) ==
  ~w.reranked /\ "lexical" \notin w.down /\ "dense" \notin w.down /\ w.kind = "retrieval"

\* The phases of retrieval in which something is known of the legs.
LegPhases == {"embed", "embedding", "dense", "fuse"}

LegsWhole(s, p, w, index, rows) ==
  OnlyEmbeddingsFail(w) =>
    /\ (s.phase \in LegPhases) =>
         Covers(s.lexical.hits, LexicalHits(index, p, w.context), p, rows)
    /\ (s.phase = "fuse") =>
         \/ s.dense = NoEmbedding
         \/ Covers(s.dense.hits, DenseHits(index, p, w.context), p, rows)
    /\ (s.phase = "keep") =>
         s.result.degraded \/ Whole(s.result.evidence, p, w, index, rows)
    /\ s.hit => Whole(s.result.evidence, p, w, index, rows)

\* Where a request can be, with which attempts and which status.
ProgressSound(s, tool, w) ==
  /\ s.attempt \in 0..MaxAttempts
  /\ (s.phase \in {"embed", "answer"}) => s.attempt < MaxAttempts
  /\ (s.phase \in {"idle", "stamped", "admitted", "lookup", "lexical", "dense", "fuse", "rerank"}) =>
       s.attempt = 0
  /\ s.status \in {"none", "200", "429", "500", "503"}
  /\ tool => s.phase \notin {"stamped", "admitted", "lookup"} /\ s.versions = 0
  /\ s.hit => s.phase \in {"release", "done"}
  /\ (s.phase \in {"idle", "stamped", "admitted"}) =>
       s.lexical.hits = <<>> /\ s.dense.hits = <<>> /\ s.result.evidence = <<>>
  /\ (s.phase \in {"answer", "generating"}) => w.kind = "answer"
  /\ (s.phase = "rerank") => w.reranked
  /\ (s.phase \in LegPhases) => w.hybrid

ResultFields == {"evidence", "degraded", "verified"}

\* The version a request's evidence is to be no older than.
SinceOf(s, tool, called) == IF tool THEN called ELSE s.versions

RequestSound(s, p, tool, called, w, index, rows) ==
  /\ DOMAIN s = SearchFields /\ DOMAIN s.result = ResultFields
  /\ s.versions \in 0..Len(rows)
  /\ \A hits \in {s.lexical.hits, s.dense.hits, s.result.evidence} :
       HitsSound(hits, p, SinceOf(s, tool, called), w, index, rows)
  /\ ProgressSound(s, tool, w)
  /\ LegsWhole(s, p, w, index, rows)

RecordSound(c, w, index, rows) ==
  /\ DOMAIN c.value = ResultFields
  /\ HitsSound(c.value.evidence, c.key.principal, c.key.versions, w, index, rows)
  /\ OnlyEmbeddingsFail(w) => Whole(c.value.evidence, c.key.principal, w, index, rows)

\* The request, as it is and as it would be.
Sound(r, s) == RequestSound(s, Who(r), IsTool(r), calls[r].since, Outside, entries, past)

BreakersSound ==
  /\ DOMAIN breaker = {"embedding", "generation"}
  /\ \A d \in DOMAIN breaker : /\ DOMAIN breaker[d] = DOMAIN Closed
                               /\ breaker[d].state \in {"closed", "open", "half_open"}

WorldSound ==
  /\ world \in DOMAIN Worlds /\ entries \in Outside.corpora
  /\ now \in 0..Outside.maxTime
  /\ PastSound /\ published \in 1..Len(past)
  /\ BreakersSound

EvidenceInv ==
  /\ WorldSound
  /\ \A r \in Requests : calls[r].since \in 1..Len(past) /\ Sound(r, search[r])
  /\ \A c \in cache : RecordSound(c, Outside, entries, past)

\* What the constants are assumed to be, of the world this behaviour happens in.
LEMMA WorldFacts ==
  ASSUME WorldSound
  PROVE  /\ IndexSound(entries)
         /\ Outside.context.offset \in Nat /\ Outside.context.limit \in Nat \ {0}
         /\ ScoresSound(Outside.context.limit)
         /\ MaxAttempts \in Nat \ {0} /\ Outside.maxTime \in Nat
         /\ Len(past) \in Nat \ {0} /\ Policies = past[Len(past)]
<1>1. Outside \in ToSet(Worlds)
  BY DEF WorldSound, Outside, ToSet
<1>2. Len(past) \in Nat \ {0} /\ Policies = past[Len(past)]
  BY PoliciesAreLast DEF WorldSound
<1>3. IndexSound(entries)
  BY <1>1, SearchAssumption DEF WorldSound, IndexSound
<1>4. /\ Outside.context.offset \in Nat /\ Outside.context.limit \in Nat \ {0}
      /\ ScoresSound(Outside.context.limit)
      /\ MaxAttempts \in Nat \ {0} /\ Outside.maxTime \in Nat
  BY <1>1, SearchAssumption DEF ScoresSound
<1>5. QED
  BY <1>2, <1>3, <1>4

\* No hits are sound.
LEMMA NoHitsSound ==
  ASSUME WorldSound, NEW p, NEW since
  PROVE  HitsSound(<<>>, p, since, Outside, entries, past)
BY WorldFacts DEF HitsSound, LegSound

\* A move that finds nothing new keeps a request sound, if it is on in its phases.
LEMMA Carried ==
  ASSUME WorldSound, NEW r, NEW s, Sound(r, s), NEW t,
         DOMAIN t = SearchFields, DOMAIN t.result = ResultFields,
         t.versions = s.versions, t.hit = s.hit,
         t.lexical.hits \in {s.lexical.hits, <<>>}, t.dense.hits \in {s.dense.hits, <<>>},
         t.result.evidence = s.result.evidence \/ (t.result.evidence = <<>> /\ ~s.hit),
         ProgressSound(t, IsTool(r), Outside),
         t.phase \in LegPhases \cup {"keep"} => LegsWhole(t, Who(r), Outside, entries, past)
  PROVE  Sound(r, t)
<1>1. SinceOf(t, IsTool(r), calls[r].since) = SinceOf(s, IsTool(r), calls[r].since)
  BY DEF SinceOf
<1> DEFINE since == SinceOf(s, IsTool(r), calls[r].since)
           sound(hits) == HitsSound(hits, Who(r), since, Outside, entries, past)
<1>2. sound(s.lexical.hits) /\ sound(s.dense.hits) /\ sound(s.result.evidence) /\ sound(<<>>)
  BY NoHitsSound DEF Sound, RequestSound
<1>3. \A hits \in {t.lexical.hits, t.dense.hits, t.result.evidence} : sound(hits)
  BY <1>2
<1>4. LegsWhole(t, Who(r), Outside, entries, past)
  <2> SUFFICES ASSUME t.phase \notin LegPhases \cup {"keep"}
               PROVE  LegsWhole(t, Who(r), Outside, entries, past)
    OBVIOUS
  <2>1. t.phase # "fuse"
    BY DEF LegPhases
  <2>2. LegsWhole(s, Who(r), Outside, entries, past)
    BY DEF Sound, RequestSound
  <2>3. QED
    BY <2>1, <2>2 DEF LegsWhole
<1>5. s.versions \in 0..Len(past)
  BY DEF Sound, RequestSound
<1>6. QED
  BY <1>1, <1>3, <1>4, <1>5 DEF Sound, RequestSound

-----------------------------------------------------------------------------
(* The steps of a request.                                                 *)

\* A request goes on to something sound.
Moves(r) == \E t : Goes(r, t) /\ Sound(r, t)

\* What is known of a request.
LEMMA RequestFacts ==
  ASSUME EvidenceInv, NEW r \in Requests
  PROVE  LET s == search[r]
         IN /\ Sound(r, s) /\ DOMAIN s = SearchFields /\ DOMAIN s.result = ResultFields
            /\ ProgressSound(s, IsTool(r), Outside) /\ s.attempt \in Nat
            /\ LegsWhole(s, Who(r), Outside, entries, past)
            /\ MaxAttempts \in Nat \ {0}
<1>1. WorldSound /\ Sound(r, search[r])
  BY DEF EvidenceInv
<1>2. QED
  BY <1>1, WorldFacts DEF Sound, RequestSound, ProgressSound

\* A request that begins has found nothing.
LEMMA BeginningSound ==
  ASSUME WorldSound, NEW r, NEW t, DOMAIN t = SearchFields, t.versions = 0, t.hit = FALSE,
         t.lexical = NoLeg, t.dense = NoLeg, t.result = NoResult, t.attempt = 0,
         t.status = "none", t.phase \in {"idle", "stamped", "admitted", "lexical"},
         IsTool(r) => t.phase \in {"idle", "lexical"}
  PROVE  Sound(r, t)
<1>1. /\ NoLeg.hits = <<>> /\ NoResult.evidence = <<>> /\ DOMAIN NoResult = ResultFields
  BY DEF NoLeg, Lost, NoResult, ResultFields
<1>2. \A hits \in {t.lexical.hits, t.dense.hits, t.result.evidence} :
        HitsSound(hits, Who(r), SinceOf(t, IsTool(r), calls[r].since), Outside, entries, past)
  BY <1>1, NoHitsSound
<1>3. ProgressSound(t, IsTool(r), Outside)
  BY <1>1, WorldFacts DEF ProgressSound, LegPhases
<1>4. LegsWhole(t, Who(r), Outside, entries, past)
  BY DEF LegsWhole, LegPhases
<1>5. t.versions \in 0..Len(past)
  BY WorldFacts
<1>6. QED
  BY <1>1, <1>2, <1>3, <1>4, <1>5 DEF Sound, RequestSound

\* The lease and the cache find nothing but what the cache has.
LEMMA AdmissionMoves ==
  ASSUME EvidenceInv, NEW r \in Requests,
         \/ Stamp(r) \/ Reserve(r) \/ ReserveFails(r) \/ Release(r) \/ ReleaseFails(r)
         \/ Admit(r) \/ Keep(r) \/ KeepFails(r)
  PROVE  Moves(r)
<1> DEFINE s == search[r]
<1>1. /\ Sound(r, s) /\ DOMAIN s = SearchFields /\ DOMAIN s.result = ResultFields
      /\ ProgressSound(s, IsTool(r), Outside) /\ WorldSound
  BY RequestFacts DEF EvidenceInv
<1>2. CASE Stamp(r)
  <2> DEFINE t == [Idle EXCEPT !.at = now, !.phase = IF Outside.limited THEN "stamped" ELSE "admitted"]
  <2>1. Goes(r, t) /\ ~IsTool(r)
    BY <1>2 DEF Stamp, IsTool
  <2>2. /\ DOMAIN t = SearchFields /\ t.versions = 0 /\ t.hit = FALSE /\ t.lexical = NoLeg
        /\ t.dense = NoLeg /\ t.result = NoResult /\ t.attempt = 0 /\ t.status = "none"
        /\ t.phase \in {"stamped", "admitted"}
    BY DEF Idle, SearchFields
  <2> HIDE DEF t
  <2>3. QED
    BY <1>1, <2>1, <2>2, BeginningSound DEF Moves
<1>3. CASE Reserve(r) \/ ReserveFails(r)
  <2> DEFINE admitted(lease) == [s EXCEPT !.phase = "admitted", !.lease = lease]
             refused(status) == [s EXCEPT !.phase = "done", !.status = status]
  <2>1. /\ s.phase = "stamped"
        /\ \/ \E lease : Goes(r, admitted(lease))
           \/ \E status \in {"429", "503"} : Goes(r, refused(status))
    BY <1>3 DEF Reserve, ReserveFails, At
  <2>2. ASSUME NEW t, \/ \E lease : t = admitted(lease)
                      \/ \E status \in {"429", "503"} : t = refused(status)
        PROVE  Sound(r, t)
    <3>1. /\ DOMAIN t = SearchFields /\ t.versions = s.versions /\ t.hit = s.hit
          /\ t.lexical = s.lexical /\ t.dense = s.dense /\ t.result = s.result
          /\ t.attempt = s.attempt /\ t.status \in {s.status, "429", "503"}
          /\ t.phase \in {"admitted", "done"}
      BY <1>1, <2>2 DEF SearchFields
    <3>2. ProgressSound(t, IsTool(r), Outside) /\ t.phase \notin LegPhases \cup {"keep"}
      BY <1>1, <2>1, <3>1 DEF ProgressSound, LegPhases
    <3>3. QED
      BY <1>1, <3>1, <3>2, Carried
  <2> HIDE DEF admitted, refused
  <2>3. QED
    BY <2>1, <2>2 DEF Moves
<1>4. CASE Release(r) \/ ReleaseFails(r)
  <2> DEFINE released == [s EXCEPT !.phase = "done", !.lease.held = FALSE]
             lost == [s EXCEPT !.phase = "done"]
  <2>1. s.phase = "release" /\ (Goes(r, released) \/ Goes(r, lost))
    BY <1>4 DEF Release, ReleaseFails, At
  <2>2. ASSUME NEW t \in {released, lost} PROVE Sound(r, t)
    <3>1. /\ DOMAIN t = SearchFields /\ t.versions = s.versions /\ t.hit = s.hit
          /\ t.lexical = s.lexical /\ t.dense = s.dense /\ t.result = s.result
          /\ t.attempt = s.attempt /\ t.status = s.status /\ t.phase = "done"
      BY <1>1 DEF SearchFields
    <3>2. ProgressSound(t, IsTool(r), Outside) /\ t.phase \notin LegPhases \cup {"keep"}
      BY <1>1, <2>1, <3>1 DEF ProgressSound, LegPhases
    <3>3. QED
      BY <1>1, <3>1, <3>2, Carried
  <2> HIDE DEF released, lost
  <2>3. QED
    BY <2>1, <2>2 DEF Moves
<1>5. CASE Admit(r)
  <2> DEFINE t == [s EXCEPT !.versions = published,
                            !.phase = IF Outside.cached THEN "lookup" ELSE "lexical"]
  <2>1. Goes(r, t) /\ s.phase = "admitted"
    BY <1>5 DEF Admit, At
  <2>2. /\ DOMAIN t = SearchFields /\ t.versions = published /\ t.hit = s.hit
        /\ t.lexical = s.lexical /\ t.dense = s.dense /\ t.result = s.result
        /\ t.attempt = s.attempt /\ t.status = s.status /\ t.phase \in {"lookup", "lexical"}
    BY <1>1 DEF SearchFields
  <2> HIDE DEF t
  <2>3. /\ t.lexical.hits = <<>> /\ t.dense.hits = <<>> /\ t.result.evidence = <<>>
        /\ ~IsTool(r)
    BY <1>1, <2>1, <2>2 DEF ProgressSound
  <2>4. \A hits \in {t.lexical.hits, t.dense.hits, t.result.evidence} :
          HitsSound(hits, Who(r), SinceOf(t, IsTool(r), calls[r].since), Outside, entries, past)
    BY <1>1, <2>3, NoHitsSound
  <2>5. ProgressSound(t, IsTool(r), Outside)
    BY <1>1, <2>1, <2>2, <2>3 DEF ProgressSound, LegPhases
  <2>6. LegsWhole(t, Who(r), Outside, entries, past)
    BY <2>2, <2>5 DEF LegsWhole, LegPhases, ProgressSound
  <2>7. t.versions \in 0..Len(past)
    BY <1>1, <2>2, WorldFacts DEF WorldSound
  <2>8. QED
    BY <1>1, <2>1, <2>2, <2>4, <2>5, <2>6, <2>7 DEF Moves, Sound, RequestSound
<1>6. CASE Keep(r) \/ KeepFails(r)
  <2> DEFINE t == [s EXCEPT !.phase = "release", !.status = "200"]
  <2>1. Goes(r, t) /\ s.phase = "keep"
    BY <1>6 DEF Keep, KeepFails, At
  <2>2. /\ DOMAIN t = SearchFields /\ t.versions = s.versions /\ t.hit = s.hit
        /\ t.lexical = s.lexical /\ t.dense = s.dense /\ t.result = s.result
        /\ t.attempt = s.attempt /\ t.status = "200" /\ t.phase = "release"
    BY <1>1 DEF SearchFields
  <2> HIDE DEF t
  <2>3. ProgressSound(t, IsTool(r), Outside) /\ t.phase \notin LegPhases \cup {"keep"}
    BY <1>1, <2>1, <2>2 DEF ProgressSound, LegPhases
  <2>4. QED
    BY <1>1, <2>1, <2>2, <2>3, Carried DEF Moves
<1>7. QED
  BY <1>2, <1>3, <1>4, <1>5, <1>6

\* A result from the cache is as sound for this request as it was for the other.
LEMMA LookUpMoves ==
  ASSUME EvidenceInv, NEW r \in Requests, LookUp(r)
  PROVE  Moves(r)
<1> DEFINE s == search[r]
           hits == Hits(cache, KeyOf(r), Outside.kind, Who(r))
           miss == [s EXCEPT !.phase = "lexical"]
           found(c) == [s EXCEPT !.phase = "release", !.hit = TRUE, !.status = "200",
                                 !.result = c.value]
<1>1. /\ Sound(r, s) /\ DOMAIN s = SearchFields /\ DOMAIN s.result = ResultFields
      /\ ProgressSound(s, IsTool(r), Outside) /\ WorldSound
  BY RequestFacts DEF EvidenceInv
<1>2. s.phase = "lookup" /\ (Goes(r, miss) \/ \E c \in hits : Goes(r, found(c)))
  BY Zenon DEF LookUp, At
<1>3. Sound(r, miss)
  <2> DEFINE t == miss
  <2>1. /\ DOMAIN t = SearchFields /\ t.versions = s.versions /\ t.hit = s.hit
        /\ t.lexical = s.lexical /\ t.dense = s.dense /\ t.result = s.result
        /\ t.attempt = s.attempt /\ t.status = s.status /\ t.phase = "lexical"
    BY <1>1 DEF SearchFields
  <2> HIDE DEF miss
  <2>2. ProgressSound(t, IsTool(r), Outside) /\ t.phase \notin LegPhases \cup {"keep"}
    BY <1>1, <1>2, <2>1 DEF ProgressSound, LegPhases
  <2>3. QED
    BY <1>1, <2>1, <2>2, Carried
<1>4. ASSUME NEW c \in hits PROVE Sound(r, found(c))
  <2> DEFINE t == found(c)
  <2>1. /\ DOMAIN t = SearchFields /\ t.versions = s.versions /\ t.hit = TRUE
        /\ t.lexical = s.lexical /\ t.dense = s.dense /\ t.result = c.value
        /\ t.attempt = s.attempt /\ t.status = "200" /\ t.phase = "release"
    BY <1>1 DEF SearchFields
  <2>2. /\ c \in cache /\ c.key.principal = Who(r) /\ c.key.versions = s.versions
    BY DEF Hits, KeyOf, CacheKey
  <2> HIDE DEF found, hits
  <2>3. RecordSound(c, Outside, entries, past)
    BY <2>2 DEF EvidenceInv
  <2>4. ~IsTool(r)
    BY <1>1, <1>2 DEF ProgressSound
  <2>5. HitsSound(t.result.evidence, Who(r), s.versions, Outside, entries, past)
    BY <2>1, <2>2, <2>3 DEF RecordSound
  <2>6. \A leg \in {t.lexical.hits, t.dense.hits, t.result.evidence} :
          HitsSound(leg, Who(r), SinceOf(t, IsTool(r), calls[r].since), Outside, entries, past)
    BY <1>1, <2>1, <2>4, <2>5 DEF Sound, RequestSound, SinceOf
  <2>7. ProgressSound(t, IsTool(r), Outside)
    BY <1>1, <1>2, <2>1, <2>4 DEF ProgressSound, LegPhases
  <2>8. LegsWhole(t, Who(r), Outside, entries, past)
    BY <2>1, <2>2, <2>3 DEF LegsWhole, LegPhases, RecordSound
  <2>9. DOMAIN t.result = ResultFields /\ t.versions \in 0..Len(past)
    BY <1>1, <2>1, <2>3 DEF RecordSound, Sound, RequestSound
  <2>10. QED
    BY <2>1, <2>6, <2>7, <2>8, <2>9 DEF Sound, RequestSound
<1> HIDE DEF miss, found, hits
<1>5. QED
  BY <1>2, <1>3, <1>4 DEF Moves

\* What is authorized now is sound for every request, and leaves out what is not.
LEMMA FoundNow ==
  ASSUME EvidenceInv, NEW r \in Requests, NEW s, Sound(r, s), NEW leg,
         LegSound(entries, leg), Len(leg) <= Outside.context.limit
  PROVE  LET kept == Authorized(leg, Who(r), Policies)
         IN /\ HitsSound(kept, Who(r), SinceOf(s, IsTool(r), calls[r].since), Outside, entries, past)
            /\ Covers(kept, leg, Who(r), past)
<1> DEFINE kept == Authorized(leg, Who(r), Policies)
           p == Who(r)
           since == SinceOf(s, IsTool(r), calls[r].since)
           read(h) == RefOf(h) \in AuthorizeReads(p, {RefOf(h)}, Policies)
<1>1. Len(past) \in Nat \ {0} /\ Policies = past[Len(past)] /\ Outside.context.limit \in Nat
  BY WorldFacts DEF EvidenceInv
<1>2. since \in Int /\ since <= Len(past)
  BY <1>1 DEF EvidenceInv, Sound, RequestSound, SinceOf
<1>3. DOMAIN past = 1..Len(past)
  BY DEF EvidenceInv, WorldSound, PastSound
<1>4. /\ LegSound(entries, kept) /\ Len(kept) <= Len(leg)
      /\ \A n \in DOMAIN kept : read(kept[n])
      /\ \A n \in DOMAIN leg : read(leg[n]) => \E m \in DOMAIN kept : kept[m] = leg[n]
  BY AuthorizedFacts
<1>5. Len(leg) \in Nat /\ Len(kept) \in Nat
  BY <1>4 DEF LegSound
<1> HIDE DEF kept, since
<1>6. Len(past) \in 1..Len(past)
  BY <1>1
<1>7. \A n \in DOMAIN kept : ReadSince(p, RefOf(kept[n]), since, past)
  BY <1>1, <1>2, <1>4, <1>6 DEF ReadSince
<1>8. HitsSound(kept, p, since, Outside, entries, past)
  BY <1>1, <1>4, <1>5, <1>7 DEF HitsSound
<1>9. Covers(kept, leg, p, past)
  BY <1>1, <1>3, <1>4, <1>6 DEF Covers
<1>10. QED
  BY <1>8, <1>9 DEF kept, since

\* An error leaves no evidence.
LEMMA ErrsSound ==
  ASSUME EvidenceInv, NEW r \in Requests, search[r].phase \notin {"release", "done"},
         NEW status \in {"500", "503"}
  PROVE  Sound(r, Errs(search[r], status))
<1> DEFINE s == search[r]
           t == Errs(s, status)
<1>1. /\ Sound(r, s) /\ DOMAIN s = SearchFields /\ DOMAIN s.result = ResultFields
      /\ ProgressSound(s, IsTool(r), Outside) /\ WorldSound
  BY RequestFacts DEF EvidenceInv
<1>2. /\ DOMAIN t = SearchFields /\ t.versions = s.versions /\ t.hit = s.hit
      /\ t.lexical = s.lexical /\ t.dense = s.dense /\ t.result = NoResult
      /\ t.attempt = s.attempt /\ t.status = status /\ t.phase = "release"
  BY <1>1 DEF SearchFields, Errs
<1>3. NoResult.evidence = <<>> /\ DOMAIN NoResult = ResultFields
  BY DEF NoResult, ResultFields
<1> HIDE DEF t
<1>4. ~s.hit /\ ProgressSound(t, IsTool(r), Outside) /\ t.phase \notin LegPhases \cup {"keep"}
  BY <1>1, <1>2 DEF ProgressSound, LegPhases
<1>5. QED
  BY <1>1, <1>2, <1>3, <1>4, Carried DEF t

\* A search without the dense leg waits for its fusion as soundly as with one.
LEMMA WithoutDenseSound ==
  ASSUME EvidenceInv, NEW r \in Requests, search[r].phase \in {"embed", "embedding"}
  PROVE  Sound(r, WithoutDense(search[r]))
<1> DEFINE s == search[r]
           t == WithoutDense(s)
<1>1. /\ Sound(r, s) /\ DOMAIN s = SearchFields /\ DOMAIN s.result = ResultFields
      /\ ProgressSound(s, IsTool(r), Outside) /\ WorldSound
      /\ LegsWhole(s, Who(r), Outside, entries, past) /\ MaxAttempts \in Nat \ {0}
  BY RequestFacts DEF EvidenceInv
<1>2. /\ DOMAIN t = SearchFields /\ t.versions = s.versions /\ t.hit = s.hit
      /\ t.lexical = s.lexical /\ t.dense = NoEmbedding /\ t.result = s.result
      /\ t.attempt = 0 /\ t.status = s.status /\ t.phase = "fuse"
  BY <1>1 DEF SearchFields, WithoutDense
<1>3. NoEmbedding.hits = <<>>
  BY DEF NoEmbedding, Lost
<1> HIDE DEF t
<1>4. ProgressSound(t, IsTool(r), Outside)
  BY <1>1, <1>2 DEF ProgressSound, LegPhases
<1>5. LegsWhole(t, Who(r), Outside, entries, past)
  BY <1>1, <1>2, <1>4 DEF LegsWhole, LegPhases, ProgressSound
<1>6. QED
  BY <1>1, <1>2, <1>3, <1>4, <1>5, Carried DEF t

\* An attempt is one more, up to the last, or is refused.
LEMMA AttemptMoves ==
  ASSUME EvidenceInv, NEW r \in Requests, NEW provider, NEW phase, NEW refused,
         Attempt(r, provider, phase, refused), Sound(r, refused),
         <<search[r].phase, phase>> \in {<<"embed", "embedding">>, <<"answer", "generating">>}
  PROVE  Moves(r)
<1> DEFINE s == search[r]
           t == [s EXCEPT !.phase = phase, !.attempt = @ + 1]
<1>1. /\ Sound(r, s) /\ DOMAIN s = SearchFields /\ DOMAIN s.result = ResultFields
      /\ ProgressSound(s, IsTool(r), Outside) /\ WorldSound
      /\ LegsWhole(s, Who(r), Outside, entries, past)
      /\ s.attempt \in Nat /\ MaxAttempts \in Nat \ {0}
  BY RequestFacts DEF EvidenceInv
<1>2. Goes(r, t) \/ Goes(r, refused)
  BY DEF Attempt
<1>3. /\ DOMAIN t = SearchFields /\ t.versions = s.versions /\ t.hit = s.hit
      /\ t.lexical = s.lexical /\ t.dense = s.dense /\ t.result = s.result
      /\ t.attempt = s.attempt + 1 /\ t.status = s.status /\ t.phase = phase
  BY <1>1 DEF SearchFields
<1>4. \/ s.phase = "embed" /\ phase = "embedding"
      \/ s.phase = "answer" /\ phase = "generating"
  OBVIOUS
<1> HIDE DEF t
<1>5. t.attempt \in 0..MaxAttempts
  BY <1>1, <1>3, <1>4 DEF ProgressSound
<1>6. ProgressSound(t, IsTool(r), Outside)
  BY <1>1, <1>3, <1>4, <1>5 DEF ProgressSound, LegPhases
<1>7. LegsWhole(t, Who(r), Outside, entries, past)
  BY <1>1, <1>3, <1>4, <1>6 DEF LegsWhole, LegPhases, ProgressSound
<1>8. Sound(r, t)
  BY <1>1, <1>3, <1>6, <1>7, Carried
<1>9. QED
  BY <1>2, <1>8 DEF Moves

\* The legs find what may be read, and leave out only what may not.
LEMMA LegsMove ==
  ASSUME EvidenceInv, NEW r \in Requests,
         \/ Lexical(r) \/ LexicalFails(r) \/ Embed(r)
         \/ \E outcome \in Outside.embeds : Embedded(r, outcome)
         \/ Dense(r) \/ DenseFails(r)
  PROVE  Moves(r)
<1> DEFINE s == search[r]
           context == Outside.context
           since == SinceOf(s, IsTool(r), calls[r].since)
           sound(hits) == HitsSound(hits, Who(r), since, Outside, entries, past)
           lexical == LexicalHits(entries, Who(r), context)
           dense == DenseHits(entries, Who(r), context)
<1>1. /\ Sound(r, s) /\ DOMAIN s = SearchFields /\ DOMAIN s.result = ResultFields
      /\ ProgressSound(s, IsTool(r), Outside) /\ WorldSound
      /\ LegsWhole(s, Who(r), Outside, entries, past)
      /\ s.attempt \in Nat /\ MaxAttempts \in Nat \ {0}
  BY RequestFacts DEF EvidenceInv
<1>2. /\ s.versions \in 0..Len(past)
      /\ sound(s.lexical.hits) /\ sound(s.dense.hits) /\ sound(s.result.evidence) /\ sound(<<>>)
  BY <1>1, NoHitsSound DEF Sound, RequestSound
<1>3. /\ LegSound(entries, lexical) /\ Len(lexical) <= context.limit
      /\ LegSound(entries, dense) /\ Len(dense) <= context.limit
  <2>1. IndexSound(entries) /\ context.offset \in Nat /\ context.limit \in Nat
    BY <1>1, WorldFacts
  <2>2. QED
    BY <2>1, QueryFacts
<1> DEFINE lexicalKept == Authorized(lexical, Who(r), Policies)
           denseKept == Authorized(dense, Who(r), Policies)
<1>4. /\ sound(lexicalKept) /\ Covers(lexicalKept, lexical, Who(r), past)
      /\ sound(denseKept) /\ Covers(denseKept, dense, Who(r), past)
  BY <1>1, <1>3, FoundNow
<1>5. (\A hits : Leg(hits).hits = hits /\ Leg(hits).lost = FALSE) /\ \A reason : Lost(reason).hits = <<>>
  BY DEF Leg, Lost
<1>6. CASE Lexical(r) \/ LexicalFails(r)
  <2>1. s.phase = "lexical" /\ \/ Goes(r, AfterLexical(s, Leg(lexicalKept)))
                               \/ "lexical" \in Outside.down /\ Goes(r, AfterLexical(s, Lost("none")))
    BY <1>6, Zenon DEF Lexical, LexicalFails, At
  <2>2. ASSUME NEW leg, sound(leg.hits),
               "lexical" \notin Outside.down => Covers(leg.hits, lexical, Who(r), past)
        PROVE  Sound(r, AfterLexical(s, leg))
    <3> DEFINE next == [s EXCEPT !.phase = "embed", !.lexical = leg]
               alone == [s EXCEPT !.phase = Retrieval, !.lexical = leg, !.result.evidence = leg.hits]
    <3>1. \/ AfterLexical(s, leg) = next /\ Outside.hybrid
          \/ AfterLexical(s, leg) = alone /\ ~Outside.hybrid
          \/ AfterLexical(s, leg) = Errs(s, "503")
      BY DEF AfterLexical
    <3>2. Sound(r, Errs(s, "503"))
      BY <2>1, ErrsSound
    <3>3. ASSUME Outside.hybrid PROVE Sound(r, next)
      <4> DEFINE t == next
      <4>1. /\ DOMAIN t = SearchFields /\ t.versions = s.versions /\ t.hit = s.hit
            /\ t.lexical = leg /\ t.dense = s.dense /\ t.result = s.result
            /\ t.attempt = s.attempt /\ t.status = s.status /\ t.phase = "embed"
        BY <1>1 DEF SearchFields
      <4> HIDE DEF next
      <4>2. ProgressSound(t, IsTool(r), Outside)
        BY <1>1, <2>1, <3>3, <4>1 DEF ProgressSound, LegPhases
      <4>3. LegsWhole(t, Who(r), Outside, entries, past)
        BY <2>2, <4>1, <4>2 DEF LegsWhole, LegPhases, ProgressSound, OnlyEmbeddingsFail
      <4>4. SinceOf(t, IsTool(r), calls[r].since) = since
        BY <4>1 DEF SinceOf
      <4>5. QED
        BY <1>1, <1>2, <2>2, <4>1, <4>2, <4>3, <4>4 DEF Sound, RequestSound
    <3>4. ASSUME ~Outside.hybrid PROVE Sound(r, alone)
      <4> DEFINE t == alone
      <4>1. /\ DOMAIN t = SearchFields /\ t.versions = s.versions /\ t.hit = s.hit
            /\ t.lexical = leg /\ t.dense = s.dense /\ DOMAIN t.result = ResultFields
            /\ t.result.evidence = leg.hits
            /\ t.attempt = s.attempt /\ t.status = s.status /\ t.phase = Retrieval
        BY <1>1 DEF SearchFields, ResultFields
      <4>2. \/ t.phase = "answer" /\ Outside.kind = "answer"
            \/ t.phase = "keep" /\ Outside.kind # "answer"
        BY <4>1 DEF Retrieval
      <4> HIDE DEF alone
      <4>3. ProgressSound(t, IsTool(r), Outside)
        BY <1>1, <2>1, <4>1, <4>2 DEF ProgressSound, LegPhases
      <4>4. LegsWhole(t, Who(r), Outside, entries, past)
        BY <2>2, <3>4, <4>1, <4>2, <4>3
        DEF LegsWhole, LegPhases, ProgressSound, OnlyEmbeddingsFail, Whole
      <4>5. SinceOf(t, IsTool(r), calls[r].since) = since
        BY <4>1 DEF SinceOf
      <4>6. QED
        BY <1>1, <1>2, <2>2, <4>1, <4>3, <4>4, <4>5 DEF Sound, RequestSound
    <3> HIDE DEF next, alone
    <3>5. QED
      BY <3>1, <3>2, <3>3, <3>4
  <2>3. sound(Leg(lexicalKept).hits) /\ Covers(Leg(lexicalKept).hits, lexical, Who(r), past)
    BY <1>4, <1>5
  <2>4. sound(Lost("none").hits)
    BY <1>2, <1>5
  <2> HIDE DEF sound, lexicalKept
  <2>5. QED
    BY <2>1, <2>2, <2>3, <2>4 DEF Moves
<1>7. CASE Embed(r)
  <2>1. Attempt(r, "embedding", "embedding", WithoutDense(s)) /\ s.phase = "embed"
    BY <1>7 DEF Embed, At
  <2>2. Sound(r, WithoutDense(s))
    BY <2>1, WithoutDenseSound
  <2>3. QED
    BY <2>1, <2>2, AttemptMoves
<1>8. CASE \E outcome \in Outside.embeds : Embedded(r, outcome)
  <2> DEFINE next == [s EXCEPT !.phase = "dense", !.attempt = 0]
             again == [s EXCEPT !.phase = "embed"]
  <2>1. /\ s.phase = "embedding"
        /\ \/ Goes(r, next) \/ Goes(r, WithoutDense(s))
           \/ Goes(r, again) /\ s.attempt < MaxAttempts
    BY <1>8 DEF Embedded, At, Retried
  <2>2. ASSUME NEW t, t = next \/ (t = again /\ s.attempt < MaxAttempts)
        PROVE  Sound(r, t)
    <3>1. /\ DOMAIN t = SearchFields /\ t.versions = s.versions /\ t.hit = s.hit
          /\ t.lexical = s.lexical /\ t.dense = s.dense /\ t.result = s.result
          /\ t.status = s.status
          /\ \/ t.phase = "dense" /\ t.attempt = 0
             \/ t.phase = "embed" /\ t.attempt = s.attempt /\ s.attempt < MaxAttempts
      BY <1>1, <2>2 DEF SearchFields
    <3>2. ProgressSound(t, IsTool(r), Outside)
      BY <1>1, <2>1, <3>1 DEF ProgressSound, LegPhases
    <3>3. LegsWhole(t, Who(r), Outside, entries, past)
      BY <1>1, <2>1, <3>1, <3>2 DEF LegsWhole, LegPhases, ProgressSound
    <3>4. QED
      BY <1>1, <3>1, <3>2, <3>3, Carried
  <2>3. Sound(r, WithoutDense(s))
    BY <2>1, WithoutDenseSound
  <2> HIDE DEF next, again
  <2>4. QED
    BY <2>1, <2>2, <2>3 DEF Moves
<1>9. CASE Dense(r) \/ DenseFails(r)
  <2> DEFINE t(leg) == [s EXCEPT !.phase = "fuse", !.dense = leg]
  <2>1. s.phase = "dense" /\ \/ Goes(r, t(Leg(denseKept)))
                             \/ "dense" \in Outside.down /\ Goes(r, t(Lost("none")))
    BY <1>9, Zenon DEF Dense, DenseFails, At
  <2>2. ASSUME NEW leg, sound(leg.hits),
               "dense" \notin Outside.down => Covers(leg.hits, dense, Who(r), past)
        PROVE  Sound(r, t(leg))
    <3> DEFINE u == t(leg)
    <3>1. /\ DOMAIN u = SearchFields /\ u.versions = s.versions /\ u.hit = s.hit
          /\ u.lexical = s.lexical /\ u.dense = leg /\ u.result = s.result
          /\ u.attempt = s.attempt /\ u.status = s.status /\ u.phase = "fuse"
      BY <1>1 DEF SearchFields
    <3> HIDE DEF t
    <3>2. ProgressSound(u, IsTool(r), Outside)
      BY <1>1, <2>1, <3>1 DEF ProgressSound, LegPhases
    <3>3. LegsWhole(u, Who(r), Outside, entries, past)
      BY <1>1, <2>1, <2>2, <3>1, <3>2 DEF LegsWhole, LegPhases, ProgressSound, OnlyEmbeddingsFail
    <3>4. SinceOf(u, IsTool(r), calls[r].since) = since
      BY <3>1 DEF SinceOf
    <3>5. QED
      BY <1>1, <1>2, <2>2, <3>1, <3>2, <3>3, <3>4 DEF Sound, RequestSound
  <2>3. sound(Leg(denseKept).hits) /\ Covers(Leg(denseKept).hits, dense, Who(r), past)
    BY <1>4, <1>5
  <2>4. sound(Lost("none").hits)
    BY <1>2, <1>5
  <2> HIDE DEF sound, denseKept, t
  <2>5. QED
    BY <2>1, <2>2, <2>3, <2>4 DEF Moves
<1>10. QED
  BY <1>6, <1>7, <1>8, <1>9

\* A fusion is as sound as its legs, and has what they have unless it is full.
LEMMA FusionSound ==
  ASSUME EvidenceInv, NEW r \in Requests
  PROVE  LET s == search[r]
             fused == Fused(LegHits(s), Who(r), Policies, Outside.context.limit)
         IN /\ HitsSound(fused, Who(r), SinceOf(s, IsTool(r), calls[r].since), Outside, entries, past)
            /\ \A leg \in {s.lexical.hits, s.dense.hits} : \A hits :
                 (LegSound(entries, hits) /\ Covers(leg, hits, Who(r), past)) =>
                   Len(fused) = Outside.context.limit \/ Covers(fused, hits, Who(r), past)
<1> DEFINE s == search[r]
           a == s.lexical.hits
           b == s.dense.hits
           p == Who(r)
           limit == Outside.context.limit
           since == SinceOf(s, IsTool(r), calls[r].since)
           fused == Fused(Legs(a, b), p, Policies, limit)
           readable == {h \in Findings(a, b) : Readable(p, Policies, h)}
<1>1. /\ IndexSound(entries) /\ limit \in Nat
      /\ Len(past) \in Nat \ {0} /\ Policies = past[Len(past)]
  BY WorldFacts DEF EvidenceInv
<1>2. DOMAIN past = 1..Len(past) /\ Len(past) \in DOMAIN past
  BY <1>1 DEF EvidenceInv, WorldSound, PastSound
<1>3. LegSound(entries, a) /\ LegSound(entries, b)
  BY DEF EvidenceInv, Sound, RequestSound, HitsSound
<1>4. since \in Int /\ since <= Len(past)
  BY <1>1 DEF EvidenceInv, Sound, RequestSound, SinceOf
<1>5. /\ LegSound(entries, fused) /\ Len(fused) <= limit
      /\ \A n \in DOMAIN fused : \E h \in readable : fused[n] = Scored(a, b, h)
      /\ \A h \in readable :
           Len(fused) = limit \/ \E n \in DOMAIN fused : fused[n] = Scored(a, b, h)
  BY <1>1, <1>3, FusedFacts
<1>6. \A h \in Findings(a, b) :
        /\ RefOf(Scored(a, b, h)) = RefOf(h) /\ ChunkVersion(Scored(a, b, h)) = ChunkVersion(h)
        /\ h \in HitsOf(entries)
  BY <1>1, <1>3, ScoredFacts
<1>7. Fused(LegHits(s), p, Policies, limit) = fused
  BY DEF LegHits, Legs
<1> HIDE DEF fused, since
<1>8. \A n \in DOMAIN fused : ReadSince(p, RefOf(fused[n]), since, past)
  <2> SUFFICES ASSUME NEW n \in DOMAIN fused PROVE ReadSince(p, RefOf(fused[n]), since, past)
    OBVIOUS
  <2>1. PICK h \in readable : fused[n] = Scored(a, b, h)
    BY <1>5
  <2>2. RefOf(fused[n]) = RefOf(h) /\ RefOf(h) \in AuthorizeReads(p, {RefOf(h)}, past[Len(past)])
    BY <1>1, <1>6, <2>1 DEF Readable
  <2>3. QED
    BY <1>1, <1>2, <1>4, <2>2 DEF ReadSince
<1>9. HitsSound(fused, p, since, Outside, entries, past)
  BY <1>5, <1>8 DEF HitsSound
<1>10. ASSUME NEW leg \in {a, b}, NEW hits, LegSound(entries, hits), Covers(leg, hits, p, past),
              Len(fused) # limit
       PROVE  Covers(fused, hits, p, past)
  <2> SUFFICES ASSUME NEW n \in DOMAIN hits,
                      \A k \in DOMAIN past :
                        RefOf(hits[n]) \in AuthorizeReads(p, {RefOf(hits[n])}, past[k])
               PROVE  \E m \in DOMAIN fused : ChunkVersion(fused[m]) = ChunkVersion(hits[n])
    BY DEF Covers
  <2>1. PICK m \in DOMAIN leg : ChunkVersion(leg[m]) = ChunkVersion(hits[n])
    BY <1>10 DEF Covers
  <2>2. leg[m] \in Findings(a, b)
    BY DEF Findings, ToSet
  <2>3. hits[n] \in HitsOf(entries) /\ leg[m].chunk = hits[n].chunk
    BY <1>10, <2>1 DEF LegSound, ChunkVersion
  <2>4. RefOf(leg[m]) = RefOf(hits[n])
    BY <1>1, <1>6, <2>2, <2>3, HitsOfFacts
  <2>5. leg[m] \in readable
    BY <1>1, <1>2, <2>2, <2>4 DEF Readable
  <2>6. PICK k \in DOMAIN fused : fused[k] = Scored(a, b, leg[m])
    BY <1>5, <1>10, <2>5
  <2>7. QED
    BY <1>6, <2>1, <2>2, <2>6
<1>11. QED
  BY <1>7, <1>9, <1>10 DEF fused, since

\* A reranking has the same chunks, each once.
LEMMA RerankedFacts ==
  ASSUME NEW index, IndexSound(index), NEW c, LegSound(index, c), NEW scores, ValidReply(c, scores),
         \A s \in ToSet(scores) : s.score \in Int
  PROVE  LET reranked == Reranked(c, scores)
         IN /\ LegSound(index, reranked) /\ Len(reranked) = Len(c)
            /\ \A n \in DOMAIN reranked : \E m \in DOMAIN c : RefOf(reranked[n]) = RefOf(c[m])
<1> DEFINE ScoreOf(h) == (CHOOSE s \in ToSet(scores) : s.chunk = h.chunk).score
           Better(i, j) == \/ ScoreOf(c[i]) > ScoreOf(c[j])
                           \/ ScoreOf(c[i]) = ScoreOf(c[j]) /\ i < j
           places == DOMAIN c
           before == {q \in places \X places : Better(q[1], q[2])}
           order == Sorted(places, before)
           reranked == [n \in places |-> [c[order[n]] EXCEPT !.score = ScoreOf(c[order[n]])]]
<1>1. Reranked(c, scores) = reranked
  BY DEF Reranked
<1>2. c \in Seq(HitsOf(index)) /\ Len(c) \in Nat /\ places = 1..Len(c)
  BY DEF LegSound
<1>3. \A n \in places : ScoreOf(c[n]) \in Int
  <2> SUFFICES ASSUME NEW n \in places PROVE ScoreOf(c[n]) \in Int
    OBVIOUS
  <2>1. c[n].chunk \in {s.chunk : s \in ToSet(scores)}
    BY DEF ValidReply, ToSet
  <2>2. \E s \in ToSet(scores) : s.chunk = c[n].chunk
    BY <2>1
  <2>3. QED
    BY <2>2
<1>4. \A i, j \in places : <<i, j>> \in before <=> Better(i, j)
  OBVIOUS
<1> HIDE DEF ScoreOf, before
<1>5. StrictTotalOrder(before, places)
  <2>1. \A i, j, k \in places : Better(i, j) /\ Better(j, k) => Better(i, k)
    BY <1>2, <1>3
  <2>2. \A i, j \in places : ~Better(i, i) /\ (i # j => Better(i, j) \/ Better(j, i))
    BY <1>2, <1>3
  <2> HIDE DEF Better, places
  <2>3. QED
    BY <1>4, <2>1, <2>2 DEF StrictTotalOrder
<1>6. IsFiniteSet(places) /\ Cardinality(places) = Len(c)
  <2>1. /\ IsFiniteSet(1..Len(c))
        /\ Cardinality(1..Len(c)) = IF 1 > Len(c) THEN 0 ELSE Len(c) - 1 + 1
    BY <1>2, FS_Interval
  <2>2. QED
    BY <1>2, <2>1
<1>7. /\ order \in [1..Len(c) -> places]
      /\ \A m, n \in 1..Len(c) : m < n <=> <<order[m], order[n]>> \in before
  BY <1>5, <1>6, SortedFacts
<1> HIDE DEF order
<1>8. \A m, n \in places : order[m] = order[n] => m = n
  <2> SUFFICES ASSUME NEW m \in places, NEW n \in places, order[m] = order[n] PROVE m = n
    OBVIOUS
  <2>1. ~(m < n) /\ ~(n < m)
    BY <1>2, <1>5, <1>7 DEF StrictTotalOrder
  <2>2. QED
    BY <1>2, <2>1
<1>9. ASSUME NEW n \in places
      PROVE  /\ order[n] \in places /\ reranked[n] \in HitsOf(index)
             /\ reranked[n].chunk = c[order[n]].chunk /\ RefOf(reranked[n]) = RefOf(c[order[n]])
  <2>1. order[n] \in places /\ c[order[n]] \in HitsOf(index)
    BY <1>2, <1>7
  <2>2. reranked[n] = [c[order[n]] EXCEPT !.score = ScoreOf(c[order[n]])]
    OBVIOUS
  <2>3. ScoreOf(c[order[n]]) \in Int
    BY <1>3, <2>1
  <2> HIDE DEF reranked
  <2>4. QED
    BY <2>1, <2>2, <2>3, HitsOfFacts
<1>10. DOMAIN reranked = 1..Len(c)
  BY <1>2
<1>11. reranked \in Seq(HitsOf(index)) /\ Len(reranked) = Len(c)
  <2>1. reranked \in [1..Len(c) -> HitsOf(index)]
    BY <1>2, <1>9
  <2> HIDE DEF reranked
  <2>2. QED
    BY <1>2, <2>1
<1> HIDE DEF reranked
<1>12. \A m, n \in DOMAIN reranked : reranked[m].chunk = reranked[n].chunk => m = n
  BY <1>2, <1>8, <1>9, <1>10 DEF LegSound
<1>13. QED
  BY <1>1, <1>2, <1>9, <1>10, <1>11, <1>12 DEF LegSound

\* A part of the evidence, reranked, is as sound.
LEMMA RerankSound ==
  ASSUME EvidenceInv, NEW r \in Requests, NEW scores \in Outside.scores
  PROVE  LET s == search[r]
             evidence == s.result.evidence
             some == SubSeq(evidence, 1, IF RerankLimit < Len(evidence) THEN RerankLimit
                                         ELSE Len(evidence))
         IN ValidReply(some, scores) =>
              HitsSound(Reranked(some, scores), Who(r), SinceOf(s, IsTool(r), calls[r].since),
                        Outside, entries, past)
<1> DEFINE s == search[r]
           evidence == s.result.evidence
           since == SinceOf(s, IsTool(r), calls[r].since)
           some == SubSeq(evidence, 1, IF RerankLimit < Len(evidence) THEN RerankLimit
                                       ELSE Len(evidence))
           reranked == Reranked(some, scores)
<1>1. HitsSound(evidence, Who(r), since, Outside, entries, past)
  BY DEF EvidenceInv, Sound, RequestSound
<1>2. LegSound(entries, evidence) /\ evidence \in Seq(HitsOf(entries))
  BY <1>1 DEF HitsSound, LegSound
<1>3. RerankLimit \in Nat /\ \A score \in ToSet(scores) : score.score \in Int
  <2>1. Outside \in ToSet(Worlds)
    BY DEF EvidenceInv, WorldSound, Outside, ToSet
  <2>2. QED
    BY <2>1, SearchAssumption
<1>4. /\ LegSound(entries, some) /\ Len(some) <= Len(evidence)
      /\ \A n \in DOMAIN some : n \in DOMAIN evidence /\ some[n] = evidence[n]
  BY <1>2, <1>3, FirstFacts
<1>5. IndexSound(entries) /\ Outside.context.limit \in Nat
  BY WorldFacts DEF EvidenceInv
<1> HIDE DEF some, since
<1>6. ASSUME ValidReply(some, scores)
      PROVE  HitsSound(reranked, Who(r), since, Outside, entries, past)
  <2>1. /\ LegSound(entries, reranked) /\ Len(reranked) = Len(some)
        /\ \A n \in DOMAIN reranked : \E m \in DOMAIN some : RefOf(reranked[n]) = RefOf(some[m])
    BY <1>3, <1>4, <1>5, <1>6, RerankedFacts
  <2> HIDE DEF reranked
  <2>2. \A n \in DOMAIN reranked : ReadSince(Who(r), RefOf(reranked[n]), since, past)
    BY <1>1, <1>4, <2>1 DEF HitsSound
  <2>3. Len(reranked) <= Outside.context.limit
    <3>1. some \in Seq(HitsOf(entries))
      BY <1>4 DEF LegSound
    <3>2. Len(some) \in Nat /\ Len(evidence) \in Nat
      BY <1>2, <3>1
    <3>3. QED
      BY <1>1, <1>4, <1>5, <2>1, <3>2 DEF HitsSound
  <2>4. QED
    BY <2>1, <2>2, <2>3 DEF HitsSound
<1>7. QED
  BY <1>6 DEF some, since

\* Fusion, reranking and generation keep what the legs found sound.
LEMMA ResultMoves ==
  ASSUME EvidenceInv, NEW r \in Requests,
         \/ Fuse(r) \/ FuseFails(r) \/ RerankFails(r)
         \/ \E scores \in Outside.scores : Rerank(r, scores)
         \/ Generate(r) \/ \E outcome \in Outside.replies : Generated(r, outcome)
  PROVE  Moves(r)
<1> DEFINE s == search[r]
           p == Who(r)
           context == Outside.context
           since == SinceOf(s, IsTool(r), calls[r].since)
           sound(hits) == HitsSound(hits, p, since, Outside, entries, past)
<1>1. /\ Sound(r, s) /\ DOMAIN s = SearchFields /\ DOMAIN s.result = ResultFields
      /\ ProgressSound(s, IsTool(r), Outside) /\ WorldSound
      /\ LegsWhole(s, p, Outside, entries, past)
      /\ s.attempt \in Nat /\ MaxAttempts \in Nat \ {0}
  BY RequestFacts DEF EvidenceInv
<1>2. /\ s.versions \in 0..Len(past)
      /\ sound(s.lexical.hits) /\ sound(s.dense.hits) /\ sound(s.result.evidence)
  BY <1>1 DEF Sound, RequestSound
<1>3. Retrieval = IF Outside.kind = "answer" THEN "answer" ELSE "keep"
  BY DEF Retrieval
<1>4. s.phase \notin {"release", "done"} =>
        Sound(r, Errs(s, "503")) /\ Sound(r, Errs(s, "500"))
  BY ErrsSound
<1>5. CASE Fuse(r) \/ FuseFails(r)
  <2> DEFINE fused == Fused(LegHits(s), p, Policies, context.limit)
             t == [s EXCEPT !.phase = IF Outside.reranked THEN "rerank" ELSE Retrieval,
                            !.result.degraded = s.dense = NoEmbedding, !.result.evidence = fused]
  <2>1. s.phase = "fuse" /\ (Goes(r, Errs(s, "503")) \/ Goes(r, t))
    BY <1>5, Zenon DEF Fuse, FuseFails, At
  <2>2. /\ DOMAIN t = SearchFields /\ t.versions = s.versions /\ t.hit = s.hit
        /\ t.lexical = s.lexical /\ t.dense = s.dense /\ DOMAIN t.result = ResultFields
        /\ t.result.evidence = fused
        /\ t.attempt = s.attempt /\ t.status = s.status
        /\ t.phase = IF Outside.reranked THEN "rerank" ELSE Retrieval
    BY <1>1 DEF SearchFields, ResultFields
  <2>3. s.dense = NoEmbedding => t.result.degraded
    <3>1. t.result = [s.result EXCEPT !.degraded = s.dense = NoEmbedding, !.evidence = fused]
      BY <1>1 DEF SearchFields, ResultFields
    <3>2. "degraded" \in DOMAIN s.result
      BY <1>1 DEF ResultFields
    <3> HIDE DEF t, fused
    <3> SUFFICES ASSUME s.dense = NoEmbedding PROVE t.result.degraded
      OBVIOUS
    <3>3. (s.dense = NoEmbedding) = TRUE
      OBVIOUS
    <3> DEFINE mark == (s.dense = NoEmbedding)
    <3>4. t.result = [s.result EXCEPT !.degraded = mark, !.evidence = fused] /\ mark = TRUE
      BY <3>1, <3>3, Zenon
    <3> HIDE DEF mark
    <3>5. t.result.degraded = TRUE
      BY <3>2, <3>4
    <3>6. QED
      BY <3>5, Zenon
  <2>4. /\ sound(fused)
        /\ \A leg \in {s.lexical.hits, s.dense.hits} : \A hits :
             (LegSound(entries, hits) /\ Covers(leg, hits, p, past)) =>
               Len(fused) = context.limit \/ Covers(fused, hits, p, past)
    BY FusionSound
  <2> HIDE DEF t, fused, sound
  <2>5. \/ t.phase = "rerank" /\ Outside.reranked
        \/ t.phase = "answer" /\ Outside.kind = "answer"
        \/ t.phase = "keep" /\ Outside.kind # "answer"
    BY <1>3, <2>2
  <2>6. ProgressSound(t, IsTool(r), Outside)
    BY <1>1, <2>1, <2>2, <2>5 DEF ProgressSound, LegPhases
  <2>7. LegsWhole(t, p, Outside, entries, past)
    <3> SUFFICES ASSUME OnlyEmbeddingsFail(Outside)
                 PROVE  /\ t.phase \notin LegPhases /\ t.phase # "fuse" /\ ~t.hit
                        /\ t.result.degraded \/ Whole(t.result.evidence, p, Outside, entries, past)
      BY DEF LegsWhole
    <3>1. t.phase = "keep" /\ ~t.hit
      BY <2>5, <2>6 DEF OnlyEmbeddingsFail, ProgressSound
    <3>2. /\ LegSound(entries, LexicalHits(entries, p, context))
          /\ LegSound(entries, DenseHits(entries, p, context))
      <4>1. IndexSound(entries) /\ context.offset \in Nat /\ context.limit \in Nat
        BY <1>1, WorldFacts
      <4>2. QED
        BY <4>1, QueryFacts
    <3>3. /\ Covers(s.lexical.hits, LexicalHits(entries, p, context), p, past)
          /\ s.dense = NoEmbedding \/ Covers(s.dense.hits, DenseHits(entries, p, context), p, past)
      BY <1>1, <2>1 DEF LegsWhole, LegPhases
    <3>4. t.result.degraded \/ Whole(fused, p, Outside, entries, past)
      BY <2>3, <2>4, <3>2, <3>3 DEF Whole
    <3>5. QED
      BY <2>2, <3>1, <3>4 DEF LegPhases
  <2>8. SinceOf(t, IsTool(r), calls[r].since) = since
    BY <2>2 DEF SinceOf
  <2>9. Sound(r, t)
    BY <1>1, <1>2, <2>2, <2>4, <2>6, <2>7, <2>8 DEF Sound, RequestSound, sound
  <2>10. QED
    BY <1>4, <2>1, <2>9 DEF Moves
<1>6. CASE RerankFails(r)
  <2> DEFINE t == [s EXCEPT !.phase = Retrieval, !.result.degraded = FALSE]
  <2>1. s.phase = "rerank" /\ (Goes(r, t) \/ Goes(r, Errs(s, "500")))
    BY <1>6 DEF RerankFails, At
  <2>2. /\ DOMAIN t = SearchFields /\ t.versions = s.versions /\ t.hit = s.hit
        /\ t.lexical = s.lexical /\ t.dense = s.dense /\ DOMAIN t.result = ResultFields
        /\ t.result.evidence = s.result.evidence
        /\ t.attempt = s.attempt /\ t.status = s.status /\ t.phase = Retrieval
    BY <1>1 DEF SearchFields, ResultFields
  <2> HIDE DEF t
  <2>3. Outside.reranked /\ ~s.hit
    BY <1>1, <2>1 DEF ProgressSound
  <2>4. ProgressSound(t, IsTool(r), Outside)
    BY <1>1, <1>3, <2>1, <2>2 DEF ProgressSound, LegPhases
  <2>5. LegsWhole(t, p, Outside, entries, past)
    BY <2>3 DEF LegsWhole, OnlyEmbeddingsFail
  <2>6. Sound(r, t)
    BY <1>1, <2>2, <2>4, <2>5, Carried
  <2>7. QED
    BY <1>4, <2>1, <2>6 DEF Moves
<1>7. CASE \E scores \in Outside.scores : Rerank(r, scores)
  <2>1. PICK scores \in Outside.scores : Rerank(r, scores)
    BY <1>7
  <2> DEFINE evidence == s.result.evidence
             some == SubSeq(evidence, 1, IF RerankLimit < Len(evidence) THEN RerankLimit
                                         ELSE Len(evidence))
             reranked == Reranked(some, scores)
             t == [s EXCEPT !.phase = Retrieval, !.result.evidence = reranked,
                            !.result.degraded = FALSE]
  <2>2. s.phase = "rerank" /\ (Goes(r, Errs(s, "500")) \/ (Goes(r, t) /\ ValidReply(some, scores)))
    BY <2>1, Zenon DEF Rerank, At
  <2>3. ValidReply(some, scores) => sound(reranked)
    BY RerankSound
  <2>4. /\ DOMAIN t = SearchFields /\ t.versions = s.versions /\ t.hit = s.hit
        /\ t.lexical = s.lexical /\ t.dense = s.dense /\ DOMAIN t.result = ResultFields
        /\ t.result.evidence = reranked
        /\ t.attempt = s.attempt /\ t.status = s.status /\ t.phase = Retrieval
    BY <1>1 DEF SearchFields, ResultFields
  <2> HIDE DEF t, reranked, some, sound
  <2>5. Outside.reranked
    BY <1>1, <2>2 DEF ProgressSound
  <2>6. ProgressSound(t, IsTool(r), Outside)
    BY <1>1, <1>3, <2>2, <2>4 DEF ProgressSound, LegPhases
  <2>7. LegsWhole(t, p, Outside, entries, past)
    BY <2>5 DEF LegsWhole, OnlyEmbeddingsFail
  <2>8. SinceOf(t, IsTool(r), calls[r].since) = since
    BY <2>4 DEF SinceOf
  <2>9. ValidReply(some, scores) => Sound(r, t)
    BY <1>1, <1>2, <2>3, <2>4, <2>6, <2>7, <2>8 DEF Sound, RequestSound, sound
  <2>10. QED
    BY <1>4, <2>2, <2>9 DEF Moves
<1>8. CASE Generate(r)
  <2>1. Attempt(r, "generation", "generating", Errs(s, "500")) /\ s.phase = "answer"
    BY <1>8 DEF Generate, At
  <2>2. Sound(r, Errs(s, "500"))
    BY <1>4, <2>1
  <2>3. QED
    BY <2>1, <2>2, AttemptMoves
<1>9. CASE \E outcome \in Outside.replies : Generated(r, outcome)
  <2> DEFINE drafted(v) == [s EXCEPT !.phase = "keep", !.result.verified = v]
             again == [s EXCEPT !.phase = "answer"]
  <2>1. /\ s.phase = "generating"
        /\ \/ Goes(r, Errs(s, "500")) \/ \E v : Goes(r, drafted(v))
           \/ Goes(r, again) /\ s.attempt < MaxAttempts
    BY <1>9 DEF Generated, At, Retried
  <2> DEFINE fields(t) == /\ DOMAIN t = SearchFields /\ t.versions = s.versions /\ t.hit = s.hit
                          /\ t.lexical = s.lexical /\ t.dense = s.dense
                          /\ DOMAIN t.result = ResultFields
                          /\ t.result.evidence = s.result.evidence
                          /\ t.attempt = s.attempt /\ t.status = s.status
  <2>2. \A v : fields(drafted(v)) /\ drafted(v).phase = "keep"
    BY <1>1 DEF SearchFields, ResultFields
  <2>3. fields(again) /\ again.phase = "answer"
    BY <1>1 DEF SearchFields, ResultFields
  <2> HIDE DEF drafted, again
  <2>4. ASSUME NEW t, (\E v : t = drafted(v)) \/ (t = again /\ s.attempt < MaxAttempts)
        PROVE  Sound(r, t)
    <3>1. fields(t) /\ (t.phase = "keep" \/ (t.phase = "answer" /\ s.attempt < MaxAttempts))
      BY <2>2, <2>3, <2>4
    <3>2. Outside.kind = "answer"
      BY <1>1, <2>1 DEF ProgressSound
    <3>3. ProgressSound(t, IsTool(r), Outside)
      BY <1>1, <2>1, <3>1, <3>2 DEF ProgressSound, LegPhases
    <3>4. LegsWhole(t, p, Outside, entries, past)
      BY <3>2 DEF LegsWhole, OnlyEmbeddingsFail
    <3>5. QED
      BY <1>1, <3>1, <3>3, <3>4, Carried
  <2>5. QED
    BY <1>4, <2>1, <2>4 DEF Moves
<1>10. QED
  BY <1>5, <1>6, <1>7, <1>8, <1>9

-----------------------------------------------------------------------------
(* Every step keeps the invariant.                                         *)

\* What was read stays read, and what was not stays so, as policies are added.
LEMMA MorePolicies ==
  ASSUME NEW rows, NEW more, Len(rows) \in Nat, Len(more) \in Nat, Len(rows) <= Len(more),
         DOMAIN rows = 1..Len(rows), DOMAIN more = 1..Len(more),
         \A n \in 1..Len(rows) : more[n] = rows[n], NEW w, NEW index
  PROVE  /\ \A s, p, tool, called :
              RequestSound(s, p, tool, called, w, index, rows) =>
                RequestSound(s, p, tool, called, w, index, more)
         /\ \A c : RecordSound(c, w, index, rows) => RecordSound(c, w, index, more)
<1>1. \A p, d, since : ReadSince(p, d, since, rows) => ReadSince(p, d, since, more)
  BY DEF ReadSince
<1>2. \A hits, p, since :
        HitsSound(hits, p, since, w, index, rows) => HitsSound(hits, p, since, w, index, more)
  BY <1>1 DEF HitsSound
<1>3. \A evidence, hits, p : Covers(evidence, hits, p, rows) => Covers(evidence, hits, p, more)
  <2> DEFINE Unread(p, d, n, all) == d \notin AuthorizeReads(p, {d}, all[n])
  <2>1. \A p, d : (\E k \in DOMAIN rows : Unread(p, d, k, rows)) => \E k \in DOMAIN more : Unread(p, d, k, more)
    <3>1. \A k \in DOMAIN rows : k \in DOMAIN more /\ more[k] = rows[k]
      OBVIOUS
    <3>2. QED
      BY <3>1
  <2>2. QED
    BY <2>1 DEF Covers
<1>4. \A evidence, p : Whole(evidence, p, w, index, rows) => Whole(evidence, p, w, index, more)
  BY <1>3 DEF Whole
<1>5. \A s, p : LegsWhole(s, p, w, index, rows) => LegsWhole(s, p, w, index, more)
  BY <1>3, <1>4 DEF LegsWhole
<1>6. \A c : RecordSound(c, w, index, rows) => RecordSound(c, w, index, more)
  BY <1>2, <1>4 DEF RecordSound
<1>7. ASSUME NEW s, NEW p, NEW tool, NEW called, RequestSound(s, p, tool, called, w, index, rows)
      PROVE  RequestSound(s, p, tool, called, w, index, more)
  BY <1>2, <1>5, <1>7 DEF RequestSound
<1>8. QED
  BY <1>6, <1>7

\* A request is as sound in a world that is the same.
LEMMA SameWorld ==
  ASSUME UNCHANGED <<world, entries>>, NEW r, calls'[r].since = calls[r].since
  PROVE  Sound(r, search[r])' <=>
           RequestSound(search'[r], Who(r), IsTool(r), calls[r].since, Outside, entries, past')
<1>1. /\ Who(r)' = Who(r) /\ Outside' = Outside /\ entries' = entries
      /\ (r \in DOMAIN Outside.tools)' = (r \in DOMAIN Outside.tools)
  BY DEF Who, Outside
<1>2. IsTool(r)' = IsTool(r)
  BY <1>1 DEF IsTool
<1>3. QED
  BY <1>1, <1>2, Zenon DEF Sound

\* What a request keeps is sound for everyone with the same key.
LEMMA KeptSound ==
  ASSUME EvidenceInv, NEW r \in Requests, search[r].phase = "keep",
         EligibleFor(Outside.kind, search[r].result, Who(r)), NEW c,
         c.key = KeyOf(r), c.value = search[r].result
  PROVE  RecordSound(c, Outside, entries, past)
<1> DEFINE s == search[r]
           since == SinceOf(s, IsTool(r), calls[r].since)
<1>1. /\ Sound(r, s) /\ DOMAIN s.result = ResultFields
      /\ ProgressSound(s, IsTool(r), Outside) /\ LegsWhole(s, Who(r), Outside, entries, past)
  BY RequestFacts
<1>2. c.key.principal = Who(r) /\ c.key.versions = s.versions
  BY DEF KeyOf, CacheKey
<1>3. /\ s.versions \in Nat /\ since \in Nat /\ s.versions <= since
      /\ HitsSound(s.result.evidence, Who(r), since, Outside, entries, past)
  BY <1>1 DEF Sound, RequestSound, SinceOf, ProgressSound, EvidenceInv
<1>4. HitsSound(s.result.evidence, Who(r), s.versions, Outside, entries, past)
  <2>1. \A d : ReadSince(Who(r), d, since, past) => ReadSince(Who(r), d, s.versions, past)
    <3>1. \A n \in 1..Len(past) : since <= n => s.versions <= n
      BY <1>3
    <3>2. QED
      BY <3>1 DEF ReadSince
  <2> HIDE DEF since
  <2>2. QED
    BY <1>3, <2>1 DEF HitsSound
<1>5. OnlyEmbeddingsFail(Outside) => ~s.result.degraded
  BY DEF OnlyEmbeddingsFail, EligibleFor, Eligible
<1>6. QED
  BY <1>1, <1>2, <1>4, <1>5 DEF RecordSound, LegsWhole

\* A call at a provider begins, or its end is recorded.
BreakerMove(provider) ==
  \/ breaker' = breaker
  \/ breaker' = [breaker EXCEPT ![provider] = Acquired(breaker[provider])]
  \/ breaker' = [breaker EXCEPT ![provider] = RecordFailure(breaker[provider], now)]
  \/ breaker' = [breaker EXCEPT ![provider] = RecordSuccess(breaker[provider])]

\* The calls at a provider leave its breaker in one of its states.
LEMMA BreakerMoves ==
  ASSUME WorldSound, NEW provider \in {"embedding", "generation"}, BreakerMove(provider)
  PROVE  BreakersSound'
<1> DEFINE Good(b) == /\ DOMAIN b = {"state", "failures", "openedAt"}
                      /\ b.state \in {"closed", "open", "half_open"}
<1>1. BreakersSound /\ DOMAIN Closed = {"state", "failures", "openedAt"} /\ Closed.state = "closed"
  BY DEF WorldSound, Closed
<1>2. provider \in DOMAIN breaker /\ \A d \in DOMAIN breaker : Good(breaker[d])
  BY <1>1 DEF BreakersSound
<1>3. Good(Acquired(breaker[provider]))
  BY <1>2 DEF Acquired
<1>4. Good(RecordSuccess(breaker[provider]))
  BY <1>1 DEF RecordSuccess
<1>5. Good(RecordFailure(breaker[provider], now))
  <2> DEFINE b == breaker[provider]
             more == [b EXCEPT !.failures = @ + 1]
  <2>1. Good(b) /\ Good(more)
    BY <1>2
  <2>2. \A c : Good(c) => Good(Opened(c, now))
    BY DEF Opened
  <2>3. RecordFailure(b, now) \in {Opened(b, now), Opened(more, now), more}
    BY DEF RecordFailure
  <2> HIDE DEF more, Good, b
  <2>4. QED
    BY <2>1, <2>2, <2>3 DEF b
<1> HIDE DEF Good
<1>6. ASSUME NEW b, Good(b), breaker' = [breaker EXCEPT ![provider] = b] PROVE BreakersSound'
  <2>1. /\ DOMAIN breaker' = DOMAIN breaker /\ \A d \in DOMAIN breaker : Good(breaker'[d])
    BY <1>2, <1>6
  <2>2. QED
    BY <1>1, <2>1 DEF BreakersSound, Good, Closed
<1>7. CASE breaker' = breaker
  BY <1>1, <1>7 DEF BreakersSound
<1>8. QED
  BY <1>3, <1>4, <1>5, <1>6, <1>7 DEF BreakerMove

\* A step of a request changes what the request has, the breakers, and what is kept.
RequestStep(r) ==
  /\ Moves(r)
  /\ UNCHANGED <<world, entries, now, past, published>> /\ BreakersSound'
  /\ \A c \in cache' : RecordSound(c, Outside, entries, past)

\* The steps of the lease and of the cache are such steps.
LEMMA CacheSteps ==
  ASSUME EvidenceInv, NEW r \in Requests,
         \/ Stamp(r) \/ Reserve(r) \/ ReserveFails(r) \/ Release(r) \/ ReleaseFails(r)
         \/ Admit(r) \/ LookUp(r) \/ Keep(r) \/ KeepFails(r)
  PROVE  RequestStep(r)
<1>1. BreakersSound /\ \A c \in cache : RecordSound(c, Outside, entries, past)
  BY DEF EvidenceInv, WorldSound
<1>2. Moves(r)
  BY AdmissionMoves, LookUpMoves
<1>3. UNCHANGED <<world, entries, now, past, published, breaker>>
  BY DEF Stamp, Reserve, ReserveFails, Release, ReleaseFails, Admit, LookUp, Keep, KeepFails
<1>4. BreakersSound'
  BY <1>1, <1>3 DEF BreakersSound
<1>5. CASE Keep(r)
  <2> DEFINE new == [key |-> KeyOf(r), kind |-> Outside.kind, value |-> search[r].result]
  <2>1. search[r].phase = "keep" /\ new.key = KeyOf(r) /\ new.value = search[r].result
    BY <1>5 DEF Keep, At
  <2>2. \/ cache' \subseteq cache
        \/ cache' \subseteq cache \cup {new} /\ EligibleFor(Outside.kind, search[r].result, Who(r))
    BY <1>5 DEF Keep, Stored
  <2> HIDE DEF new
  <2>3. EligibleFor(Outside.kind, search[r].result, Who(r)) => RecordSound(new, Outside, entries, past)
    BY <2>1, KeptSound
  <2>4. QED
    BY <1>1, <1>2, <1>3, <1>4, <2>2, <2>3 DEF RequestStep
<1>6. CASE ~Keep(r)
  <2>1. cache' = cache
    BY <1>6 DEF Stamp, Reserve, ReserveFails, Release, ReleaseFails, Admit, LookUp, KeepFails
  <2>2. QED
    BY <1>1, <1>2, <1>3, <1>4, <2>1 DEF RequestStep
<1>7. QED
  BY <1>5, <1>6

\* So are the steps of the legs.
LEMMA LegSteps ==
  ASSUME EvidenceInv, NEW r \in Requests,
         \/ Lexical(r) \/ LexicalFails(r) \/ Embed(r)
         \/ \E outcome \in Outside.embeds : Embedded(r, outcome)
         \/ Dense(r) \/ DenseFails(r)
  PROVE  RequestStep(r)
<1>1. WorldSound /\ \A c \in cache : RecordSound(c, Outside, entries, past)
  BY DEF EvidenceInv
<1>2. Moves(r)
  BY LegsMove
<1>3. UNCHANGED <<world, entries, now, past, published, cache>>
  BY DEF Lexical, LexicalFails, Embed, Embedded, Dense, DenseFails
<1>4. BreakerMove("embedding")
  BY DEF Lexical, LexicalFails, Embed, Embedded, Dense, DenseFails, Attempt, Recorded, BreakerMove
<1>5. BreakersSound'
  BY <1>1, <1>4, BreakerMoves
<1>6. QED
  BY <1>1, <1>2, <1>3, <1>5 DEF RequestStep

\* And those of fusion, reranking and generation.
LEMMA ResultSteps ==
  ASSUME EvidenceInv, NEW r \in Requests,
         \/ Fuse(r) \/ FuseFails(r) \/ RerankFails(r)
         \/ \E scores \in Outside.scores : Rerank(r, scores)
         \/ Generate(r) \/ \E outcome \in Outside.replies : Generated(r, outcome)
  PROVE  RequestStep(r)
<1>1. WorldSound /\ \A c \in cache : RecordSound(c, Outside, entries, past)
  BY DEF EvidenceInv
<1>2. Moves(r)
  BY ResultMoves
<1>3. UNCHANGED <<world, entries, now, past, published, cache>>
  BY DEF Fuse, FuseFails, RerankFails, Rerank, Generate, Generated
<1>4. BreakerMove("generation")
  BY DEF Fuse, FuseFails, RerankFails, Rerank, Generate, Generated, Attempt, Recorded, BreakerMove
<1>5. BreakersSound'
  BY <1>1, <1>4, BreakerMoves
<1>6. QED
  BY <1>1, <1>2, <1>3, <1>5 DEF RequestStep

\* A step of a request leaves the other requests as they are.
LEMMA RequestStepKeeps ==
  ASSUME EvidenceInv, QuotaInv, NEW r \in Requests, RequestStep(r), UNCHANGED calls
  PROVE  EvidenceInv'
<1>1. PICK t : Goes(r, t) /\ Sound(r, t)
  BY DEF RequestStep, Moves
<1>2. UNCHANGED <<world, entries, now, past, published, calls>> /\ BreakersSound'
  BY DEF RequestStep
<1>3. /\ search'[r] = t /\ \A q \in Requests : q # r => search'[q] = search[q]
  BY <1>1 DEF Goes, QuotaInv, SearchesSound
<1>4. WorldSound'
  BY <1>2 DEF EvidenceInv, WorldSound, Outside, PastSound
<1>5. ASSUME NEW q \in Requests PROVE (calls[q].since \in 1..Len(past))' /\ Sound(q, search[q])'
  <2>1. calls[q].since \in 1..Len(past) /\ Sound(q, search'[q])
    BY <1>1, <1>3 DEF EvidenceInv
  <2>2. RequestSound(search'[q], Who(q), IsTool(q), calls[q].since, Outside, entries, past')
    BY <1>2, <2>1 DEF Sound
  <2>3. QED
    BY <1>2, <2>1, <2>2, SameWorld
<1>6. ASSUME NEW c \in cache' PROVE RecordSound(c, Outside, entries, past)'
  BY <1>2, <1>6 DEF RequestStep, Outside
<1>7. QED
  BY <1>4, <1>5, <1>6 DEF EvidenceInv

\* Time, policies, publication and expiry leave every request as sound as it is.
LEMMA EnvironmentSound ==
  ASSUME EvidenceInv, Tick \/ PolicyChange \/ Publish \/ Expire \/ UNCHANGED vars, UNCHANGED calls
  PROVE  EvidenceInv'
<1>1. UNCHANGED <<world, entries, search, breaker, calls>> /\ cache' \subseteq cache
  BY DEF Tick, PolicyChange, Publish, Expire, vars
<1>2. past' = past \/ \E p : past' = Append(past, p)
  BY DEF Tick, PolicyChange, Publish, Expire, vars
<1>3. /\ PastSound /\ PastSound'
  BY <1>2, PastGrows DEF EvidenceInv, WorldSound, PastSound
<1>4. /\ Len(past) \in Nat /\ Len(past') \in Nat /\ Len(past) <= Len(past')
      /\ DOMAIN past = 1..Len(past) /\ DOMAIN past' = 1..Len(past')
      /\ \A n \in 1..Len(past) : past'[n] = past[n]
  <2>1. Len(past) \in Nat /\ DOMAIN past = 1..Len(past) /\ Len(past') \in Nat
        /\ DOMAIN past' = 1..Len(past')
    BY <1>3 DEF PastSound
  <2>2. Len(past) <= Len(past') /\ \A n \in 1..Len(past) : past'[n] = past[n]
    <3>1. CASE past' = past
      BY <2>1, <3>1
    <3>2. ASSUME NEW p, past' = Append(past, p)
          PROVE  Len(past) <= Len(past') /\ \A n \in 1..Len(past) : past'[n] = past[n]
      BY <1>3, <2>1, <3>2, PastGrows
    <3>3. QED
      BY <1>2, <3>1, <3>2
  <2>3. QED
    BY <2>1, <2>2
<1>5. now' \in 0..Outside.maxTime /\ published' \in 1..Len(past')
  <2>1. now \in 0..Outside.maxTime /\ published \in 1..Len(past) /\ Outside.maxTime \in Nat
    BY WorldFacts DEF EvidenceInv, WorldSound
  <2>2. now' = now \/ (now' = now + 1 /\ now < Outside.maxTime)
    BY DEF Tick, PolicyChange, Publish, Expire, vars
  <2>3. published' = published \/ (published' = published + 1 /\ published < Len(past))
    BY DEF Tick, PolicyChange, Publish, Expire, vars
  <2>4. QED
    BY <1>4, <2>1, <2>2, <2>3
<1>6. WorldSound'
  BY <1>1, <1>3, <1>5 DEF EvidenceInv, WorldSound, BreakersSound, Outside
<1>7. ASSUME NEW q \in Requests PROVE (calls[q].since \in 1..Len(past))' /\ Sound(q, search[q])'
  <2>1. /\ calls[q].since \in 1..Len(past)
        /\ RequestSound(search[q], Who(q), IsTool(q), calls[q].since, Outside, entries, past)
    BY DEF EvidenceInv, Sound
  <2>2. RequestSound(search[q], Who(q), IsTool(q), calls[q].since, Outside, entries, past')
    BY <1>4, <2>1, MorePolicies
  <2>3. QED
    BY <1>1, <1>4, <2>1, <2>2, SameWorld
<1>8. ASSUME NEW c \in cache' PROVE RecordSound(c, Outside, entries, past)'
  <2>1. RecordSound(c, Outside, entries, past)
    BY <1>1, <1>8 DEF EvidenceInv
  <2>2. RecordSound(c, Outside, entries, past')
    BY <1>4, <2>1, MorePolicies
  <2>3. QED
    BY <1>1, <2>2 DEF Outside
<1>9. QED
  BY <1>6, <1>7, <1>8 DEF EvidenceInv

\* A tool begins its search afresh, and only then: what it found counts from its call.
LEMMA ToolSound ==
  ASSUME EvidenceInv, QuotaInv, NEW q \in Requests, ToolStep(q)
  PROVE  EvidenceInv'
<1>1. /\ UNCHANGED <<world, entries, now, past, published, breaker, cache>>
      /\ \A r \in Requests : r # q => search'[r] = search[r] /\ calls'[r] = calls[r]
      /\ search'[q] = search[q] \/ search'[q] = [Idle EXCEPT !.phase = "lexical"]
      /\ \/ calls'[q].since = calls[q].since
         \/ search'[q] = search[q] /\ search[q].phase = "idle" /\ calls'[q].since = Len(past)
  <2>1. CASE Begin(q)
    BY <2>1 DEF Begin, Goes, QuotaInv, SearchesSound, ThreadsSound, NoCall
  <2>2. CASE Call(q)
    BY <2>2 DEF Call, vars, InThread, QuotaInv, ThreadsSound, NoCall
  <2>3. CASE ~Begin(q) /\ ~Call(q)
    <3>1. UNCHANGED vars
      BY <2>3, ToolMoves
    <3>2. /\ \A r \in Requests : r # q => calls'[r] = calls[r]
          /\ calls'[q].since = calls[q].since
      <4>1. DOMAIN calls = Requests /\ DOMAIN calls[q] = DOMAIN NoCall
        BY DEF QuotaInv, ThreadsSound
      <4>2. CASE Retrieved(q) \/ AuthorizeVersions(q) \/ CompareVersions(q)
        BY <4>1, <4>2 DEF Retrieved, AuthorizeVersions, CompareVersions, Ended, NoCall
      <4>3. CASE SearchIncidents(q) \/ AuthorizeIncidents(q) \/ OperationFails(q)
        BY <4>1, <4>3 DEF SearchIncidents, AuthorizeIncidents, OperationFails, Ended, NoCall
      <4>4. CASE Answer(q) \/ TimeOut(q)
        BY <4>1, <4>4 DEF Answer, TimeOut, NoCall
      <4>5. QED
        BY <2>3, <4>2, <4>3, <4>4 DEF ToolStep
    <3>3. QED
      BY <3>1, <3>2 DEF vars
  <2>4. QED
    BY <2>1, <2>2, <2>3
<1>2. WorldSound /\ Len(past) \in Nat \ {0}
  BY WorldFacts DEF EvidenceInv
<1>3. WorldSound'
  BY <1>1, <1>2 DEF WorldSound, Outside, PastSound, BreakersSound
<1>4. ASSUME NEW r \in Requests PROVE (calls[r].since \in 1..Len(past))' /\ Sound(r, search[r])'
  <2> DEFINE sound(s, called) ==
               RequestSound(s, Who(r), IsTool(r), called, Outside, entries, past)
  <2>1. calls[r].since \in 1..Len(past) /\ sound(search[r], calls[r].since)
    BY DEF EvidenceInv, Sound
  <2>2. calls'[r].since \in 1..Len(past)
    BY <1>1, <1>2, <2>1
  <2>3. sound(search'[r], calls'[r].since)
    <3>1. CASE search'[r] = search[r] /\ calls'[r].since = calls[r].since
      BY <2>1, <3>1
    <3>2. CASE search'[r] = search[r] /\ search[r].phase = "idle"
      <4> DEFINE s == search[r]
      <4>1. ProgressSound(s, IsTool(r), Outside)
        BY <2>1 DEF RequestSound
      <4>2. s.lexical.hits = <<>> /\ s.dense.hits = <<>> /\ s.result.evidence = <<>>
        BY <3>2, <4>1 DEF ProgressSound
      <4>3. \A hits \in {s.lexical.hits, s.dense.hits, s.result.evidence} :
              HitsSound(hits, Who(r), SinceOf(s, IsTool(r), calls'[r].since), Outside, entries, past)
        BY <1>2, <4>2, NoHitsSound
      <4>4. QED
        BY <2>1, <3>2, <4>3 DEF RequestSound
    <3>3. CASE search'[r] = [Idle EXCEPT !.phase = "lexical"] /\ calls'[r].since = calls[r].since
      <4> DEFINE t == [Idle EXCEPT !.phase = "lexical"]
      <4>1. /\ DOMAIN t = SearchFields /\ t.versions = 0 /\ t.hit = FALSE /\ t.lexical = NoLeg
            /\ t.dense = NoLeg /\ t.result = NoResult /\ t.attempt = 0 /\ t.status = "none"
            /\ t.phase = "lexical"
        BY DEF Idle, SearchFields
      <4> HIDE DEF t
      <4>2. Sound(r, t)
        BY <1>2, <4>1, BeginningSound
      <4>3. QED
        BY <3>3, <4>2 DEF Sound, t
    <3>4. QED
      BY <1>1, <3>1, <3>2, <3>3
  <2>4. Sound(r, search[r])' <=> sound(search'[r], calls'[r].since)
    <3>1. /\ Who(r)' = Who(r) /\ Outside' = Outside /\ entries' = entries /\ past' = past
          /\ (r \in DOMAIN Outside.tools)' = (r \in DOMAIN Outside.tools)
      BY <1>1 DEF Who, Outside
    <3>2. IsTool(r)' = IsTool(r)
      BY <3>1 DEF IsTool
    <3>3. QED
      BY <3>1, <3>2, Zenon DEF Sound
  <2>5. QED
    BY <1>1, <2>2, <2>3, <2>4
<1>5. ASSUME NEW c \in cache' PROVE RecordSound(c, Outside, entries, past)'
  BY <1>1, <1>5 DEF EvidenceInv, Outside
<1>6. QED
  BY <1>3, <1>4, <1>5 DEF EvidenceInv

\* At first nothing is found.
LEMMA EvidenceInit == ToolsInit => EvidenceInv
<1> SUFFICES ASSUME ToolsInit PROVE EvidenceInv
  OBVIOUS
<1>1. /\ world \in DOMAIN Worlds /\ entries \in Outside.corpora /\ now = 0
      /\ search = [r \in Requests |-> Idle] /\ cache = {}
      /\ breaker = [d \in {"embedding", "generation"} |-> Closed]
      /\ past = <<Worlds[world].policies>> /\ published = 1
      /\ calls = [r \in Requests |-> NoCall]
  BY DEF ToolsInit, Init, Outside
<1>2. PastSound /\ Len(past) = 1
  BY <1>1 DEF PastSound
<1>3. Outside.maxTime \in Nat
  <2>1. Outside \in ToSet(Worlds)
    BY <1>1 DEF Outside, ToSet
  <2>2. QED
    BY <2>1, SearchAssumption
<1>4. BreakersSound
  BY <1>1 DEF BreakersSound, Closed
<1>5. WorldSound
  BY <1>1, <1>2, <1>3, <1>4 DEF WorldSound
<1>6. /\ DOMAIN Idle = SearchFields /\ Idle.versions = 0 /\ Idle.hit = FALSE /\ Idle.lexical = NoLeg
      /\ Idle.dense = NoLeg /\ Idle.result = NoResult /\ Idle.attempt = 0 /\ Idle.status = "none"
      /\ Idle.phase = "idle"
  BY DEF Idle, SearchFields
<1>7. \A r \in Requests : Sound(r, Idle)
  BY <1>5, <1>6, BeginningSound
<1>8. NoCall.since = 1
  BY DEF NoCall
<1>9. QED
  BY <1>1, <1>2, <1>5, <1>7, <1>8 DEF EvidenceInv

\* Every step keeps the invariant of the evidence.
THEOREM EvidenceStep == EvidenceInv /\ QuotaInv /\ [ToolsNext]_toolVars => EvidenceInv'
<1> SUFFICES ASSUME EvidenceInv, QuotaInv, [ToolsNext]_toolVars PROVE EvidenceInv'
  OBVIOUS
<1>1. CASE Next /\ UNCHANGED calls
  <2>1. \/ \E r \in Requests : RequestStep(r)
        \/ Tick \/ PolicyChange \/ Publish \/ Expire
    BY <1>1, CacheSteps, LegSteps, ResultSteps DEF Next
  <2>2. QED
    BY <1>1, <2>1, RequestStepKeeps, EnvironmentSound
<1>2. CASE \E r \in Requests : ToolStep(r)
  BY <1>2, ToolSound
<1>3. CASE UNCHANGED toolVars
  BY <1>3, EnvironmentSound DEF toolVars
<1>4. QED
  BY <1>1, <1>2, <1>3 DEF ToolsNext

\* The evidence is sound in every state.
THEOREM EvidenceSafety == ToolsSpec => []EvidenceInv
<1>1. ToolsInit => EvidenceInv
  BY EvidenceInit
<1>2. EvidenceInv /\ QuotaInv /\ [ToolsNext]_toolVars => EvidenceInv'
  BY EvidenceStep
<1>3. QED
  BY <1>1, <1>2, QuotaSafety, PTL DEF ToolsSpec

-----------------------------------------------------------------------------
(* What follows from it.                                                   *)

\* A result from the cache holds for the versions its request goes by: every item of
\* it was readable to this principal since (the cache key names the published
\* versions, and what is kept was authorized after they were read).
THEOREM HitsFresh == ToolsSpec => []HitsAreFresh
<1>1. EvidenceInv => HitsAreFresh
  <2> SUFFICES ASSUME EvidenceInv,
                      NEW r \in Asking, search[r].hit, NEW h \in ToSet(search[r].result.evidence)
               PROVE  \E n \in search[r].versions..Len(past) :
                        RefOf(h) \in AuthorizeReads(Who(r), {RefOf(h)}, past[n])
    BY Zenon DEF HitsAreFresh
  <2>1. r \in Requests /\ Len(past) \in Nat
    <3>1. Outside \in ToSet(Worlds)
      BY DEF EvidenceInv, WorldSound, Outside, ToSet
    <3>2. QED
      BY <3>1, WorldFacts, SearchAssumption DEF EvidenceInv, Asking
  <2>2. Sound(r, search[r])
    BY <2>1 DEF EvidenceInv
  <2> DEFINE s == search[r]
             since == SinceOf(s, IsTool(r), calls[r].since)
  <2>3. /\ HitsSound(s.result.evidence, Who(r), since, Outside, entries, past)
        /\ ProgressSound(s, IsTool(r), Outside) /\ s.versions \in 0..Len(past)
    BY <2>2 DEF Sound, RequestSound
  <2>4. PICK m \in DOMAIN s.result.evidence : h = s.result.evidence[m]
    BY DEF ToSet
  <2>5. ReadSince(Who(r), RefOf(h), since, past)
    BY <2>3, <2>4 DEF HitsSound
  <2>6. PICK n \in 1..Len(past) : since <= n /\ RefOf(h) \in AuthorizeReads(Who(r), {RefOf(h)}, past[n])
    BY <2>5 DEF ReadSince
  <2>7. s.versions <= n
    <3>1. CASE IsTool(r)
      BY <3>1, <2>1, <2>3, <2>6 DEF ProgressSound
    <3>2. CASE ~IsTool(r)
      BY <3>2, <2>6 DEF SinceOf
    <3>3. QED
      BY <3>1, <3>2
  <2>8. n \in s.versions..Len(past)
    BY <2>1, <2>3, <2>6, <2>7
  <2>9. QED
    BY <2>6, <2>8
<1>2. QED
  BY <1>1, EvidenceSafety, PTL

\* The legs one after the other.
LEMMA TwoInARow ==
  ASSUME NEW a, NEW b
  PROVE  <<a>> \o <<b>> = <<a, b>>
<1> DEFINE S == {a, b}  x == <<a>>  y == <<b>>  z == <<a, b>>
<1>1. Len(x) = 1 /\ Len(y) = 1 /\ Len(z) = 2 /\ x[1] = a /\ y[1] = b /\ z[1] = a /\ z[2] = b
  OBVIOUS
<1>2. x \in Seq(S) /\ y \in Seq(S) /\ z \in Seq(S)
  OBVIOUS
<1> HIDE DEF S, x, y, z
<1>3. /\ x \o y \in Seq(S) /\ Len(x \o y) = Len(x) + Len(y)
      /\ \A i \in 1..Len(x) + Len(y) :
           (x \o y)[i] = IF i <= Len(x) THEN x[i] ELSE y[i - Len(x)]
  BY <1>2, ConcatProperties
<1> DEFINE w == x \o y
<1> HIDE DEF w
<1>4. w \in Seq(S) /\ Len(w) = 2
  BY <1>1, <1>3 DEF w
<1>5. w[1] = a /\ w[2] = b
  BY <1>1, <1>3 DEF w
<1>6. \A i \in 1..Len(w) : w[i] = z[i]
  BY <1>1, <1>4, <1>5
<1>7. w = z
  BY <1>1, <1>2, <1>4, <1>6, SeqEqual
<1>8. QED
  BY <1>7 DEF w, x, y, z

\* What is found is found by the lexical leg or, if there is one, by the dense one.
LEMMA OneLegOrTwo ==
  ASSUME NEW a, NEW b, NEW both,
         NEW h \in UNION {ToSet((<<a>> \o (IF both THEN <<b>> ELSE <<>>))[l]) :
                            l \in DOMAIN (<<a>> \o (IF both THEN <<b>> ELSE <<>>))}
  PROVE  h \in ToSet(a) \/ (both /\ h \in ToSet(b))
<1> DEFINE legs == <<a>> \o (IF both THEN <<b>> ELSE <<>>)
<1>1. PICK l \in DOMAIN legs : h \in ToSet(legs[l])
  OBVIOUS
<1>2. CASE both
  <2>3. legs = <<a, b>>
    BY <1>2, TwoInARow
  <2>4. QED
    BY <1>1, <1>2, <2>3
<1>3. CASE ~both
  <2>1. <<a>> \o <<>> = <<a>>
    OBVIOUS
  <2>2. legs = <<a>>
    BY <1>3, <2>1
  <2>3. QED
    BY <1>1, <2>2
<1>4. QED
  BY <1>2, <1>3

\* An outage ends with the request that met it: a result from the cache has whatever
\* either leg finds that was always readable, up to the limit, although a search
\* whose embedding failed has returned less (such a result is degraded and not kept).
THEOREM OutagesEnd == ToolsSpec => []OutagesAreNotKept
<1>1. EvidenceInv => OutagesAreNotKept
  <2> DEFINE lexical(r) == LexicalHits(entries, Who(r), Outside.context)
             dense(r) == DenseHits(entries, Who(r), Outside.context)
             legs(r) == <<lexical(r)>> \o (IF Outside.hybrid THEN <<dense(r)>> ELSE <<>>)
             evidence(r) == search[r].result.evidence
  <2> SUFFICES ASSUME EvidenceInv, NEW r \in Asking, search[r].hit, ~Outside.reranked,
                      Outside.down \cap {"lexical", "dense"} = {}, Outside.kind = "retrieval",
                      NEW h \in UNION {ToSet(legs(r)[l]) : l \in DOMAIN legs(r)}
               PROVE  \/ \E n \in DOMAIN past : RefOf(h) \notin AuthorizeReads(Who(r), {RefOf(h)}, past[n])
                      \/ ChunkVersion(h) \in {ChunkVersion(e) : e \in ToSet(evidence(r))}
                      \/ Len(evidence(r)) = Outside.context.limit
    BY Zenon DEF OutagesAreNotKept
  <2>1. r \in Requests
    <3>1. Outside \in ToSet(Worlds)
      BY DEF EvidenceInv, WorldSound, Outside, ToSet
    <3>2. QED
      BY <3>1, SearchAssumption DEF Asking
  <2>2. OnlyEmbeddingsFail(Outside)
    BY DEF OnlyEmbeddingsFail
  <2>3. Whole(evidence(r), Who(r), Outside, entries, past)
    BY <2>1, <2>2 DEF EvidenceInv, Sound, RequestSound, LegsWhole
  <2> DEFINE p == Who(r)
             a == lexical(r)
             b == dense(r)
             e == evidence(r)
  <2>4. h \in ToSet(a) \/ (Outside.hybrid /\ h \in ToSet(b))
    BY OneLegOrTwo
  <2>5. \/ Len(e) = Outside.context.limit
        \/ \E hits \in {a, b} : h \in ToSet(hits) /\ Covers(e, hits, p, past)
    BY <2>3, <2>4 DEF Whole
  <2>6. CASE \E hits \in {a, b} : h \in ToSet(hits) /\ Covers(e, hits, p, past)
    <3> HIDE DEF a, b, e, p
    <3>1. PICK hits \in {a, b} : h \in ToSet(hits) /\ Covers(e, hits, p, past)
      BY <2>6
    <3>2. PICK m \in DOMAIN hits : h = hits[m]
      BY <3>1 DEF ToSet
    <3>3. \/ \E n \in DOMAIN past : RefOf(h) \notin AuthorizeReads(p, {RefOf(h)}, past[n])
          \/ \E k \in DOMAIN e : ChunkVersion(e[k]) = ChunkVersion(h)
      BY <3>1, <3>2 DEF Covers
    <3>4. \/ \E n \in DOMAIN past : RefOf(h) \notin AuthorizeReads(p, {RefOf(h)}, past[n])
          \/ ChunkVersion(h) \in {ChunkVersion(x) : x \in ToSet(e)}
      BY <3>3, Zenon DEF ToSet
    <3>5. QED
      BY <3>4 DEF p, e
  <2>7. QED
    BY <2>5, <2>6 DEF e
<1>2. QED
  BY <1>1, EvidenceSafety, PTL

\* The state is what it is declared to be: buckets within their limits, attempts
\* and evidence within theirs, one of the answers of the route, one of the states
\* of a breaker, a published version that is in force.
THEOREM SearchTypes == ToolsSpec => []TypeOK
<1>1. EvidenceInv /\ QuotaInv => TypeOK
  <2> SUFFICES ASSUME EvidenceInv, QuotaInv PROVE TypeOK
    OBVIOUS
  <2>1. /\ world \in DOMAIN Worlds /\ now \in 0..Outside.maxTime
        /\ published \in 1..Len(past)
        /\ \A d \in DOMAIN breaker : breaker[d].state \in {"closed", "open", "half_open"}
    BY DEF EvidenceInv, WorldSound, BreakersSound
  <2>2. ASSUME NEW s \in DOMAIN buckets, NEW b \in {buckets[s], twin[s]}
        PROVE  /\ b.started \in {NoWindow} \cup Nat
               /\ b.requests \in 0..MaxRequests /\ b.active \in 0..MaxConcurrent
    <3>1. b \in BucketType
      BY <2>2 DEF QuotaInv, BucketsSound
    <3>2. QED
      BY <3>1, BucketFields
  <2>3. ASSUME NEW r \in Requests
        PROVE  /\ search[r].attempt \in 0..MaxAttempts
               /\ Len(search[r].result.evidence) <= Outside.context.limit
               /\ search[r].status \in {"none", "200", "429", "500", "503"}
    BY <2>3 DEF EvidenceInv, Sound, RequestSound, ProgressSound, HitsSound
  <2>4. QED
    BY <2>1, <2>2, <2>3, Zenon DEF TypeOK
<1>2. QED
  BY <1>1, EvidenceSafety, QuotaSafety, PTL

-----------------------------------------------------------------------------
(* The fusion.                                                             *)

\* An item before which another is in every leg that has it scores less.
LEMMA DominatedScores ==
  ASSUME NEW index, NEW a, LegSound(index, a), NEW b, LegSound(index, b), NEW limit,
         ScoresSound(limit), Len(a) <= limit, Len(b) <= limit,
         NEW i, NEW k, Dominates(Legs(a, b), i, k)
  PROVE  LegScore(a, i) + LegScore(b, i) > LegScore(a, k) + LegScore(b, k)
<1> DEFINE has(leg) == \E n \in DOMAIN leg : ChunkVersion(leg[n]) = k
<1>1. /\ has(a) \/ has(b)
      /\ has(a) => Precedes(a, i, k)
      /\ has(b) => Precedes(b, i, k)
  <2>1. DOMAIN Legs(a, b) = {1, 2} /\ Legs(a, b)[1] = a /\ Legs(a, b)[2] = b
    BY DEF Legs
  <2> DEFINE legs == Legs(a, b)
  <2> HIDE DEF legs
  <2>2. /\ \E l \in {1, 2} : \E n \in DOMAIN legs[l] : ChunkVersion(legs[l][n]) = k
        /\ \A l \in {1, 2} : \A n \in DOMAIN legs[l] :
             (ChunkVersion(legs[l][n]) = k) => Precedes(legs[l], i, k)
    BY <2>1, Zenon DEF Dominates, legs
  <2>3. legs[1] = a /\ legs[2] = b
    BY <2>1 DEF legs
  <2>4. has(a) \/ has(b)
    BY <2>2, <2>3
  <2>5. (has(a) => Precedes(a, i, k)) /\ (has(b) => Precedes(b, i, k))
    BY <2>2, <2>3
  <2>6. QED
    BY <2>4, <2>5
<1> HIDE DEF has
<1>2. ASSUME NEW leg, LegSound(index, leg), Len(leg) <= limit, has(leg) => Precedes(leg, i, k)
      PROVE  /\ LegScore(leg, i) \in Nat /\ LegScore(leg, k) \in Nat
             /\ LegScore(leg, i) >= LegScore(leg, k)
             /\ has(leg) => LegScore(leg, i) > LegScore(leg, k)
  <2>1. LegScore(leg, i) \in Nat /\ LegScore(leg, k) \in Nat
    BY <1>2, LegScoreFacts
  <2>2. CASE has(leg)
    <3>1. PICK m, n \in DOMAIN leg :
            m < n /\ ChunkVersion(leg[m]) = i /\ ChunkVersion(leg[n]) = k
      BY <1>2, <2>2 DEF Precedes
    <3>2. LegScore(leg, i) > LegScore(leg, k)
      BY <1>2, <3>1, BetterRank
    <3>3. QED
      BY <2>1, <3>2
  <2>3. CASE ~has(leg)
    <3>1. LegScore(leg, k) = 0
      BY <1>2, <2>3, LegScoreFacts DEF has
    <3>2. QED
      BY <2>1, <2>3, <3>1
  <2>4. QED
    BY <2>2, <2>3
<1>3. QED
  BY <1>1, <1>2

\* What FusionIsSound says of one fusion.
FusedInOrder(a, b, p, rows, limit) ==
  LET legs == Legs(a, b)
      evidence == Fused(legs, p, rows, limit)
      returned == {ChunkVersion(h) : h \in ToSet(evidence)}
      readable == {ChunkVersion(h) : h \in {f \in Findings(a, b) : Readable(p, rows, f)}}
  IN /\ returned \subseteq readable
     /\ \A i, k \in readable :
          (Dominates(legs, i, k) /\ k \in returned) => Precedes(evidence, i, k)
     /\ (returned # readable) => Len(evidence) = limit

\* It holds of any two legs, policies and limit.
LEMMA FusionOrdered ==
  ASSUME NEW index, IndexSound(index), NEW a, LegSound(index, a), NEW b, LegSound(index, b),
         NEW limit, ScoresSound(limit), Len(a) <= limit, Len(b) <= limit, NEW p, NEW rows
  PROVE  FusedInOrder(a, b, p, rows, limit)
<1> DEFINE legs == Legs(a, b)
           evidence == Fused(legs, p, rows, limit)
           allowed == {h \in Findings(a, b) : Readable(p, rows, h)}
           returned == {ChunkVersion(h) : h \in ToSet(evidence)}
           readable == {ChunkVersion(h) : h \in allowed}
<1>1. limit \in Nat
  BY DEF ScoresSound
<1>2. /\ \A n \in DOMAIN evidence : \E h \in allowed : evidence[n] = Scored(a, b, h)
      /\ \A h \in allowed :
           Len(evidence) = limit \/ \E n \in DOMAIN evidence : evidence[n] = Scored(a, b, h)
      /\ \A h \in allowed, n \in DOMAIN evidence :
           Before(Scored(a, b, h), evidence[n]) =>
             \E m \in DOMAIN evidence : m < n /\ evidence[m] = Scored(a, b, h)
  BY <1>1, FusedFacts
<1>3. \A h \in allowed : /\ ChunkVersion(Scored(a, b, h)) = ChunkVersion(h)
                         /\ Scored(a, b, h).score = LegScore(a, ChunkVersion(h)) + LegScore(b, ChunkVersion(h))
  BY ScoredFacts
<1> HIDE DEF evidence, allowed, legs
<1>4. returned \subseteq readable
  BY <1>2, <1>3 DEF ToSet
<1>5. ASSUME NEW i \in readable, NEW k \in readable, Dominates(legs, i, k), k \in returned
      PROVE  Precedes(evidence, i, k)
  <2>1. PICK h \in allowed : ChunkVersion(h) = i
    OBVIOUS
  <2>2. PICK n \in DOMAIN evidence : ChunkVersion(evidence[n]) = k
    BY <1>5 DEF ToSet
  <2>3. PICK g \in allowed : evidence[n] = Scored(a, b, g)
    BY <1>2
  <2>4. ChunkVersion(g) = k
    BY <1>3, <2>2, <2>3
  <2>5. Scored(a, b, h).score > evidence[n].score
    <3>1. LegScore(a, i) + LegScore(b, i) > LegScore(a, k) + LegScore(b, k)
      BY <1>5, DominatedScores DEF legs
    <3>2. QED
      BY <1>3, <2>1, <2>3, <2>4, <3>1
  <2>6. PICK m \in DOMAIN evidence : m < n /\ evidence[m] = Scored(a, b, h)
    BY <1>2, <2>5 DEF Before
  <2>7. ChunkVersion(evidence[m]) = i
    BY <1>3, <2>1, <2>6
  <2>8. QED
    BY <2>2, <2>6, <2>7 DEF Precedes
<1>6. ASSUME Len(evidence) # limit PROVE readable \subseteq returned
  BY <1>2, <1>3, <1>6 DEF ToSet
<1>7. QED
  BY <1>4, <1>5, <1>6 DEF evidence, allowed, legs, FusedInOrder

\* A request goes on from another phase than the fusion.
Elsewhere(r) == search[r].phase # "fuse" /\ \E t : Goes(r, t)

\* Only Fuse takes a request from the fusion to its result.
LEMMA OnlyFusion ==
  ASSUME QuotaInv, [ToolsNext]_toolVars, NEW r \in Requests, search[r].phase = "fuse",
         search'[r].phase \in {"keep", "rerank", "answer"}
  PROVE  Fuse(r)
<1>1. DOMAIN search = Requests /\ DOMAIN search[r] = SearchFields
  BY DEF QuotaInv, SearchesSound
<1>2. ~UNCHANGED search
  OBVIOUS
<1>3. ASSUME NEW q, NEW t, Goes(q, t) PROVE q = r /\ t.phase \in {"keep", "rerank", "answer"}
  <2>1. q # r => search'[r] = search[r]
    BY <1>1, <1>3 DEF Goes
  <2>2. q = r
    BY <2>1
  <2>3. search'[r] = t
    BY <1>1, <1>3, <2>2 DEF Goes
  <2>4. QED
    BY <2>2, <2>3
<1>4. \A q : ~Elsewhere(q)
  BY <1>3 DEF Elsewhere
<1>5. \A q : ~FuseFails(q)
  <2> SUFFICES ASSUME NEW q, FuseFails(q) PROVE FALSE
    OBVIOUS
  <2>1. Goes(q, Errs(search[q], "503"))
    BY Zenon DEF FuseFails
  <2>2. q = r /\ Errs(search[r], "503").phase \in {"keep", "rerank", "answer"}
    BY <1>3, <2>1
  <2>3. Errs(search[r], "503").phase = "release"
    BY <1>1 DEF Errs, SearchFields
  <2>4. QED
    BY <2>2, <2>3
<1>6. ASSUME NEW q \in Requests, ToolStep(q) PROVE FALSE
  <2>1. CASE Begin(q)
    <3>1. Goes(q, [Idle EXCEPT !.phase = "lexical"])
      BY <1>2, <2>1, Zenon DEF Begin
    <3>2. [Idle EXCEPT !.phase = "lexical"].phase = "lexical"
      BY DEF Idle
    <3>3. QED
      BY <1>3, <3>1, <3>2
  <2>2. CASE ~Begin(q)
    BY <1>2, <1>6, <2>2, ToolMoves DEF vars
  <2>3. QED
    BY <2>1, <2>2
<1>7. ASSUME NEW q \in Requests,
             \/ Stamp(q) \/ Reserve(q) \/ ReserveFails(q) \/ Release(q) \/ ReleaseFails(q)
             \/ Admit(q) \/ LookUp(q) \/ Keep(q) \/ KeepFails(q)
      PROVE  FALSE
  <2>1. search[q].phase # "fuse"
    BY <1>7 DEF At, Stamp, Reserve, ReserveFails, Release, ReleaseFails, Admit, LookUp, Keep, KeepFails
  <2>2. \E t : Goes(q, t)
    BY <1>7, Zenon DEF Stamp, Reserve, ReserveFails, Release, ReleaseFails, Admit, LookUp, Keep, KeepFails
  <2>3. QED
    BY <1>4, <2>1, <2>2 DEF Elsewhere
<1>8. ASSUME NEW q \in Requests,
             \/ Lexical(q) \/ LexicalFails(q) \/ Embed(q)
             \/ \E outcome \in Outside.embeds : Embedded(q, outcome)
             \/ Dense(q) \/ DenseFails(q)
      PROVE  FALSE
  <2>1. search[q].phase # "fuse"
    BY <1>8 DEF At, Lexical, LexicalFails, Embed, Embedded, Dense, DenseFails
  <2>2. \E t : Goes(q, t)
    BY <1>8, Zenon DEF Lexical, LexicalFails, Embed, Attempt, Embedded, Dense, DenseFails
  <2>3. QED
    BY <1>4, <2>1, <2>2 DEF Elsewhere
<1>9. ASSUME NEW q \in Requests,
             \/ RerankFails(q) \/ \E scores \in Outside.scores : Rerank(q, scores)
             \/ Generate(q) \/ \E outcome \in Outside.replies : Generated(q, outcome)
      PROVE  FALSE
  <2>1. search[q].phase # "fuse"
    BY <1>9 DEF At, RerankFails, Rerank, Generate, Generated
  <2>2. \E t : Goes(q, t)
    BY <1>9, Zenon DEF RerankFails, Rerank, Generate, Attempt, Generated
  <2>3. QED
    BY <1>4, <2>1, <2>2 DEF Elsewhere
<1>10. ~(Tick \/ PolicyChange \/ Publish \/ Expire)
  BY <1>2 DEF Tick, PolicyChange, Publish, Expire
<1>11. ~UNCHANGED toolVars
  BY <1>2 DEF toolVars, vars
<1>12. \E q \in Requests : Fuse(q)
  BY <1>5, <1>6, <1>7, <1>8, <1>9, <1>10, <1>11, Zenon DEF ToolsNext, Next
<1>13. QED
  <2>1. PICK q \in Requests : Fuse(q)
    BY <1>12
  <2>2. \E t : Goes(q, t)
    BY <2>1, Zenon DEF Fuse
  <2>3. QED
    BY <1>3, <2>1, <2>2

\* What a fusion returns may be read at that moment, although each leg was authorized
\* earlier; what every leg puts before another item comes before it (the sum of
\* reciprocal ranks, whatever the weights); nothing readable is left out but for
\* want of space.
THEOREM FusionSoundness == ToolsSpec => FusionIsSound
<1> DEFINE sound(r) ==
             LET legs == LegHits(search[r])
                 evidence == search'[r].result.evidence
                 found == UNION {ToSet(legs[l]) : l \in DOMAIN legs}
                 returned == {ChunkVersion(h) : h \in ToSet(evidence)}
                 readable == {ChunkVersion(h) : h \in {f \in found :
                                RefOf(f) \in AuthorizeReads(Who(r), {RefOf(f)}, Policies)}}
             IN /\ returned \subseteq readable
                /\ \A i, k \in readable :
                     (Dominates(legs, i, k) /\ k \in returned) => Precedes(evidence, i, k)
                /\ (returned # readable) => Len(evidence) = Outside.context.limit
           fuses(r) == search[r].phase = "fuse" /\ search'[r].phase \in {"keep", "rerank", "answer"}
<1>1. EvidenceInv /\ QuotaInv /\ [ToolsNext]_toolVars => \A r \in Requests : fuses(r) => sound(r)
  <2> SUFFICES ASSUME EvidenceInv, QuotaInv, [ToolsNext]_toolVars, NEW r \in Requests, fuses(r)
               PROVE  sound(r)
    BY Zenon
  <2> DEFINE s == search[r]
             a == s.lexical.hits
             b == s.dense.hits
             p == Who(r)
             limit == Outside.context.limit
             fused == Fused(Legs(a, b), p, Policies, limit)
  <2>1. Fuse(r)
    BY OnlyFusion
  <2>2. DOMAIN search = Requests /\ DOMAIN s = SearchFields /\ DOMAIN s.result = ResultFields
    BY DEF QuotaInv, SearchesSound, EvidenceInv, Sound, RequestSound
  <2>3. LegHits(s) = Legs(a, b)
    BY DEF LegHits, Legs
  <2>4. search'[r].result.evidence = fused
    <3> DEFINE t == [s EXCEPT !.phase = IF Outside.reranked THEN "rerank" ELSE Retrieval,
                       !.result.degraded = s.dense = NoEmbedding, !.result.evidence = fused]
    <3>1. Goes(r, Errs(s, "503")) \/ Goes(r, t)
      BY <2>1, <2>3, Zenon DEF Fuse
    <3>2. Errs(s, "503").phase = "release"
      BY <2>2 DEF Errs, SearchFields
    <3>3. t.result.evidence = fused
      BY <2>2 DEF SearchFields, ResultFields
    <3> HIDE DEF t, fused
    <3>4. search'[r] = t
      BY <2>2, <3>1, <3>2 DEF Goes
    <3>5. QED
      BY <3>3, <3>4
  <2>5. /\ IndexSound(entries) /\ LegSound(entries, a) /\ LegSound(entries, b)
        /\ ScoresSound(limit) /\ Len(a) <= limit /\ Len(b) <= limit
    BY WorldFacts DEF EvidenceInv, Sound, RequestSound, HitsSound
  <2>6. UNION {ToSet(Legs(a, b)[l]) : l \in DOMAIN Legs(a, b)} = Findings(a, b)
    <3>1. DOMAIN Legs(a, b) = {1, 2} /\ Legs(a, b)[1] = a /\ Legs(a, b)[2] = b
      BY DEF Legs
    <3>2. QED
      BY <3>1 DEF Findings
  <2> DEFINE found == UNION {ToSet(Legs(a, b)[l]) : l \in DOMAIN Legs(a, b)}
             returned == {ChunkVersion(h) : h \in ToSet(fused)}
             readable == {ChunkVersion(h) : h \in {f \in found :
                            RefOf(f) \in AuthorizeReads(p, {RefOf(f)}, Policies)}}
  <2>7. /\ returned \subseteq readable
        /\ \A i, k \in readable :
             (Dominates(Legs(a, b), i, k) /\ k \in returned) => Precedes(fused, i, k)
        /\ (returned # readable) => Len(fused) = limit
    <3>1. readable = {ChunkVersion(h) : h \in {f \in Findings(a, b) : Readable(p, Policies, f)}}
      BY <2>6, Zenon DEF Readable
    <3> DEFINE rows == Policies
    <3> HIDE DEF readable, a, b, limit, p, rows
    <3>2. FusedInOrder(a, b, p, rows, limit)
      BY <2>5, FusionOrdered
    <3>3. QED
      BY <3>1, <3>2 DEF rows, FusedInOrder
  <2> HIDE DEF fused
  <2>8. QED
    BY <2>3, <2>4, <2>7
<1> HIDE DEF sound
<1>2. EvidenceInv /\ QuotaInv /\ [ToolsNext]_toolVars =>
        [\A r \in Requests : fuses(r) => sound(r)]_vars
  BY <1>1
<1>3. FusionIsSound <=> [][\A r \in Requests : fuses(r) => sound(r)]_vars
  BY DEF FusionIsSound, sound
<1>4. QED
  BY <1>2, <1>3, EvidenceSafety, QuotaSafety, PTL DEF ToolsSpec

-----------------------------------------------------------------------------
(* What the tools return.                                                  *)

\* The document could be read at a moment since the call began.
ReadInTime(r, d) ==
  \E n \in calls[r].since..Len(past) : d \in AuthorizeReads(Who(r), {d}, past[n])

\* What a call has been granted or has answered could be read in time.
CallSound(r) ==
  LET c == calls[r]
  IN /\ c.since \in 1..Len(past)
     /\ c.thread \in {"none", "submitted", "retrieve", "compare", "versions", "incidents",
                        "authorize", "ended"}
     /\ (c.thread = "none") => c.outcome = None
     /\ (c.thread = "versions") => \A d \in ToSet(c.found) : ReadInTime(r, d)
     /\ (c.outcome # None) => \A d \in c.outcome.documents : ReadInTime(r, d)
     /\ (c.answer # None) => \A d \in c.answer.documents : ReadInTime(r, d)

ReadsInv ==
  /\ world \in DOMAIN Worlds /\ PastSound
  /\ DOMAIN calls = Requests
  /\ \A r \in Requests : DOMAIN calls[r] = DOMAIN NoCall /\ (IsTool(r) => CallSound(r))

\* What is granted together is granted alone, and could be read just now.
LEMMA GrantedNow ==
  ASSUME ReadsInv, NEW r \in Requests, CallSound(r), NEW R,
         NEW d \in AuthorizeReads(Who(r), R, Policies)
  PROVE  ReadInTime(r, d)
<1>1. d \in AuthorizeReads(Who(r), {d}, Policies)
  BY DEF AuthorizeReads
<1>2. Len(past) \in calls[r].since..Len(past) /\ Policies = past[Len(past)]
  BY PoliciesAreLast DEF ReadsInv, CallSound
<1>3. QED
  BY <1>1, <1>2 DEF ReadInTime

\* A call keeps what it was granted as long as it is the same call.
LEMMA SameCallReads ==
  ASSUME UNCHANGED <<world, past>>, NEW r, calls'[r].since = calls[r].since
  PROVE  \A d : ReadInTime(r, d)' <=> ReadInTime(r, d)
BY DEF ReadInTime, Who, Outside

\* A thread ends with what could be read in time.
LEMMA EndedSound ==
  ASSUME ReadsInv, NEW r \in Requests, CallSound(r), UNCHANGED <<world, past>>, NEW outcome,
         Ended(r, outcome), \A d \in outcome.documents : ReadInTime(r, d)
  PROVE  CallSound(r)'
<1>1. /\ calls'[r].thread = "ended" /\ calls'[r].outcome = outcome
      /\ calls'[r].since = calls[r].since /\ calls'[r].answer = calls[r].answer
  BY DEF Ended, ReadsInv, NoCall
<1>2. QED
  BY <1>1, SameCallReads DEF CallSound

\* Every step of a tool keeps this: what a search found was readable since it began.
LEMMA ToolReadsSound ==
  ASSUME ReadsInv, QuotaInv, EvidenceInv, NEW r \in Requests, IsTool(r), ToolStep(r)
  PROVE  CallSound(r)'
<1>1. /\ CallSound(r) /\ DOMAIN calls = Requests
      /\ DOMAIN calls[r] = {"thread", "since", "found", "outcome", "answer"}
  BY DEF ReadsInv, NoCall
<1>2. UNCHANGED <<world, past>>
  <2>1. CASE Begin(r)
    BY <2>1 DEF Begin
  <2>2. CASE ~Begin(r)
    BY <2>2, ToolMoves DEF vars
  <2>3. QED
    BY <2>1, <2>2
<1>3. ASSUME NEW code PROVE Told(code).documents = {}
  BY DEF Told
<1>4. CASE Call(r)
  <2>1. /\ calls[r].answer = None /\ calls[r].outcome = None
        /\ calls'[r].since = Len(past) /\ calls'[r].outcome = None
        /\ calls'[r].thread \in {"none", "submitted"}
        /\ calls'[r].answer = None \/ calls'[r].answer = Told(Refusal(r))
    BY <1>1, <1>4 DEF Call, InThread, CallSound
  <2>2. Len(past) \in Nat \ {0}
    BY PoliciesAreLast DEF ReadsInv
  <2>3. \A d \in Told(Refusal(r)).documents : FALSE
    BY <1>3
  <2>4. QED
    BY <1>2, <2>1, <2>2, <2>3 DEF CallSound
<1>5. CASE Begin(r)
  <2>1. /\ calls'[r].thread = Asked(r).tool /\ calls'[r].since = calls[r].since
        /\ calls'[r].outcome = calls[r].outcome /\ calls'[r].answer = calls[r].answer
    BY <1>1, <1>5 DEF Begin
  <2>2. Asked(r).tool \in {"retrieve", "compare", "incidents"}
    BY ToolNames
  <2>3. QED
    BY <1>1, <1>2, <2>1, <2>2, SameCallReads DEF CallSound
<1>6. CASE AuthorizeVersions(r)
  <2>1. CASE Granted(Who(r), ToSet(Compared(r)), Policies)
    <3>1. /\ calls'[r].thread = "versions" /\ calls'[r].since = calls[r].since
          /\ calls'[r].found = Compared(r)
          /\ calls'[r].outcome = calls[r].outcome /\ calls'[r].answer = calls[r].answer
      BY <1>1, <1>6, <2>1 DEF AuthorizeVersions
    <3>2. \A d \in ToSet(Compared(r)) : ReadInTime(r, d)
      BY <1>1, <2>1, GrantedNow DEF Granted
    <3>3. QED
      BY <1>1, <1>2, <3>1, <3>2, SameCallReads DEF CallSound
  <2>2. CASE ~Granted(Who(r), ToSet(Compared(r)), Policies)
    <3>1. Ended(r, Told("policy_denied"))
      BY <1>6, <2>2 DEF AuthorizeVersions
    <3>2. QED
      BY <1>1, <1>2, <1>3, <3>1, EndedSound
  <2>3. QED
    BY <2>1, <2>2
<1>7. CASE CompareVersions(r)
  <2>1. \/ Ended(r, Told("backend_unavailable"))
        \/ \E changes : Ended(r, Found(ToSet(calls[r].found), changes))
    BY <1>7 DEF CompareVersions
  <2>2. \A changes : Found(ToSet(calls[r].found), changes).documents = ToSet(calls[r].found)
    BY DEF Found
  <2>3. \A d \in ToSet(calls[r].found) : ReadInTime(r, d)
    BY <1>1, <1>7 DEF CallSound, CompareVersions, InThread
  <2>4. CASE Ended(r, Told("backend_unavailable"))
    BY <1>1, <1>2, <1>3, <2>4, EndedSound
  <2>5. ASSUME NEW changes, Ended(r, Found(ToSet(calls[r].found), changes)) PROVE CallSound(r)'
    <3> DEFINE outcome == Found(ToSet(calls[r].found), changes)
    <3>1. \A d \in outcome.documents : ReadInTime(r, d)
      BY <2>2, <2>3
    <3>2. Ended(r, outcome)
      BY <2>5
    <3> HIDE DEF outcome
    <3>3. QED
      BY <1>1, <1>2, <3>1, <3>2, EndedSound
  <2>6. QED
    BY <2>1, <2>4, <2>5
<1>8. CASE SearchIncidents(r)
  <2> DEFINE all == Outside.incidents
             mine == Selected(all, {n \in DOMAIN all : all[n][1] = Who(r).tenant})
             some == Bounded(mine, Outside.context.limit)
  <2>1. calls' = [calls EXCEPT ![r].thread = "authorize", ![r].found = some]
    BY <1>8, Zenon DEF SearchIncidents
  <2> HIDE DEF mine, some
  <2>2. /\ calls'[r].thread = "authorize" /\ calls'[r].since = calls[r].since
        /\ calls'[r].outcome = calls[r].outcome /\ calls'[r].answer = calls[r].answer
    BY <1>1, <2>1
  <2>3. QED
    BY <1>1, <1>2, <2>2, SameCallReads DEF CallSound
<1>9. CASE AuthorizeIncidents(r)
  <2> DEFINE readable == AuthorizeReads(Who(r), ToSet(calls[r].found), Policies)
             outcome == Found(readable, {})
  <2>1. Ended(r, outcome) /\ outcome.documents = readable
    BY <1>9 DEF AuthorizeIncidents, Found
  <2>2. \A d \in readable : ReadInTime(r, d)
    BY <1>1, GrantedNow
  <2> HIDE DEF outcome, readable
  <2>3. QED
    BY <1>1, <1>2, <2>1, <2>2, EndedSound
<1>10. CASE OperationFails(r)
  BY <1>1, <1>2, <1>3, <1>10, EndedSound DEF OperationFails
<1>11. CASE Answer(r)
  <2>1. /\ calls'[r].thread = calls[r].thread /\ calls'[r].since = calls[r].since
        /\ calls'[r].found = calls[r].found
        /\ calls'[r].outcome = calls[r].outcome /\ calls'[r].answer = calls[r].outcome
    BY <1>1, <1>11 DEF Answer
  <2>2. QED
    BY <1>1, <1>2, <2>1, SameCallReads DEF CallSound
<1>12. CASE TimeOut(r)
  <2>1. /\ calls'[r].thread \in {calls[r].thread, "ended"} /\ calls'[r].since = calls[r].since
        /\ calls'[r].found = calls[r].found
        /\ calls'[r].outcome = calls[r].outcome /\ calls'[r].answer = Told("timeout")
    BY <1>1, <1>12 DEF TimeOut
  <2>2. Told("timeout").documents = {}
    BY <1>3
  <2>3. QED
    BY <1>1, <1>2, <2>1, <2>2, SameCallReads DEF CallSound
<1>13. CASE Retrieved(r)
  <2> DEFINE limit == Outside.context.limit
             evidence == Bounded(search[r].result.evidence, limit)
             outcome == Found({RefOf(e) : e \in ToSet(evidence)}, {})
  <2>1. Ended(r, outcome) \/ Ended(r, Told("backend_unavailable"))
    BY <1>13, Zenon DEF Retrieved
  <2>2. \A d \in outcome.documents : ReadInTime(r, d)
    <3>1. HitsSound(search[r].result.evidence, Who(r), calls[r].since, Outside, entries, past)
      BY DEF EvidenceInv, Sound, RequestSound, SinceOf
    <3>2. limit \in Nat /\ Len(past) \in Nat /\ calls[r].since \in Nat
      BY <1>1, WorldFacts DEF EvidenceInv, CallSound
    <3>3. \A n \in DOMAIN evidence : /\ n \in DOMAIN search[r].result.evidence
                                     /\ evidence[n] = search[r].result.evidence[n]
      BY <3>1, <3>2, FirstFacts DEF HitsSound, Bounded
    <3> HIDE DEF evidence
    <3>4. ASSUME NEW n \in DOMAIN evidence PROVE ReadInTime(r, RefOf(evidence[n]))
      <4>1. ReadSince(Who(r), RefOf(evidence[n]), calls[r].since, past)
        BY <3>1, <3>3 DEF HitsSound
      <4>2. QED
        BY <3>2, <4>1 DEF ReadSince, ReadInTime
    <3>5. outcome.documents = {RefOf(e) : e \in ToSet(evidence)}
      BY DEF Found
    <3>6. QED
      BY <3>4, <3>5 DEF ToSet
  <2> HIDE DEF outcome
  <2>3. QED
    BY <1>1, <1>2, <1>3, <2>1, <2>2, EndedSound
<1>14. QED
  BY <1>4, <1>5, <1>6, <1>7, <1>8, <1>9, <1>10, <1>11, <1>12, <1>13 DEF ToolStep

\* A call that rests stays sound while the policies only grow.
LEMMA RestingCallSound ==
  ASSUME ReadsInv, NEW r \in Requests, IsTool(r), UNCHANGED world, calls'[r] = calls[r],
         past' = past \/ \E p : past' = Append(past, p)
  PROVE  CallSound(r)'
<1>1. /\ Len(past') \in Nat /\ Len(past) \in Nat /\ Len(past) <= Len(past')
      /\ \A n \in 1..Len(past) : past'[n] = past[n]
  BY PastGrows, PoliciesAreLast DEF ReadsInv
<1>2. calls[r].since \in 1..Len(past) /\ CallSound(r)
  BY DEF ReadsInv, CallSound
<1>3. \A d : ReadInTime(r, d) => ReadInTime(r, d)'
  BY <1>1, <1>2 DEF ReadInTime, Who, Outside
<1>4. QED
  BY <1>1, <1>2, <1>3 DEF CallSound

\* Every step keeps what is granted and answered readable in time.
LEMMA ReadsStep ==
  ASSUME ReadsInv, QuotaInv, EvidenceInv, [ToolsNext]_toolVars
  PROVE  ReadsInv'
<1>1. ASSUME UNCHANGED <<world, calls>>, past' = past \/ \E p : past' = Append(past, p)
      PROVE  ReadsInv'
  <2>1. PastSound'
    BY <1>1, PastGrows DEF ReadsInv, PastSound
  <2>2. ASSUME NEW r \in Requests, IsTool(r)' PROVE CallSound(r)'
    BY <1>1, <2>2, RestingCallSound DEF IsTool, Asked, Outside
  <2>3. QED
    BY <1>1, <2>1, <2>2 DEF ReadsInv
<1>2. CASE Next /\ UNCHANGED calls
  <2>1. ASSUME NEW r \in Requests, Stamp(r) \/ Reserve(r) \/ ReserveFails(r) \/ Release(r)
                \/ ReleaseFails(r) \/ Admit(r) \/ LookUp(r) \/ Keep(r) \/ KeepFails(r)
        PROVE  UNCHANGED <<world, past>>
    BY <2>1 DEF Stamp, Reserve, ReserveFails, Release, ReleaseFails, Admit, LookUp, Keep, KeepFails
  <2>2. ASSUME NEW r \in Requests,
               \/ Lexical(r) \/ LexicalFails(r) \/ Embed(r)
               \/ \E outcome \in Outside.embeds : Embedded(r, outcome)
               \/ Dense(r) \/ DenseFails(r) \/ Fuse(r) \/ FuseFails(r)
        PROVE  UNCHANGED <<world, past>>
    BY <2>2 DEF Lexical, LexicalFails, Embed, Embedded, Dense, DenseFails, Fuse, FuseFails
  <2>3. ASSUME NEW r \in Requests,
               \/ RerankFails(r) \/ \E scores \in Outside.scores : Rerank(r, scores)
               \/ Generate(r) \/ \E outcome \in Outside.replies : Generated(r, outcome)
        PROVE  UNCHANGED <<world, past>>
    BY <2>3 DEF RerankFails, Rerank, Generate, Generated
  <2>4. ASSUME Tick \/ Publish \/ Expire PROVE UNCHANGED <<world, past>>
    BY <2>4 DEF Tick, Publish, Expire
  <2>5. ASSUME PolicyChange PROVE UNCHANGED world /\ \E p : past' = Append(past, p)
    BY <2>5 DEF PolicyChange
  <2>6. UNCHANGED world /\ (past' = past \/ \E p : past' = Append(past, p))
    BY <1>2, <2>1, <2>2, <2>3, <2>4, <2>5 DEF Next
  <2>7. QED
    BY <1>1, <1>2, <2>6
<1>3. ASSUME NEW q \in Requests, ToolStep(q) PROVE ReadsInv'
  <2>1. UNCHANGED <<world, past>>
    <3>1. CASE Begin(q)
      BY <3>1 DEF Begin
    <3>2. CASE ~Begin(q)
      BY <1>3, <3>2, ToolMoves DEF vars
    <3>3. QED
      BY <3>1, <3>2
  <2>2. /\ DOMAIN calls' = Requests /\ DOMAIN calls'[q] = DOMAIN NoCall
        /\ \A r \in Requests : r # q => calls'[r] = calls[r]
    <3>1. CASE Begin(q)
      BY <3>1 DEF Begin, ReadsInv
    <3>2. CASE ~Begin(q)
      BY <1>3, <3>2, ToolMoves DEF CallMoves
    <3>3. QED
      BY <3>1, <3>2
  <2>3. ASSUME NEW r \in Requests, IsTool(r)' PROVE CallSound(r)'
    <3>1. IsTool(r)
      BY <2>1, <2>3 DEF IsTool, Asked, Outside
    <3>2. CASE r = q
      BY <1>3, <3>1, <3>2, ToolReadsSound
    <3>3. CASE r # q
      BY <2>1, <2>2, <3>1, <3>3, RestingCallSound
    <3>4. QED
      BY <3>2, <3>3
  <2>4. QED
    BY <2>1, <2>2, <2>3 DEF ReadsInv, PastSound
<1>4. CASE UNCHANGED toolVars
  BY <1>1, <1>4 DEF toolVars, vars
<1>5. QED
  BY <1>2, <1>3, <1>4 DEF ToolsNext

\* What a tool returns its caller could read at a moment between the call and the
\* answer, although policies change between the steps of its thread and the thread
\* of a retrieval is a search with legs of its own.
THEOREM ToolsInTime == ToolsSpec => []ToolsReadInTime
<1>1. ToolsInit => ReadsInv
  <2> SUFFICES ASSUME ToolsInit PROVE ReadsInv
    OBVIOUS
  <2>1. /\ world \in DOMAIN Worlds /\ past = <<Worlds[world].policies>>
        /\ calls = [r \in Requests |-> NoCall]
    BY DEF ToolsInit, Init
  <2>2. PastSound /\ Len(past) = 1
    BY <2>1 DEF PastSound
  <2>3. NoCall.thread = "none" /\ NoCall.since = 1 /\ NoCall.outcome = None /\ NoCall.answer = None
    BY DEF NoCall
  <2>4. QED
    BY <2>1, <2>2, <2>3 DEF ReadsInv, CallSound
<1>2. ReadsInv => ToolsReadInTime
  <2> SUFFICES ASSUME ReadsInv, NEW r \in DOMAIN Outside.tools, calls[r].answer # None,
                      NEW d \in calls[r].answer.documents
               PROVE  ReadInTime(r, d)
    BY Zenon DEF ToolsReadInTime, ReadInTime
  <2>1. Outside \in ToSet(Worlds)
    BY DEF ReadsInv, Outside, ToSet
  <2>2. r \in Requests /\ IsTool(r)
    BY <2>1, SearchAssumption, ToolsAssumption DEF IsTool
  <2>3. QED
    BY <2>2 DEF ReadsInv, CallSound
<1>3. ReadsInv /\ QuotaInv /\ EvidenceInv /\ [ToolsNext]_toolVars => ReadsInv'
  BY ReadsStep
<1>4. QED
  BY <1>1, <1>2, <1>3, QuotaSafety, EvidenceSafety, PTL DEF ToolsSpec
=============================================================================
