---------------------------- MODULE ClientProofs ----------------------------
(***************************************************************************)
(* What a client may conclude, for every catalogue, every store and list   *)
(* of tokens, and every number of clients, pages and entries. Of the tools *)
(* (Surface): a lane runs nothing worse than its hints, what a refusal     *)
(* points to is what the client asked for, and a search that was paged to  *)
(* its end showed every row that matches. Of lists (Listing, Tokens): a    *)
(* walk misses nothing that stayed, the end of a list proves absence, and  *)
(* a revocation deletes what it names. Of requests (Requests): what is sent*)
(* carries what was given. Of refusals (Refusals): nothing of a secret is  *)
(* told.                                                                   *)
(***************************************************************************)
EXTENDS Client, Recency, FiniteSetTheorems, WellFoundedInduction, TLAPS

-----------------------------------------------------------------------------
(* Places in an order *)

(* A nonempty set of natural numbers has a least member.                   *)
LEMMA LeastNatural ==
  ASSUME NEW S \in SUBSET Nat, S # {}
  PROVE  \E x \in S : \A y \in S : x <= y
<1>1. IsWellFoundedOn(OpToRel(<, Nat), Nat)
  BY NatLessThanWellFounded
<1>2. PICK x \in S : \A y \in S : ~ (<<y, x>> \in OpToRel(<, Nat))
  BY <1>1, WFMin
<1>3. ASSUME NEW y \in S, y < x
      PROVE  FALSE
  <2>1. <<y, x>> \in Nat \X Nat /\ <<y, x>>[1] < <<y, x>>[2]
    BY <1>3
  <2> QED
    BY <1>2, <2>1, Zenon DEF OpToRel
<1> QED
  BY <1>3

(* Finitely many things, one before the other.                             *)
Ordering(S, precedes) ==
  /\ IsFiniteSet(S)
  /\ \A e \in S : <<e, e>> \notin precedes
  /\ \A e, f \in S : e # f => <<e, f>> \in precedes \/ <<f, e>> \in precedes
  /\ \A e, f, g \in S : <<e, f>> \in precedes /\ <<f, g>> \in precedes => <<e, g>> \in precedes

Ahead(e, S, precedes) == {f \in S : <<f, e>> \in precedes}
PlaceOf(e, S, precedes) == Cardinality(Ahead(e, S, precedes))

(* What comes before has the lower place.                                  *)
LEMMA Places ==
  ASSUME NEW S, NEW precedes, Ordering(S, precedes)
  PROVE  /\ Cardinality(S) \in Nat
         /\ \A e \in S : PlaceOf(e, S, precedes) \in Nat /\ PlaceOf(e, S, precedes) < Cardinality(S)
         /\ \A e, f \in S : <<f, e>> \in precedes <=> PlaceOf(f, S, precedes) < PlaceOf(e, S, precedes)
<1>1. Cardinality(S) \in Nat
  BY FS_CardinalityType DEF Ordering
<1>2. ASSUME NEW e \in S
      PROVE  /\ IsFiniteSet(Ahead(e, S, precedes)) /\ PlaceOf(e, S, precedes) \in Nat
             /\ PlaceOf(e, S, precedes) < Cardinality(S)
  <2>1. Ahead(e, S, precedes) \in SUBSET S /\ e \notin Ahead(e, S, precedes)
    BY DEF Ahead, Ordering
  <2>2. IsFiniteSet(Ahead(e, S, precedes)) /\ PlaceOf(e, S, precedes) \in Nat
    BY <2>1, FS_Subset, FS_CardinalityType DEF Ordering, PlaceOf
  <2>3. PlaceOf(e, S, precedes) <= Cardinality(S) /\ PlaceOf(e, S, precedes) # Cardinality(S)
    BY <2>1, FS_Subset DEF Ordering, PlaceOf
  <2> QED
    BY <1>1, <2>2, <2>3
<1>3. ASSUME NEW e \in S, NEW f \in S, <<f, e>> \in precedes
      PROVE  PlaceOf(f, S, precedes) < PlaceOf(e, S, precedes)
  <2>1. Ahead(f, S, precedes) \in SUBSET Ahead(e, S, precedes)
    BY <1>3 DEF Ahead, Ordering
  <2>2. f \in Ahead(e, S, precedes) /\ f \notin Ahead(f, S, precedes)
    BY <1>3 DEF Ahead, Ordering
  <2>3. PlaceOf(f, S, precedes) <= PlaceOf(e, S, precedes) /\ PlaceOf(f, S, precedes) # PlaceOf(e, S, precedes)
    BY <1>2, <2>1, <2>2, FS_Subset DEF PlaceOf
  <2> QED
    BY <1>2, <2>3
<1>4. ASSUME NEW e \in S, NEW f \in S, PlaceOf(f, S, precedes) < PlaceOf(e, S, precedes)
      PROVE  <<f, e>> \in precedes
  <2>1. f # e
    BY <1>2, <1>4
  <2>2. CASE <<e, f>> \in precedes
    <3>1. PlaceOf(e, S, precedes) < PlaceOf(f, S, precedes)
      BY <1>3, <2>2
    <3> QED
      BY <1>2, <1>4, <3>1
  <2> QED
    BY <2>1, <2>2 DEF Ordering
<1> QED
  BY <1>1, <1>2, <1>3, <1>4

(* Of some of the ordered things one comes last.                           *)
LEMMA LastOfSome ==
  ASSUME NEW S, NEW precedes, Ordering(S, precedes), NEW Some \in SUBSET S, Some # {}
  PROVE  \E v \in Some : \A f \in Some : f # v => <<f, v>> \in precedes
<1> DEFINE P(f) == PlaceOf(f, S, precedes)
           Back == {Cardinality(S) - P(f) : f \in Some}
<1>1. \A f \in Some : P(f) \in Nat /\ P(f) < Cardinality(S) /\ Cardinality(S) \in Nat
  BY Places
<1>2. Back \in SUBSET Nat /\ Back # {}
  BY <1>1
<1>3. PICK x \in Back : \A y \in Back : x <= y
  BY <1>2, LeastNatural
<1>4. PICK v \in Some : x = Cardinality(S) - P(v)
  OBVIOUS
<1>5. ASSUME NEW f \in Some, f # v
      PROVE  <<f, v>> \in precedes
  <2>1. Cardinality(S) - P(v) <= Cardinality(S) - P(f)
    BY <1>3, <1>4
  <2>2. ~(P(v) < P(f))
    BY <1>1, <2>1
  <2>3. <<v, f>> \notin precedes
    BY <2>2, Places
  <2> QED
    BY <1>5, <2>3 DEF Ordering
<1> QED
  BY <1>5

(* No place is skipped: each below the number of things is taken, by one.  *)
LEMMA EveryPlaceTaken ==
  ASSUME NEW S, NEW precedes, Ordering(S, precedes), NEW k \in Nat, k < Cardinality(S)
  PROVE  \E u \in S : /\ PlaceOf(u, S, precedes) = k
                      /\ \A v \in S : PlaceOf(v, S, precedes) = k => v = u
<1> DEFINE P(f) == PlaceOf(f, S, precedes)
           Taken == {n \in Nat : n >= k /\ \E u \in S : P(u) = n}
<1>1. Cardinality(S) \in Nat /\ \A e \in S : P(e) \in Nat /\ P(e) < Cardinality(S)
  BY Places
<1>2. ASSUME NEW u \in S, NEW v \in S, P(v) = P(u)
      PROVE  v = u
  <2>1. ~(P(u) < P(v)) /\ ~(P(v) < P(u))
    BY <1>1, <1>2
  <2> QED
    BY <2>1, Places DEF Ordering
<1>3. Taken # {}
  <2>1. S # {}
    BY <1>1, FS_EmptySet
  <2>2. PICK u \in S : \A f \in S : f # u => <<f, u>> \in precedes
    BY <2>1, LastOfSome
  <2>3. Ahead(u, S, precedes) = S \ {u}
    BY <2>2 DEF Ahead, Ordering
  <2>4. P(u) = Cardinality(S) - 1
    BY <2>3, FS_RemoveElement DEF PlaceOf, Ordering
  <2> QED
    BY <1>1, <2>4
<1>4. PICK n \in Taken : \A m \in Taken : n <= m
  BY <1>3, LeastNatural
<1>5. PICK u \in S : P(u) = n
  OBVIOUS
<1>6. CASE n > k
  <2>1. Ahead(u, S, precedes) \in SUBSET S
    BY DEF Ahead
  <2>2. Ahead(u, S, precedes) # {}
    <3>1. Cardinality({}) = 0
      BY FS_EmptySet
    <3> QED
      BY <1>5, <1>6, <3>1 DEF PlaceOf
  <2>3. PICK v \in Ahead(u, S, precedes) : \A f \in Ahead(u, S, precedes) : f # v => <<f, v>> \in precedes
    BY <2>1, <2>2, LastOfSome
  <2>4. Ahead(v, S, precedes) = Ahead(u, S, precedes) \ {v}
    BY <2>3 DEF Ahead, Ordering
  <2>5. IsFiniteSet(Ahead(u, S, precedes))
    BY <2>1, FS_Subset DEF Ordering
  <2>6. P(v) = n - 1
    BY <1>5, <2>4, <2>5, FS_RemoveElement DEF PlaceOf
  <2>7. n - 1 \in Taken
    BY <1>6, <2>1, <2>6
  <2> QED
    BY <1>4, <2>7
<1> QED
  BY <1>2, <1>5, <1>6
-----------------------------------------------------------------------------
(* The rows of the index, and their order *)

(* Of the tools written by hand each has its name, which is no lane's.     *)
LEMMA HandWrittenNames ==
  /\ \A t, u \in HandWritten : t.tool = u.tool => t = u
  /\ \A t \in HandWritten : t.tool \notin Lanes
<1>1. \A t \in HandWritten :
        \/ t = ServerVersion /\ t.tool = "server.version"
        \/ t = TokenCreate /\ t.tool = "access_token.create"
        \/ t = TokenList /\ t.tool = "access_token.list"
        \/ t = TokenRevoke /\ t.tool = "access_token.revoke"
        \/ t = BootstrapTool /\ t.tool = "repository.bootstrap"
        \/ t = SecretTool /\ t.tool = "repository.secret.set_from_file"
        \/ t = SelectTool /\ t.tool = "result.select"
        \/ t = SearchTool /\ t.tool = "catalog.search"
        \/ t = DescribeTool /\ t.tool = "catalog.describe"
  BY DEF HandWritten, ServerVersion, TokenCreate, TokenList, TokenRevoke, BootstrapTool, SecretTool,
         SelectTool, SearchTool, DescribeTool, Tool
<1> QED
  BY <1>1 DEF Lanes

LEMMA EntryNames == \A e, f \in Entries : e.tool = f.tool => e = f
<1> SUFFICES ASSUME NEW e \in Entries, NEW f \in Entries, e.tool = f.tool PROVE e = f
  OBVIOUS
<1> DEFINE OfTool(t) == [tool |-> t.tool, id |-> t.id, domain |-> t.domain, risk |-> RiskOfHints(t),
                         administrative |-> t.administrative, sensitive |-> t.sensitive, needs |-> t.needs]
           OfOperation(o) == [tool |-> o.tool, id |-> o.id, domain |-> o.domain, risk |-> o.risk,
                              administrative |-> o.administrative, sensitive |-> o.secret, needs |-> o.needs]
<1>1. \A g \in Entries : (\E t \in HandWritten : g = OfTool(t)) \/ (\E o \in Exposed : g = OfOperation(o))
  BY DEF Entries, Listed, Exposed
<1>2. \A g \in Entries : \A t : g = OfTool(t) => g.tool = t.tool
  OBVIOUS
<1>3. \A g \in Entries : \A o : g = OfOperation(o) => g.tool = o.tool
  OBVIOUS
<1> HIDE DEF OfTool, OfOperation
<1>4. ASSUME NEW o \in Exposed, NEW t \in HandWritten
      PROVE  o.tool # t.tool
  <2>1. {o.tool, o.id} \cap {h.tool : h \in Registered} = {}
    BY CatalogueAssumption
  <2>2. t \in Registered
    BY DEF Registered
  <2>3. t.tool \in {h.tool : h \in Registered}
    BY <2>2
  <2> QED
    BY <2>1, <2>3
<1>5. \A o, p \in Exposed : o.tool = p.tool => o = p
  BY CatalogueAssumption
<1> QED
  BY <1>1, <1>2, <1>3, <1>4, <1>5, HandWrittenNames

LEMMA EntryPlaces == \A e \in Entries : Place(e.tool) \in DOMAIN Alphabet /\ Alphabet[Place(e.tool)] = e.tool
  BY CatalogueAssumption DEF Place

LEMMA EntriesFinite == IsFiniteSet(Entries)
<1> DEFINE place == [e \in Entries |-> Place(e.tool)]
<1>1. place \in [Entries -> 1 .. Len(Alphabet)]
  BY EntryPlaces, CatalogueAssumption
<1>2. \A e, f \in Entries : place[e] = place[f] => e = f
  BY EntryPlaces, EntryNames
<1>3. place \in Injection(Entries, 1 .. Len(Alphabet))
  BY <1>1, <1>2 DEF Injection, IsInjective
<1>4. IsFiniteSet(1 .. Len(Alphabet))
  BY CatalogueAssumption, FS_Interval
<1> QED
  BY <1>3, <1>4, FS_Injection

Sorting(args) == {p \in Filtered(args) \X Filtered(args) : Before(args.query, p[1], p[2])}

(* By rank and then by name, the rows that match are in one order.         *)
LEMMA RowsAreOrdered == \A args : Ordering(Filtered(args), Sorting(args))
<1> SUFFICES ASSUME NEW args PROVE Ordering(Filtered(args), Sorting(args))
  OBVIOUS
<1> DEFINE rank(e) == Rank(args.query, e)
           place(e) == Place(e.tool)
<1>1. Filtered(args) \in SUBSET Entries
  BY DEF Filtered
<1>2. \A e : rank(e) \in 0 .. 3
  BY DEF Rank
<1>3. \A e \in Filtered(args) : place(e) \in Nat
  BY <1>1, EntryPlaces, CatalogueAssumption
<1>4. \A e, f \in Filtered(args) : place(e) = place(f) => e = f
  BY <1>1, EntryPlaces, EntryNames
<1>5. \A e, f \in Filtered(args) :
        <<e, f>> \in Sorting(args) <=> rank(e) < rank(f) \/ (rank(e) = rank(f) /\ place(e) < place(f))
  BY DEF Sorting, Before
<1> HIDE DEF rank, place
<1>6. IsFiniteSet(Filtered(args))
  BY <1>1, EntriesFinite, FS_Subset
<1>7. \A e \in Filtered(args) : <<e, e>> \notin Sorting(args)
  BY <1>2, <1>3, <1>5
<1>8. \A e, f \in Filtered(args) : e # f => <<e, f>> \in Sorting(args) \/ <<f, e>> \in Sorting(args)
  BY <1>2, <1>3, <1>4, <1>5
<1>9. \A e, f, g \in Filtered(args) :
        <<e, f>> \in Sorting(args) /\ <<f, g>> \in Sorting(args) => <<e, g>> \in Sorting(args)
  BY <1>2, <1>3, <1>5
<1> QED
  BY <1>6, <1>7, <1>8, <1>9 DEF Ordering

(* Each row that matches has its place, and each place has a row.          *)
LEMMA RankedIsAll ==
  ASSUME NEW args
  PROVE  LET ranked == Ranked(args)
             matching == Filtered(args)
         IN /\ Cardinality(matching) \in Nat /\ Len(ranked) = Cardinality(matching)
            /\ ranked \in Seq(matching)
            /\ \A e \in matching : \E i \in 1 .. Len(ranked) : ranked[i] = e
<1> DEFINE matching == Filtered(args)
           ranked == Ranked(args)
           ahead == [e \in matching |-> Cardinality({f \in matching : Before(args.query, f, e)})]
           n == Cardinality(matching)
<1>1. \A e \in matching : ahead[e] = PlaceOf(e, matching, Sorting(args))
  BY DEF PlaceOf, Ahead, Sorting
<1>2. ranked = [i \in 1 .. n |-> CHOOSE e \in matching : ahead[e] = i - 1]
  BY DEF Ranked
<1>3. n \in Nat /\ \A e \in matching : ahead[e] \in Nat /\ ahead[e] < n
  BY <1>1, RowsAreOrdered, Places
<1>4. ASSUME NEW i \in 1 .. n
      PROVE  \E u \in matching : ahead[u] = i - 1 /\ \A v \in matching : ahead[v] = i - 1 => v = u
  <2>1. i - 1 \in Nat /\ i - 1 < n
    BY <1>3
  <2> QED
    BY <1>1, <2>1, RowsAreOrdered, EveryPlaceTaken
<1> HIDE DEF ahead, n, matching, ranked
<1>5. \A i \in 1 .. n : ranked[i] \in matching /\ ahead[ranked[i]] = i - 1
  BY <1>2, <1>4
<1>6. ranked \in Seq(matching) /\ Len(ranked) = n
  BY <1>2, <1>3, <1>5
<1>7. ASSUME NEW e \in matching
      PROVE  \E i \in 1 .. n : ranked[i] = e
  <2>1. ahead[e] + 1 \in 1 .. n /\ ahead[e] = (ahead[e] + 1) - 1
    BY <1>3
  <2>2. ranked[ahead[e] + 1] = e
    BY <1>4, <1>5, <2>1
  <2> QED
    BY <2>1, <2>2
<1> QED
  BY <1>3, <1>6, <1>7 DEF n, matching, ranked
-----------------------------------------------------------------------------
(* Searches paged to their end *)

Rows == {Row(e) : e \in Entries}

Searches == [args : Queries, offset : Nat, shown : Seq(Rows), done : BOOLEAN]

(* What was shown are the first rows in order, as many as the next offset, *)
(* and there are no more when the search is done.                          *)
PagingHeld ==
  paging # None =>
    LET ranked == Ranked(paging.args)
    IN /\ paging \in Searches
       /\ Search(paging.args, 0).ok =>
            /\ Len(paging.shown) = paging.offset /\ paging.offset <= Len(ranked)
            /\ \A i \in 1 .. paging.offset : paging.shown[i] = Row(ranked[i])
            /\ paging.done => paging.offset = Len(ranked)

(* Whether a search is refused does not depend on its offset, and its rows *)
(* are those that follow.                                                  *)
LEMMA PageFollows ==
  ASSUME NEW args \in Queries, NEW offset \in Nat
  PROVE  LET page == Search(args, offset)
             ranked == Ranked(args)
         IN /\ page.ok = Search(args, 0).ok /\ page.ok \in BOOLEAN
            /\ page.ok /\ offset <= Len(ranked) =>
                 /\ page.rows \in Seq(Rows)
                 /\ offset + Len(page.rows) <= Len(ranked)
                 /\ \A i \in 1 .. Len(page.rows) : page.rows[i] = Row(ranked[offset + i])
                 /\ page.rows = <<>> => offset = Len(ranked)
<1> DEFINE limit == IF args.limit = None THEN DefaultLimit ELSE args.limit
           ranked == Ranked(args)
           page(from) == Page(ranked, from, limit)
           Invalid == limit = 0 \/ args.risk \notin {None, "read", "mutation", "destructive"}
                      \/ ToSet(args.query) \cap TooLong # {}
                      \/ (args.domain # None /\ args.domain \notin Domains)
           Answered(from) ==
             [ok |-> TRUE, total |-> Len(ranked), rows |-> [i \in DOMAIN page(from) |-> Row(page(from)[i])],
              domains |-> ranked = <<>>, hint |-> from >= Len(ranked)]
<1>1. \A from : Search(args, from) = IF Invalid THEN [ok |-> FALSE] ELSE Answered(from)
  BY DEF Search
<1>2. limit \in Nat /\ (~Invalid => limit > 0)
  <2>1. args.limit \in Nat \cup {None}
    BY SurfaceAssumption, Zenon
  <2>2. DefaultLimit \in Nat \ {0}
    BY CatalogueAssumption, Zenon
  <2> QED
    BY <2>1, <2>2
<1>3. Filtered(args) \in SUBSET Entries
  BY DEF Filtered
<1>4. Len(ranked) \in Nat /\ ranked \in Seq(Entries) /\ \A i \in 1 .. Len(ranked) : ranked[i] \in Entries
  BY <1>3, RankedIsAll
<1> DEFINE last == IF offset + limit < Len(ranked) THEN offset + limit ELSE Len(ranked)
<1>5. page(offset) = SubSeq(ranked, offset + 1, last)
  BY DEF Page
<1> HIDE DEF limit, ranked, Invalid
<1>6. ASSUME ~Invalid, offset <= Len(ranked)
      PROVE  /\ last \in Nat /\ offset <= last /\ last <= Len(ranked)
             /\ last = offset => offset = Len(ranked)
  BY <1>2, <1>4, <1>6
<1> HIDE DEF last, page
<1>7. ASSUME ~Invalid, offset <= Len(ranked)
      PROVE  /\ page(offset) \in Seq(Entries) /\ Len(page(offset)) = last - offset
             /\ \A i \in 1 .. last - offset : page(offset)[i] = ranked[offset + i]
  BY <1>4, <1>5, <1>6, <1>7
<1>8. ASSUME ~Invalid, offset <= Len(ranked)
      PROVE  LET rows == [i \in DOMAIN page(offset) |-> Row(page(offset)[i])]
             IN /\ rows \in Seq(Rows) /\ Len(rows) = last - offset
                /\ \A i \in 1 .. last - offset : rows[i] = Row(ranked[offset + i])
  <2>1. DOMAIN page(offset) = 1 .. last - offset /\ last - offset \in Nat
    BY <1>6, <1>7, <1>8
  <2>2. \A i \in 1 .. last - offset : Row(page(offset)[i]) \in Rows
    BY <1>7, <1>8, <2>1 DEF Rows
  <2>3. \A i \in 1 .. last - offset : page(offset)[i] = ranked[offset + i]
    BY <1>7, <1>8
  <2> HIDE DEF Answered
  <2> DEFINE rows == [i \in 1 .. last - offset |-> Row(page(offset)[i])]
  <2>4. rows \in Seq(Rows) /\ Len(rows) = last - offset
    BY <2>1, <2>2
  <2>5. \A i \in 1 .. last - offset : rows[i] = Row(ranked[offset + i])
    BY <2>3
  <2> QED
    BY <2>1, <2>4, <2>5
<1>9. CASE Invalid
  <2>1. Search(args, offset) = [ok |-> FALSE] /\ Search(args, 0) = [ok |-> FALSE]
    BY <1>1, <1>9
  <2>2. Search(args, offset).ok = FALSE /\ Search(args, 0).ok = FALSE
    BY <2>1
  <2> QED
    BY <2>2
<1>10. CASE ~Invalid
  <2>1. Search(args, offset) = Answered(offset) /\ Search(args, 0) = Answered(0)
    BY <1>1, <1>10
  <2>5. Search(args, offset).ok = TRUE /\ Search(args, 0).ok = TRUE
    <3>1. \A from : Answered(from).ok = TRUE
      OBVIOUS
    <3> HIDE DEF Answered
    <3> QED
      BY <2>1, <3>1
  <2>6. Search(args, offset).rows = [i \in DOMAIN page(offset) |-> Row(page(offset)[i])]
    BY <2>1
  <2> HIDE DEF Answered
  <2>2. ASSUME offset <= Len(ranked)
        PROVE  LET rows == Search(args, offset).rows
               IN /\ rows \in Seq(Rows) /\ Len(rows) = last - offset
                  /\ \A i \in 1 .. last - offset : rows[i] = Row(ranked[offset + i])
    BY <1>8, <1>10, <2>2, <2>6
  <2>3. offset <= Len(ranked) => offset + (last - offset) <= Len(ranked)
    BY <1>4, <1>6, <1>10
  <2>4. ASSUME offset <= Len(ranked), Search(args, offset).rows = <<>>
        PROVE  offset = Len(ranked)
    BY <1>6, <1>10, <2>2, <2>4
  <2> QED
    BY <2>2, <2>3, <2>4, <2>5 DEF ranked
<1> QED
  BY <1>9, <1>10

(* A search is begun, paged on, or left.                                   *)
LEMMA PagingKeeps ==
  ASSUME PagingHeld,
         \/ paging' \in {paging, None}
         \/ \E args \in Queries : paging' = [args |-> args, offset |-> 0, shown |-> <<>>, done |-> FALSE]
         \/ SearchNext
  PROVE  PagingHeld'
<1>1. CASE paging' \in {paging, None}
  BY <1>1 DEF PagingHeld
<1>2. ASSUME NEW args \in Queries, paging' = [args |-> args, offset |-> 0, shown |-> <<>>, done |-> FALSE]
      PROVE  PagingHeld'
  <2>1. Len(Ranked(args)) \in Nat
    BY RankedIsAll
  <2>2. paging' \in Searches
    BY <1>2 DEF Searches
  <2> QED
    BY <1>2, <2>1, <2>2 DEF PagingHeld
<1>3. CASE SearchNext
  <2> DEFINE args == paging.args
             offset == paging.offset
             page == Search(args, offset)
             ranked == Ranked(args)
  <2>1. paging # None /\ paging \in Searches
    BY <1>3 DEF SearchNext, PagingHeld
  <2>2. args \in Queries /\ offset \in Nat /\ paging.shown \in Seq(Rows) /\ paging.done \in BOOLEAN
    BY <2>1 DEF Searches
  <2>3. CASE ~page.ok
    <3>1. paging' = [paging EXCEPT !.done = TRUE]
      BY <1>3, <2>3 DEF SearchNext
    <3>2. paging' \in Searches /\ paging'.args = args
      BY <2>1, <3>1 DEF Searches
    <3>3. ~Search(args, 0).ok
      BY <2>2, <2>3, PageFollows
    <3> QED
      BY <3>2, <3>3 DEF PagingHeld
  <2>4. CASE page.ok
    <3> DEFINE rows == page.rows
    <3>1. paging' = [paging EXCEPT !.shown = @ \o rows, !.offset = @ + Len(rows), !.done = rows = <<>>]
      BY <1>3, <2>4 DEF SearchNext
    <3>2. Search(args, 0).ok
      BY <2>2, <2>4, PageFollows
    <3>3. /\ Len(paging.shown) = offset /\ offset <= Len(ranked)
          /\ \A i \in 1 .. offset : paging.shown[i] = Row(ranked[i])
      BY <2>1, <3>2 DEF PagingHeld
    <3>4. /\ rows \in Seq(Rows) /\ offset + Len(rows) <= Len(ranked)
          /\ \A i \in 1 .. Len(rows) : rows[i] = Row(ranked[offset + i])
          /\ rows = <<>> => offset = Len(ranked)
      BY <2>2, <2>4, <3>3, PageFollows
    <3> HIDE DEF rows, page
    <3>5. Len(rows) \in Nat
      BY <3>4
    <3>6. /\ paging'.args = args /\ paging'.offset = offset + Len(rows)
          /\ paging'.shown = paging.shown \o rows /\ paging'.done = (rows = <<>>)
          /\ paging' \in Searches
      <4>1. paging' = [args |-> args, offset |-> offset + Len(rows), shown |-> paging.shown \o rows,
                       done |-> rows = <<>>]
        BY <2>1, <3>1 DEF Searches
      <4>2. paging.shown \o rows \in Seq(Rows) /\ offset + Len(rows) \in Nat
        BY <2>2, <3>4, <3>5
      <4> QED
        BY <2>2, <4>1, <4>2 DEF Searches
    <3> DEFINE shown == paging.shown \o rows
    <3>7. Len(shown) = offset + Len(rows)
      BY <2>2, <3>3, <3>4
    <3>8. ASSUME NEW i \in 1 .. offset + Len(rows)
          PROVE  shown[i] = Row(ranked[i])
      <4>1. CASE i \in 1 .. offset
        <5>1. shown[i] = paging.shown[i]
          BY <2>2, <3>3, <3>4, <4>1
        <5> QED
          BY <3>3, <4>1, <5>1
      <4>2. CASE i \notin 1 .. offset
        <5>1. i - offset \in 1 .. Len(rows) /\ offset + (i - offset) = i
          BY <2>2, <3>5, <4>2
        <5>2. shown[i] = rows[i - offset]
          BY <2>2, <3>3, <3>4, <3>5, <4>2
        <5> QED
          BY <3>4, <5>1, <5>2
      <4> QED
        BY <4>1, <4>2
    <3>9. rows = <<>> => offset + Len(rows) = Len(ranked)
      BY <2>2, <3>4
    <3> QED
      BY <3>4, <3>6, <3>7, <3>8, <3>9 DEF PagingHeld
  <2> QED
    BY <2>3, <2>4
<1> QED
  BY <1>1, <1>2, <1>3

LEMMA PagedToTheEnd == PagingHeld => SearchShowsAll
<1> SUFFICES ASSUME PagingHeld, paging # None, paging.done, Search(paging.args, 0).ok
             PROVE  /\ ToSet(paging.shown) = {Row(e) : e \in Filtered(paging.args)}
                    /\ Len(paging.shown) = Cardinality(Filtered(paging.args))
  BY DEF SearchShowsAll
<1> DEFINE ranked == Ranked(paging.args)
           matching == Filtered(paging.args)
<1>1. /\ Len(paging.shown) = Len(ranked) /\ paging.shown \in Seq(Rows)
      /\ \A i \in 1 .. Len(ranked) : paging.shown[i] = Row(ranked[i])
  BY DEF PagingHeld, Searches
<1>2. /\ Cardinality(matching) \in Nat /\ Len(ranked) = Cardinality(matching) /\ ranked \in Seq(matching)
      /\ \A e \in matching : \E i \in 1 .. Len(ranked) : ranked[i] = e
  BY RankedIsAll
<1> HIDE DEF ranked, matching
<1>3. ToSet(paging.shown) = {paging.shown[i] : i \in 1 .. Len(ranked)}
  BY <1>1, <1>2 DEF ToSet
<1>4. \A i \in 1 .. Len(ranked) : ranked[i] \in matching
  BY <1>2
<1>5. ToSet(paging.shown) = {Row(e) : e \in matching}
  BY <1>1, <1>2, <1>3, <1>4
<1> QED
  BY <1>1, <1>2, <1>5 DEF matching
-----------------------------------------------------------------------------
(* What a name finds *)

(* A name or identifier finds its operation and no other.                  *)
LEMMA FindsOne ==
  /\ \A name : Find(name) = {} \/ \E o \in Exposed : Find(name) = {o} /\ name \in {o.tool, o.id}
  /\ \A o \in Exposed : Find(o.tool) = {o} /\ Find(o.id) = {o} /\ ById(o.id) = {o} /\ ByName(o.tool) = {o}
<1>1. \A o, p \in Exposed : {o.tool, o.id} \cap {p.tool, p.id} # {} => o = p
  BY CatalogueAssumption
<1>2. \A name : ByName(name) = {o \in Exposed : o.tool = name} /\ ById(name) = {o \in Exposed : o.id = name}
  BY DEF ByName, ById, Exposed
<1>3. ASSUME NEW name, ByName(name) # {}
      PROVE  \E o \in Exposed : ByName(name) = {o} /\ o.tool = name
  <2>1. PICK o \in ByName(name) : TRUE
    BY <1>3
  <2>2. o \in Exposed /\ o.tool = name
    BY <1>2
  <2>3. \A p \in ByName(name) : p = o
    BY <1>1, <1>2, <2>2
  <2> QED
    BY <2>1, <2>2, <2>3
<1>4. ASSUME NEW name, ById(name) # {}
      PROVE  \E o \in Exposed : ById(name) = {o} /\ o.id = name
  <2>1. PICK o \in ById(name) : TRUE
    BY <1>4
  <2>2. o \in Exposed /\ o.id = name
    BY <1>2
  <2>3. \A p \in ById(name) : p = o
    BY <1>1, <1>2, <2>2
  <2> QED
    BY <2>1, <2>2, <2>3
<1>5. \A o \in Exposed : ByName(o.tool) = {o} /\ ById(o.id) = {o} /\ ByName(o.id) \in {{}, {o}}
  BY <1>1, <1>2
<1> QED
  BY <1>3, <1>4, <1>5 DEF Find

LEMMA ExposedAre ==
  /\ \A o \in Exposed : o \in Operations /\ LaneOf(o) \in Lanes /\ None \notin {o.tool, o.id}
                        /\ {o.tool, o.id} \cap TooLong = {}
  /\ \A lane \in Lanes : Find(lane) = {} /\ lane # None /\ \A o \in Operations : o.exposed => o.tool # lane
  /\ \A t \in HandWritten : t.tool # None /\ \A o \in Operations : o.exposed => o.tool # t.tool
<1>1. \A o \in Exposed : o \in Operations /\ None \notin {o.tool, o.id} /\ {o.tool, o.id} \cap TooLong = {}
  <2>1. \A o \in Exposed : o \in Operations
    BY DEF Exposed
  <2>2. \A o \in Operations : {o.tool, o.id} \cap ({None} \cup TooLong) = {}
    BY CatalogueAssumption
  <2> QED
    BY <2>1, <2>2
<1>2. \A o \in Exposed : LaneOf(o) \in Lanes
  BY CatalogueAssumption DEF Exposed, LaneOf, Lanes
<1>3. \A lane \in Lanes : LaneTool(lane) \in Registered /\ LaneTool(lane).tool = lane
  BY DEF Registered, LaneTool, Tool
<1>4. \A t \in Registered : t.tool # None /\ \A o \in Exposed : t.tool \notin {o.tool, o.id}
  <2>1. \A t \in Registered : t.tool \notin {None} \cup TooLong
    BY CatalogueAssumption
  <2>2. \A o \in Exposed : {o.tool, o.id} \cap {t.tool : t \in Registered} = {}
    BY CatalogueAssumption
  <2> QED
    BY <2>1, <2>2
<1>5. \A lane \in Lanes : lane # None /\ \A o \in Exposed : lane \notin {o.tool, o.id}
  BY <1>3, <1>4
<1>6. \A lane \in Lanes : Find(lane) = {}
  BY <1>5, FindsOne
<1>7. HandWritten \in SUBSET Registered
  BY DEF Registered
<1> QED
  BY <1>1, <1>2, <1>4, <1>5, <1>6, <1>7 DEF Exposed

(* The hints of an operation's own lane.                                   *)
LEMMA LaneHints ==
  \A o \in Exposed :
    LET lane == LaneTool(LaneOf(o))
    IN /\ lane.readOnly => o.risk = "read"
       /\ o.risk = "destructive" => lane.destructive
       /\ o.administrative = lane.administrative
       /\ o.secret => lane.sensitive
<1> SUFFICES ASSUME NEW o \in Exposed
             PROVE  LET lane == LaneTool(LaneOf(o))
                    IN /\ lane.readOnly => o.risk = "read"
                       /\ o.risk = "destructive" => lane.destructive
                       /\ o.administrative = lane.administrative
                       /\ o.secret => lane.sensitive
  OBVIOUS
<1> DEFINE of == LaneOf(o)
           hints == CASE of = "api.read" -> Reads [] of = "api.mutate" -> Mutates [] OTHER -> Destroys
<1>1. o \in Operations /\ o.exposed /\ o.administrative \in BOOLEAN /\ o.risk \in {"read", "mutation", "destructive"}
  BY CatalogueAssumption DEF Exposed
<1>2. /\ LaneTool(of).readOnly = hints[1] /\ LaneTool(of).destructive = hints[2]
      /\ LaneTool(of).administrative = (of = "api.admin")
      /\ LaneTool(of).sensitive = (\E p \in Operations : p.exposed /\ LaneOf(p) = of /\ p.secret)
  BY DEF LaneTool, Tool
<1>3. of \in Lanes /\ (of = "api.admin" <=> o.administrative = TRUE) /\ (of = "api.read" => o.risk = "read")
      /\ (of = "api.mutate" => o.risk = "mutation")
  BY <1>1 DEF LaneOf, Lanes
<1>4. (hints[1] => of = "api.read") /\ (of \notin {"api.read", "api.mutate"} => hints[2])
  BY DEF Reads, Mutates, Destroys
<1>5. o.secret => LaneTool(of).sensitive
  BY <1>1, <1>2
<1>6. o.administrative = LaneTool(of).administrative
  BY <1>1, <1>2, <1>3
<1> HIDE DEF hints
<1> QED
  BY <1>1, <1>2, <1>3, <1>4, <1>5, <1>6

-----------------------------------------------------------------------------
(* What a call answers *)

(* Every answer of a lane, with what must hold for it to be given.         *)
LaneAnswers(answer, lane, fields, name) ==
  \/ answer = Answer("fields") /\ ~LaneArguments(fields)
  \/ answer = Answer("long") /\ name \in TooLong
  \/ answer = Answer("lane") /\ name \in Lanes
  \/ /\ name \notin TooLong
     /\ \E o \in Exposed :
          /\ Find(name) = {o}
          /\ \/ answer = Pointing("misplaced", LaneOf(o), o.tool) /\ LaneOf(o) # lane
             \/ /\ answer.why \in {"schema", "not sent", "sent"}
                /\ answer.operation = o /\ answer.tool = None /\ LaneOf(o) = lane
  \/ /\ name \notin TooLong /\ Find(name) = {} /\ name \notin Lanes
     /\ \/ \E t \in HandWrittenFor(name) : answer = Pointing("tool", t.tool, None)
        \/ \E e \in LedgerFor(name) : answer = Pointing("replaced", e.replacement, None)
        \/ answer = Answer("unknown") /\ HandWrittenFor(name) = {} /\ LedgerFor(name) = {}

LEMMA LanesAnswer ==
  ASSUME NEW lane \in Lanes, NEW fields, NEW name, NEW args
  PROVE  LaneAnswers(InvokeTool(lane, fields, name, args), lane, fields, name)
<1> DEFINE given == IF fields \cap {"arguments", "args"} = {} THEN <<>> ELSE args
           resolved == Resolve(lane, name)
           answer == InvokeTool(lane, fields, name, args)
<1>1. answer = IF ~LaneArguments(fields) THEN Answer("fields")
               ELSE IF resolved.why # "resolved" THEN resolved
               ELSE TheOne({Carry(o, given) : o \in Find(name)})
  <2>1. {t \in HandWritten : t.tool = lane} = {}
    BY HandWrittenNames
  <2>2. answer = LaneResult(lane, fields, name, args)
    BY <2>1 DEF InvokeTool
  <2> QED
    BY <2>2 DEF LaneResult
<1>2. \A why : Answer(why).why = why /\ Answer(why).tool = None
  BY DEF Answer
<1>3. \A why, tool, to : Pointing(why, tool, to).why = why
  BY DEF Pointing, Answer
<1> HIDE DEF answer, given, resolved
<1>4. CASE ~LaneArguments(fields)
  BY <1>1, <1>4 DEF LaneAnswers, answer
<1>5. CASE LaneArguments(fields) /\ name \in TooLong
  <2>1. resolved = Answer("long")
    BY <1>5 DEF resolved, Resolve
  <2> QED
    BY <1>1, <1>2, <1>5, <2>1 DEF LaneAnswers, answer
<1>6. CASE LaneArguments(fields) /\ name \notin TooLong /\ Find(name) # {}
  <2>1. PICK o \in Exposed : Find(name) = {o}
    BY <1>6, FindsOne
  <2>2. TheOne(Find(name)) = o
    BY <2>1 DEF TheOne
  <2>3. resolved = IF LaneOf(o) # lane THEN Pointing("misplaced", LaneOf(o), o.tool)
                   ELSE [Answer("resolved") EXCEPT !.operation = o]
    BY <1>6, <2>2 DEF resolved, Resolve
  <2>4. CASE LaneOf(o) # lane
    <3>1. answer = Pointing("misplaced", LaneOf(o), o.tool)
      BY <1>1, <1>3, <1>6, <2>3, <2>4
    <3> QED
      BY <1>6, <2>1, <2>4, <3>1 DEF LaneAnswers, answer
  <2>5. CASE LaneOf(o) = lane
    <3>1. resolved.why = "resolved"
      BY <2>3, <2>5 DEF Answer
    <3>2. {Carry(p, given) : p \in Find(name)} = {Carry(o, given)}
      BY <2>1
    <3>3. answer = Carry(o, given)
      BY <1>1, <1>6, <3>1, <3>2 DEF TheOne
    <3>4. answer.why \in {"schema", "not sent", "sent"} /\ answer.operation = o /\ answer.tool = None
      BY <3>3 DEF Carry, Answer
    <3> QED
      BY <1>6, <2>1, <2>5, <3>4 DEF LaneAnswers, answer
  <2> QED
    BY <2>4, <2>5
<1>7. CASE LaneArguments(fields) /\ name \notin TooLong /\ Find(name) = {} /\ name \in Lanes
  <2>1. resolved = Answer("lane")
    BY <1>7 DEF resolved, Resolve
  <2> QED
    BY <1>1, <1>2, <1>7, <2>1 DEF LaneAnswers, answer
<1>8. CASE LaneArguments(fields) /\ name \notin TooLong /\ Find(name) = {} /\ name \notin Lanes
  <2>1. resolved = IF HandWrittenFor(name) # {} THEN Pointing("tool", TheOne(HandWrittenFor(name)).tool, None)
                   ELSE IF LedgerFor(name) # {} THEN Pointing("replaced", TheOne(LedgerFor(name)).replacement, None)
                   ELSE Answer("unknown")
    BY <1>8 DEF resolved, Resolve
  <2>2. resolved.why # "resolved"
    BY <1>2, <1>3, <2>1
  <2>3. answer = resolved
    BY <1>1, <1>8, <2>2
  <2>4. \A set : set # {} => TheOne(set) \in set
    BY DEF TheOne
  <2> QED
    BY <1>8, <2>1, <2>3, <2>4 DEF LaneAnswers, answer
<1> QED
  BY <1>4, <1>5, <1>6, <1>7, <1>8

(* Every answer of a tool that is no lane.                                 *)
ToolAnswers(answer, tool) ==
  \/ (answer = Answer("done") \/ answer = Answer("fields")) /\ \E t \in HandWritten : t.tool = tool
  \/ \E o \in Exposed : o.tool = tool /\ answer = Pointing("operation", LaneOf(o), tool)
  \/ answer = Answer("not found") /\ ByName(tool) = {}

LEMMA ToolsAnswer ==
  ASSUME NEW tool, tool \notin Lanes, NEW fields, NEW name, NEW args
  PROVE  ToolAnswers(InvokeTool(tool, fields, name, args), tool)
<1> USE DEF ToolAnswers
<1>1. CASE \E t \in HandWritten : t.tool = tool
  BY <1>1 DEF InvokeTool
<1>2. CASE ~\E t \in HandWritten : t.tool = tool
  <2>1. InvokeTool(tool, fields, name, args) =
          IF ByName(tool) # {} THEN Pointing("operation", LaneOf(TheOne(ByName(tool))), tool) ELSE Answer("not found")
    BY <1>2 DEF InvokeTool
  <2>2. ByName(tool) # {} => TheOne(ByName(tool)) \in Exposed /\ TheOne(ByName(tool)).tool = tool
    BY DEF TheOne, ByName, Exposed
  <2> QED
    BY <2>1, <2>2
<1> QED
  BY <1>1, <1>2

LEMMA ToolWhys ==
  ASSUME NEW answer, NEW tool, ToolAnswers(answer, tool)
  PROVE  answer.why \in {"done", "fields", "operation", "not found"}
<1>1. Answer("done").why = "done" /\ Answer("fields").why = "fields" /\ Answer("not found").why = "not found"
  BY DEF Answer
<1>2. \A to, name : Pointing("operation", to, name).why = "operation"
  BY DEF Pointing, Answer
<1> QED
  BY <1>1, <1>2 DEF ToolAnswers

(* A hand-written tool that is called with what its schema asks for acts,  *)
(* and so a lane takes the spelling it publishes.                          *)
LEMMA FieldsAreTaken ==
  /\ \A t \in HandWritten : \A name, args : InvokeTool(t.tool, FieldsOf(t.tool), name, args) = Answer("done")
  /\ \A lane \in Lanes : LaneArguments(FieldsOf(lane))
<1>1. ASSUME NEW t \in HandWritten, NEW name, NEW args
      PROVE  InvokeTool(t.tool, FieldsOf(t.tool), name, args) = Answer("done")
  <2> DEFINE own == {u \in HandWritten : u.tool = t.tool}
             fields == FieldsOf(t.tool)
  <2>1. own = {t} /\ TheOne(own) = t
    BY HandWrittenNames DEF TheOne
  <2>2. fields = IF t.tool = TokenRevoke.tool THEN {"id"}
                 ELSE IF t.tool = DescribeTool.tool THEN {"operation_id"} ELSE t.needs
    <3>1. FieldsOf(t.tool) = CASE t.tool \in Lanes -> {"operation_id", "arguments"}
                               [] t.tool = TokenRevoke.tool -> {"id"}
                               [] t.tool = DescribeTool.tool -> {"operation_id"}
                               [] OTHER -> TheOne(own).needs
      BY DEF FieldsOf
    <3>2. t.tool \notin Lanes /\ TokenRevoke.tool # DescribeTool.tool
      BY HandWrittenNames DEF TokenRevoke, DescribeTool, Tool
    <3> QED
      BY <2>1, <3>1, <3>2
  <2>3. TokenRevoke \in HandWritten /\ DescribeTool \in HandWritten /\ TokenRevoke # DescribeTool
    BY DEF HandWritten, TokenRevoke, DescribeTool, Tool
  <2>4. /\ t = TokenRevoke => fields = {"id"}
        /\ t = DescribeTool => fields = {"operation_id"}
        /\ t \notin {TokenRevoke, DescribeTool} => fields = t.needs
    BY <2>2, <2>3, HandWrittenNames
  <2>5. t.needs \subseteq t.takes
    BY DEF HandWritten, ServerVersion, TokenCreate, TokenList, TokenRevoke, BootstrapTool, SecretTool,
           SelectTool, SearchTool, DescribeTool, Tool
  <2>6. /\ TokenRevoke.needs = {} /\ "id" \in TokenRevoke.takes
        /\ DescribeTool.needs = {} /\ "operation_id" \in DescribeTool.takes
    BY DEF TokenRevoke, DescribeTool, Tool
  <2>7. Cardinality({"id"}) = 1 /\ Cardinality({"operation_id"}) = 1 /\ {"operation_id"} \cap Selectors = {"operation_id"}
    BY FS_Singleton DEF Selectors
  <2> HIDE DEF fields
  <2> DEFINE given == [f \in fields |-> "given"]
  <2>8. DOMAIN given = fields /\ \A f \in fields : given[f] # "null"
    OBVIOUS
  <2> HIDE DEF given
  <2>9. t.needs \subseteq fields /\ fields \subseteq t.takes
    BY <2>4, <2>5, <2>6
  <2>10. Accepts(t, given)
    BY <2>4, <2>7, <2>8, <2>9 DEF Accepts
  <2> QED
    BY <2>1, <2>10 DEF InvokeTool, given, fields
<1>2. ASSUME NEW lane \in Lanes
      PROVE  LaneArguments(FieldsOf(lane))
  <2>1. FieldsOf(lane) = {"operation_id", "arguments"}
    BY DEF FieldsOf, Lanes, TokenRevoke, DescribeTool, Tool
  <2>2. {"operation_id", "arguments"} \cap Selectors = {"operation_id"}
        /\ {"operation_id", "arguments"} \cap {"arguments", "args"} = {"arguments"}
    BY DEF Selectors
  <2>3. Cardinality({"operation_id"}) = 1 /\ Cardinality({"arguments"}) = 1
    BY FS_Singleton
  <2> QED
    BY <2>1, <2>2, <2>3 DEF LaneArguments, Selectors
<1> QED
  BY <1>1, <1>2
-----------------------------------------------------------------------------
(* Chains of calls *)

(* Where a row or a description that told this leads: to the lane of the   *)
(* operation it tells of, to a tool, or to a lane that was itself described.*)
Announces(told, to, name) ==
  \/ \E o \in Exposed :
       /\ to = LaneOf(o) /\ Find(name) = {o} /\ name \notin TooLong
       /\ told.risk = o.risk /\ told.administrative = o.administrative
  \/ \E t \in HandWritten : to = t.tool
  \/ to \in Lanes /\ name = to

(* Where an answer leads whose client began with a name.                   *)
Stands(t, first) == first \in {t.tool, t.id} \/ \E e \in LedgerFor(first) : t.id = e.id

Leads(first, to, name) ==
  \/ \E o \in Exposed : Find(first) = {o} /\ to = LaneOf(o) /\ Find(name) = {o} /\ name \notin TooLong
  \/ Find(first) = {} /\ \E t \in HandWritten : to = t.tool /\ Stands(t, first)

Good(first) == first \in Names_ /\ first \notin Unknown \cup TooLong \cup Lanes

ToldHeld(c) ==
  c.told # None =>
    /\ c.answer.why # "unknown"
    /\ c.answer.tool # None => Announces(c.told, c.answer.tool, c.answer.name)
    /\ c.answer.why = "sent" =>
         c.told.risk = c.answer.operation.risk /\ c.told.administrative = c.answer.operation.administrative

SentHeld(c) ==
  /\ c.answer.why = "sent" => c.answer.operation \in Exposed /\ LaneOf(c.answer.operation) = c.tool
  /\ c.answer.why = "unknown" => c.tool \in Lanes

GuideHeld(c) ==
  c.via # "row" =>
    /\ c.first \in Names_
    /\ Good(c.first) =>
         /\ c.answer.tool # None => Leads(c.first, c.answer.tool, c.answer.name)
         /\ (c.tool \in Lanes /\ c.answer.why \in Unresolved) => c.answer.tool # None
         /\ (\E o \in Operations : o.exposed /\ o.tool = c.tool) => c.answer.tool # None
         /\ c.hops > 0 => /\ c.answer.tool = None /\ c.answer.why \notin Unresolved \cup {"fields"}
                          /\ Serves(c.first, c.tool, c.answer.operation)

ChainHeld(c) ==
  /\ c = [via |-> c.via, first |-> c.first, hops |-> c.hops, told |-> c.told, tool |-> c.tool, name |-> c.name,
          answer |-> c.answer]
  /\ c.hops \in Nat
  /\ ToldHeld(c) /\ SentHeld(c) /\ GuideHeld(c)

CallHeld == call # None => ChainHeld(call)

SurfaceInv == PagingHeld /\ CallHeld

(* Of the names a client may hold that are not unknown, each is of an      *)
(* operation or a tool, or the ledger has what replaces it.                *)
LEMMA GoodNames ==
  ASSUME NEW name, Good(name), Find(name) = {}
  PROVE  HandWrittenFor(name) # {} \/ LedgerFor(name) # {}
<1>1. CASE name \in UNION {{o.tool, o.id} : o \in Operations}
  <2>1. PICK o \in Operations : name \in {o.tool, o.id}
    BY <1>1
  <2>2. o \notin Exposed
    BY <2>1, FindsOne
  <2>3. PICK e \in Ledger : e.id = o.id /\ e.tool = o.tool
    BY <2>2, CatalogueAssumption
  <2> QED
    BY <2>1, <2>3 DEF LedgerFor
<1>2. CASE name \in {t.tool : t \in Registered} \cup Ids(Registered)
  BY <1>2 DEF HandWrittenFor, Ids
<1> QED
  BY <1>1, <1>2 DEF Good, Names_

(* A tool that bears a name, or the one its ledger entry names, stands for *)
(* it.                                                                     *)
LEMMA ToolsStand ==
  /\ \A name : name \notin Lanes =>
       \A t \in HandWrittenFor(name) : t \in HandWritten /\ Stands(t, name)
  /\ \A name : \A e \in LedgerFor(name) : \E t \in HandWritten : t.tool = e.replacement /\ Stands(t, name)
<1>1. ASSUME NEW name, name \notin Lanes, NEW t \in HandWrittenFor(name)
      PROVE  t \in HandWritten /\ Stands(t, name)
  <2>1. \A lane \in Lanes : LaneTool(lane).tool = lane /\ LaneTool(lane).id = None
    BY DEF LaneTool, Tool
  <2>2. t \in Registered /\ (t.tool = name \/ (t.id # None /\ t.id = name))
    BY <1>1 DEF HandWrittenFor
  <2>3. t \in HandWritten
    BY <1>1, <2>1, <2>2 DEF Registered
  <2> QED
    BY <2>2, <2>3 DEF Stands
<1>2. ASSUME NEW name, NEW e \in LedgerFor(name)
      PROVE  \E t \in HandWritten : t.tool = e.replacement /\ Stands(t, name)
  <2>1. e \in Ledger
    BY <1>2 DEF LedgerFor
  <2>2. PICK t \in HandWritten : t.tool = e.replacement /\ t.id = e.id
    BY <2>1, CatalogueAssumption
  <2> QED
    BY <1>2, <2>2 DEF Stands
<1> QED
  BY <1>1, <1>2

(* A call of a lane with a good name leads on, or serves the name.         *)
LEMMA LaneLeads ==
  ASSUME NEW lane \in Lanes, NEW fields, NEW name, NEW answer, LaneAnswers(answer, lane, fields, name), Good(name)
  PROVE  /\ answer.tool # None => Leads(name, answer.tool, answer.name)
         /\ answer.why \in Unresolved => answer.tool # None
<1>1. name \notin TooLong \cup Lanes
  BY DEF Good
<1>2. \A why : Answer(why).why = why /\ Answer(why).tool = None
  BY DEF Answer
<1>3. \A why, tool, to : /\ Pointing(why, tool, to).why = why /\ Pointing(why, tool, to).tool = tool
                         /\ Pointing(why, tool, to).name = to
  BY DEF Pointing, Answer
<1>4. CASE answer = Answer("fields")
  <2>1. answer.why = "fields" /\ answer.tool = None
    BY <1>2, <1>4
  <2> QED
    BY <2>1 DEF Unresolved
<1>5. ASSUME NEW o \in Exposed, Find(name) = {o},
             \/ answer = Pointing("misplaced", LaneOf(o), o.tool)
             \/ answer.why \in {"schema", "not sent", "sent"} /\ answer.tool = None
      PROVE  /\ answer.tool # None => Leads(name, answer.tool, answer.name)
             /\ answer.why \in Unresolved => answer.tool # None
  <2>1. CASE answer = Pointing("misplaced", LaneOf(o), o.tool)
    <3>1. Find(o.tool) = {o} /\ o.tool \notin TooLong /\ LaneOf(o) # None
      BY FindsOne, ExposedAre
    <3> QED
      BY <1>3, <1>5, <2>1, <3>1 DEF Leads
  <2>2. CASE answer.why \in {"schema", "not sent", "sent"} /\ answer.tool = None
    BY <2>2 DEF Unresolved
  <2> QED
    BY <1>5, <2>1, <2>2
<1>6. ASSUME Find(name) = {}, NEW t \in HandWritten, Stands(t, name), answer.tool = t.tool
      PROVE  answer.tool # None /\ Leads(name, answer.tool, answer.name)
  BY <1>6, ExposedAre DEF Leads
<1>7. CASE Find(name) = {} /\ \E t \in HandWrittenFor(name) : answer = Pointing("tool", t.tool, None)
  <2>1. PICK t \in HandWrittenFor(name) : answer = Pointing("tool", t.tool, None)
    BY <1>7
  <2>2. t \in HandWritten /\ Stands(t, name)
    BY <1>1, ToolsStand
  <2> QED
    BY <1>3, <1>6, <1>7, <2>1, <2>2
<1>8. CASE Find(name) = {} /\ \E e \in LedgerFor(name) : answer = Pointing("replaced", e.replacement, None)
  <2>1. PICK e \in LedgerFor(name) : answer = Pointing("replaced", e.replacement, None)
    BY <1>8
  <2>2. PICK t \in HandWritten : t.tool = e.replacement /\ Stands(t, name)
    BY ToolsStand
  <2> QED
    BY <1>3, <1>6, <1>8, <2>1, <2>2
<1>9. ~(Find(name) = {} /\ HandWrittenFor(name) = {} /\ LedgerFor(name) = {})
  BY GoodNames
<1> QED
  BY <1>1, <1>4, <1>5, <1>7, <1>8, <1>9 DEF LaneAnswers
(* A chain begins with a call of a lane, or begins again with a nearest    *)
(* name.                                                                   *)
LEMMA LaneCallHolds ==
  ASSUME NEW lane \in Lanes, NEW fields, NEW name, NEW args, NEW via, via # "row" => name \in Names_,
         NEW c, c = [via |-> via, first |-> name, hops |-> 0, told |-> None, tool |-> lane, name |-> name,
                     answer |-> InvokeTool(lane, fields, name, args)]
  PROVE  ChainHeld(c)
<1> DEFINE answer == InvokeTool(lane, fields, name, args)
<1>1. LaneAnswers(answer, lane, fields, name)
  BY LanesAnswer
<1> HIDE DEF answer
<1>2. /\ c.via = via /\ c.first = name /\ c.hops = 0 /\ c.told = None /\ c.tool = lane /\ c.name = name
      /\ c.answer = answer
  BY DEF answer
<1>3. ToldHeld(c)
  BY <1>2 DEF ToldHeld
<1>4. SentHeld(c)
  <2>1. \A why : Answer(why).why = why
    BY DEF Answer
  <2>2. \A why, tool, to : Pointing(why, tool, to).why = why
    BY DEF Pointing, Answer
  <2>3. answer.why = "sent" => answer.operation \in Exposed /\ LaneOf(answer.operation) = lane
    BY <1>1, <2>1, <2>2 DEF LaneAnswers
  <2> QED
    BY <1>2, <2>3 DEF SentHeld
<1>5. ASSUME Good(name)
      PROVE  /\ answer.tool # None => Leads(name, answer.tool, answer.name)
             /\ answer.why \in Unresolved => answer.tool # None
             /\ ~(\E o \in Operations : o.exposed /\ o.tool = lane)
  BY <1>1, <1>5, LaneLeads, ExposedAre
<1>6. GuideHeld(c)
  BY <1>2, <1>5 DEF GuideHeld
<1>7. c = [via |-> c.via, first |-> c.first, hops |-> c.hops, told |-> c.told, tool |-> c.tool, name |-> c.name,
           answer |-> c.answer]
  BY <1>2 DEF answer
<1> QED
  BY <1>2, <1>3, <1>4, <1>6, <1>7 DEF ChainHeld

(* A chain begins with a call of another name.                             *)
LEMMA ToolCallHolds ==
  ASSUME NEW tool \in Names_, tool \notin Lanes, NEW fields, NEW args,
         NEW c, c = Chain("call", tool, None, tool, None, InvokeTool(tool, fields, None, args))
  PROVE  ChainHeld(c)
<1> DEFINE answer == InvokeTool(tool, fields, None, args)
<1>1. ToolAnswers(answer, tool)
  BY ToolsAnswer
<1> HIDE DEF answer
<1>2. /\ c.via = "call" /\ c.first = tool /\ c.hops = 0 /\ c.told = None /\ c.tool = tool /\ c.name = None
      /\ c.answer = answer
  BY DEF answer, Chain
<1>3. \A why : Answer(why).why = why /\ Answer(why).tool = None
  BY DEF Answer
<1>4. \A why, to, name : /\ Pointing(why, to, name).why = why /\ Pointing(why, to, name).tool = to
                         /\ Pointing(why, to, name).name = name
  BY DEF Pointing, Answer
<1>5. answer.why \in {"done", "fields", "operation", "not found"}
  BY <1>1, ToolWhys
<1>6. ToldHeld(c) /\ SentHeld(c)
  BY <1>2, <1>5 DEF ToldHeld, SentHeld
<1>7. ASSUME Good(tool)
      PROVE  /\ answer.tool # None => Leads(tool, answer.tool, answer.name)
             /\ (\E o \in Operations : o.exposed /\ o.tool = tool) => answer.tool # None
  <2>1. CASE (answer = Answer("done") \/ answer = Answer("fields")) /\ \E t \in HandWritten : t.tool = tool
    BY <1>3, <2>1, ExposedAre
  <2>2. ASSUME NEW o \in Exposed, o.tool = tool, answer = Pointing("operation", LaneOf(o), tool)
        PROVE  answer.tool # None /\ Leads(tool, answer.tool, answer.name)
    BY <1>4, <2>2, FindsOne, ExposedAre DEF Leads
  <2>3. CASE answer = Answer("not found") /\ ByName(tool) = {}
    BY <1>3, <2>3 DEF ByName
  <2> QED
    BY <1>1, <2>1, <2>2, <2>3 DEF ToolAnswers
<1>8. GuideHeld(c)
  BY <1>2, <1>7 DEF GuideHeld
<1>9. c = [via |-> c.via, first |-> c.first, hops |-> c.hops, told |-> c.told, tool |-> c.tool, name |-> c.name,
           answer |-> c.answer]
  BY <1>2 DEF answer, Chain
<1> QED
  BY <1>2, <1>6, <1>8, <1>9 DEF ChainHeld

(* A chain begins with what a row or a description says.                   *)
LEMMA AnnouncementHolds ==
  ASSUME NEW via \in {"row", "description"}, NEW first, NEW told, NEW to, NEW name, Announces(told, to, name),
         via # "row" => first \in Names_ /\ (Good(first) => Leads(first, to, name)),
         NEW c, c = Chain(via, first, told, to, name, Pointing(via, to, name))
  PROVE  ChainHeld(c)
<1> DEFINE answer == Pointing(via, to, name)
<1>1. answer.why = via /\ answer.tool = to /\ answer.name = name
  BY DEF Pointing, Answer
<1>2. /\ c.via = via /\ c.first = first /\ c.hops = 0 /\ c.told = told /\ c.tool = to /\ c.name = name
      /\ c.answer = answer
  BY DEF Chain
<1>3. c = [via |-> c.via, first |-> c.first, hops |-> c.hops, told |-> c.told, tool |-> c.tool, name |-> c.name,
           answer |-> c.answer]
  BY <1>2 DEF Chain
<1> HIDE DEF answer
<1>4. answer.why \notin Unresolved \cup {"unknown", "sent"}
  BY <1>1 DEF Unresolved
<1>5. ToldHeld(c) /\ SentHeld(c)
  BY <1>1, <1>2, <1>4 DEF ToldHeld, SentHeld
<1>6. to # None
  BY ExposedAre DEF Announces
<1>7. GuideHeld(c)
  BY <1>1, <1>2, <1>4, <1>6 DEF GuideHeld
<1> QED
  BY <1>2, <1>3, <1>5, <1>7 DEF ChainHeld

(* What a row says of its name.                                            *)
LEMMA RowsAnnounce ==
  ASSUME NEW row \in Rows
  PROVE  Announces(Told(row), row.execution, NameOf(row))
<1>1. PICK e \in Entries : row = Row(e)
  BY DEF Rows
<1>2. /\ row.tool = e.tool /\ row.id = e.id /\ row.execution = ExecutionTool(e) /\ row.risk = e.risk
      /\ row.administrative = e.administrative
  BY <1>1 DEF Row
<1>3. Told(row).risk = e.risk /\ Told(row).administrative = e.administrative
  BY <1>2 DEF Told
<1>4. NameOf(row) = IF e.id = None THEN e.tool ELSE e.id
  BY <1>2 DEF NameOf
<1>5. ASSUME NEW o \in Exposed, e.id = o.id, e.risk = o.risk, e.administrative = o.administrative
      PROVE  Announces(Told(row), row.execution, NameOf(row))
  <2>1. ById(e.id) = {o} /\ Find(e.id) = {o} /\ e.id # None /\ e.id \notin TooLong
    BY <1>5, FindsOne, ExposedAre
  <2>2. (CHOOSE x \in ById(e.id) : TRUE) = o
    BY <2>1
  <2>3. row.execution = LaneOf(o)
    BY <1>2, <2>1, <2>2 DEF ExecutionTool
  <2> QED
    BY <1>3, <1>4, <1>5, <2>1, <2>3 DEF Announces
<1>6. ASSUME NEW o \in Listed,
             e = [tool |-> o.tool, id |-> o.id, domain |-> o.domain, risk |-> o.risk,
                  administrative |-> o.administrative, sensitive |-> o.secret, needs |-> o.needs]
      PROVE  Announces(Told(row), row.execution, NameOf(row))
  <2>1. o \in Exposed /\ e.id = o.id /\ e.risk = o.risk /\ e.administrative = o.administrative
    BY <1>6 DEF Listed, Exposed
  <2> QED
    BY <1>5, <2>1
<1>7. ASSUME NEW t \in HandWritten,
             e = [tool |-> t.tool, id |-> t.id, domain |-> t.domain, risk |-> RiskOfHints(t),
                  administrative |-> t.administrative, sensitive |-> t.sensitive, needs |-> t.needs]
      PROVE  Announces(Told(row), row.execution, NameOf(row))
  <2>1. e.tool = t.tool /\ e.id = t.id /\ e.risk = RiskOfHints(t) /\ e.administrative = t.administrative
    BY <1>7
  <2>2. CASE \E o \in Exposed : o.id = t.id
    <3>1. PICK o \in Exposed : o.id = t.id
      BY <2>2
    <3>2. RiskOfHints(t) = o.risk /\ t.administrative = o.administrative
      BY <3>1, CatalogueAssumption
    <3> QED
      BY <1>5, <2>1, <3>1, <3>2
  <2>3. CASE ~\E o \in Exposed : o.id = t.id
    <3>1. ById(e.id) = {}
      BY <2>1, <2>3 DEF ById, Exposed
    <3>2. row.execution = t.tool
      BY <1>2, <2>1, <3>1 DEF ExecutionTool
    <3> QED
      BY <3>2 DEF Announces
  <2> QED
    BY <2>2, <2>3
<1> QED
  BY <1>6, <1>7 DEF Entries

(* What a description says of its name.                                    *)
LEMMA DescriptionsAnnounce ==
  ASSUME NEW name, Describe(name).ok
  PROVE  LET description == Describe(name)
         IN /\ Announces(Told(description), description.execution, NameOf(description))
            /\ Good(name) => Leads(name, description.execution, NameOf(description))
<1> DEFINE d == Describe(name)
           tools == HandWrittenFor(name)
           Of(tool, id, execution, risk, administrative, needs) ==
             [ok |-> TRUE, tool |-> tool, id |-> id, execution |-> execution, risk |-> risk,
              administrative |-> administrative, needs |-> needs]
<1>1. name \notin TooLong /\ (Find(name) # {} \/ tools # {})
  <2>1. \A n : [ok |-> FALSE, nearest |-> n].ok = FALSE
    OBVIOUS
  <2> QED
    BY <2>1 DEF Describe
<1>2. CASE Find(name) # {}
  <2>1. PICK o \in Exposed : Find(name) = {o}
    BY <1>2, FindsOne
  <2>2. (CHOOSE x \in Find(name) : TRUE) = o
    BY <2>1
  <2>3. d = Of(o.tool, o.id, LaneOf(o), o.risk, o.administrative, o.needs)
    BY <1>1, <1>2, <2>2 DEF Describe
  <2>4. /\ d.tool = o.tool /\ d.id = o.id /\ d.execution = LaneOf(o) /\ d.risk = o.risk
        /\ d.administrative = o.administrative
    BY <2>3
  <2> HIDE DEF d
  <2>5. Told(d).risk = o.risk /\ Told(d).administrative = o.administrative
    BY <2>4 DEF Told
  <2>6. NameOf(d) = o.id /\ Find(o.id) = {o} /\ o.id \notin TooLong
    BY <2>4, FindsOne, ExposedAre DEF NameOf
  <2>7. Announces(Told(d), d.execution, NameOf(d)) /\ Leads(name, d.execution, NameOf(d))
    BY <2>1, <2>4, <2>5, <2>6 DEF Announces, Leads
  <2> QED
    BY <2>7 DEF d
<1>3. CASE Find(name) = {}
  <2> DEFINE t == CHOOSE x \in tools : TRUE
  <2>1. t \in tools
    BY <1>1, <1>3
  <2>2. d = Of(t.tool, t.id, t.tool, RiskOfHints(t), t.administrative, t.needs)
    BY <1>1, <1>3 DEF Describe
  <2>3. d.tool = t.tool /\ d.id = t.id /\ d.execution = t.tool
    BY <2>2
  <2> HIDE DEF d, t
  <2>4. CASE name \in Lanes
    <3>1. t \in Registered /\ (t.tool = name \/ (t.id # None /\ t.id = name))
      BY <2>1 DEF HandWrittenFor
    <3>2. \A lane \in Lanes : LaneTool(lane).tool = lane /\ LaneTool(lane).id = None
      BY DEF LaneTool, Tool
    <3>3. (\E u \in HandWritten : d.execution = u.tool) \/ (d.execution \in Lanes /\ NameOf(d) = d.execution)
      BY <2>3, <3>1, <3>2 DEF Registered, NameOf
    <3>4. Announces(Told(d), d.execution, NameOf(d))
      BY <3>3 DEF Announces
    <3> QED
      BY <2>4, <3>4 DEF Good, d
  <2>5. CASE name \notin Lanes
    <3>1. t \in HandWritten /\ Stands(t, name)
      BY <2>1, <2>5, ToolsStand
    <3>2. Announces(Told(d), d.execution, NameOf(d)) /\ Leads(name, d.execution, NameOf(d))
      BY <1>3, <2>3, <3>1 DEF Announces, Leads
    <3> QED
      BY <3>2 DEF d
  <2> QED
    BY <2>4, <2>5
<1> QED
  BY <1>2, <1>3
(* The client does what the last answer points to.                         *)
LEMMA FollowHolds ==
  ASSUME ChainHeld(call), NEW to, to = call.answer.tool, to # None, NEW name, name = call.answer.name, NEW args,
         NEW c, c = [call EXCEPT !.hops = @ + 1, !.tool = to, !.name = name,
                                 !.answer = InvokeTool(to, FieldsOf(to), name, args)]
  PROVE  ChainHeld(c)
<1> DEFINE answer == InvokeTool(to, FieldsOf(to), name, args)
           fields == FieldsOf(to)
<1>1. c = [via |-> call.via, first |-> call.first, hops |-> call.hops + 1, told |-> call.told, tool |-> to,
           name |-> name, answer |-> answer]
  BY DEF ChainHeld
<1>2. to \in Lanes => LaneAnswers(answer, to, fields, name) /\ LaneArguments(fields)
  BY LanesAnswer, FieldsAreTaken
<1>3. to \notin Lanes => ToolAnswers(answer, to)
  BY ToolsAnswer
<1>4. (\E t \in HandWritten : t.tool = to) => answer = Answer("done") /\ to \notin Lanes
  BY FieldsAreTaken, HandWrittenNames
<1> HIDE DEF answer, fields
<1>5. /\ c.via = call.via /\ c.first = call.first /\ c.hops = call.hops + 1 /\ c.told = call.told
      /\ c.tool = to /\ c.name = name /\ c.answer = answer
  BY ONLY <1>1
<1>6. c = [via |-> c.via, first |-> c.first, hops |-> c.hops, told |-> c.told, tool |-> c.tool, name |-> c.name,
           answer |-> c.answer]
  BY <1>1, <1>5
<1>7. \A why : Answer(why).why = why /\ Answer(why).tool = None
  BY DEF Answer
<1>8. \A why, tool, n : /\ Pointing(why, tool, n).why = why /\ Pointing(why, tool, n).tool = tool
                        /\ Pointing(why, tool, n).name = n
  BY DEF Pointing, Answer
<1>9. ASSUME NEW o \in Exposed, to = LaneOf(o), Find(name) = {o}, name \notin TooLong
      PROVE  /\ answer.why \in {"schema", "not sent", "sent"} /\ answer.operation = o /\ answer.tool = None
             /\ to \in Lanes
  <2>1. to \in Lanes /\ name \notin Lanes
    BY <1>9, ExposedAre
  <2>2. LaneArguments(fields) /\ LaneAnswers(answer, to, fields, name)
    BY <1>2, <2>1
  <2>4. PICK p \in Exposed : /\ Find(name) = {p}
                             /\ \/ answer = Pointing("misplaced", LaneOf(p), p.tool) /\ LaneOf(p) # to
                                \/ /\ answer.why \in {"schema", "not sent", "sent"}
                                   /\ answer.operation = p /\ answer.tool = None /\ LaneOf(p) = to
    BY <1>9, <2>1, <2>2 DEF LaneAnswers
  <2>5. p = o
    BY <1>9, <2>4
  <2> QED
    BY <1>9, <2>1, <2>4, <2>5
<1>10. ToldHeld(c)
  <2> SUFFICES ASSUME call.told # None PROVE ToldHeld(c)
    BY <1>5 DEF ToldHeld
  <2>1. Announces(call.told, to, name)
    BY DEF ChainHeld, ToldHeld
  <2>2. ASSUME NEW o \in Exposed, to = LaneOf(o), Find(name) = {o}, name \notin TooLong,
               call.told.risk = o.risk, call.told.administrative = o.administrative
        PROVE  ToldHeld(c)
    <3>1. answer.why \in {"schema", "not sent", "sent"} /\ answer.operation = o /\ answer.tool = None
      BY <1>9, <2>2
    <3> QED
      BY <1>5, <2>2, <3>1 DEF ToldHeld
  <2>3. CASE \E t \in HandWritten : to = t.tool
    <3>1. answer.why = "done" /\ answer.tool = None
      BY <1>4, <1>7, <2>3
    <3> QED
      BY <1>5, <3>1 DEF ToldHeld
  <2>4. CASE to \in Lanes /\ name = to
    <3>1. Find(name) = {}
      BY <2>4, ExposedAre
    <3>2. answer = Answer("long") \/ answer = Answer("lane")
      BY <1>2, <2>4, <3>1 DEF LaneAnswers
    <3>3. answer.why \in {"long", "lane"} /\ answer.tool = None
      BY <1>7, <3>2
    <3> QED
      BY <1>5, <3>3 DEF ToldHeld
  <2> QED
    BY <2>1, <2>2, <2>3, <2>4 DEF Announces
<1>11. SentHeld(c)
  <2>1. CASE to \in Lanes
    <3>1. answer.why = "sent" => answer.operation \in Exposed /\ LaneOf(answer.operation) = to
      BY <1>2, <1>7, <1>8, <2>1 DEF LaneAnswers
    <3> QED
      BY <1>5, <2>1, <3>1 DEF SentHeld
  <2>2. CASE to \notin Lanes
    <3>1. answer.why \in {"done", "fields", "operation", "not found"}
      BY <1>3, <2>2, ToolWhys
    <3> QED
      BY <1>5, <3>1 DEF SentHeld
  <2> QED
    BY <2>1, <2>2
<1>12. ASSUME call.via # "row", Good(call.first)
       PROVE  /\ answer.tool = None /\ answer.why \notin Unresolved \cup {"fields"}
              /\ ~\E o \in Operations : o.exposed /\ o.tool = to
              /\ Serves(call.first, to, answer.operation)
  <2>1. Leads(call.first, to, name)
    BY <1>12 DEF ChainHeld, GuideHeld
  <2>2. ASSUME NEW o \in Exposed, Find(call.first) = {o}, to = LaneOf(o), Find(name) = {o}, name \notin TooLong
        PROVE  /\ answer.tool = None /\ answer.why \notin Unresolved \cup {"fields"}
               /\ ~\E p \in Operations : p.exposed /\ p.tool = to
               /\ Serves(call.first, to, answer.operation)
    <3>1. answer.why \in {"schema", "not sent", "sent"} /\ answer.operation = o /\ answer.tool = None /\ to \in Lanes
      BY <1>9, <2>2
    <3>2. answer.why \notin Unresolved \cup {"fields"}
      BY <3>1 DEF Unresolved
    <3>3. TheOne(Find(call.first)) = o /\ Find(call.first) # {}
      BY <2>2 DEF TheOne
    <3>4. Serves(call.first, to, answer.operation)
      BY <3>1, <3>3 DEF Serves
    <3> QED
      BY <3>1, <3>2, <3>4, ExposedAre
  <2>3. ASSUME Find(call.first) = {}, NEW t \in HandWritten, to = t.tool, Stands(t, call.first)
        PROVE  /\ answer.tool = None /\ answer.why \notin Unresolved \cup {"fields"}
               /\ ~\E p \in Operations : p.exposed /\ p.tool = to
               /\ Serves(call.first, to, answer.operation)
    <3>1. answer.why = "done" /\ answer.tool = None
      BY <1>4, <1>7, <2>3
    <3>2. answer.why \notin Unresolved \cup {"fields"}
      BY <3>1 DEF Unresolved
    <3>3. Serves(call.first, to, answer.operation)
      BY <2>3 DEF Serves, Stands
    <3> QED
      BY <2>3, <3>1, <3>2, <3>3, ExposedAre
  <2> QED
    BY <2>1, <2>2, <2>3 DEF Leads
<1>13. GuideHeld(c)
  <2> SUFFICES ASSUME call.via # "row" PROVE GuideHeld(c)
    BY <1>5 DEF GuideHeld
  <2>1. call.first \in Names_
    BY DEF ChainHeld, GuideHeld
  <2> QED
    BY <1>5, <1>12, <2>1 DEF GuideHeld
<1>14. c.hops \in Nat
  BY <1>5 DEF ChainHeld
<1> QED
  BY <1>6, <1>10, <1>11, <1>13, <1>14 DEF ChainHeld

-----------------------------------------------------------------------------
(* The client *)

LEMMA SurfaceInit == Init => SurfaceInv
  BY DEF Init, SurfaceInv, PagingHeld, CallHeld

LEMMA SurfaceKeeps ==
  ASSUME SurfaceInv, [Next]_vars
  PROVE  SurfaceInv'
<1>1. CASE UNCHANGED vars \/ Forget
  BY <1>1, PagingKeeps DEF Forget, vars, SurfaceInv, CallHeld
<1>2. CASE SearchStart
  <2>1. PagingHeld'
    BY <1>2, PagingKeeps DEF SearchStart, SurfaceInv
  <2> QED
    BY <1>2, <2>1 DEF SearchStart, SurfaceInv, CallHeld
<1>3. CASE SearchNext
  <2>1. PagingHeld'
    BY <1>3, PagingKeeps DEF SurfaceInv
  <2> QED
    BY <1>3, <2>1 DEF SearchNext, SurfaceInv, CallHeld
<1>4. CASE TakeRow
  <2>1. paging' = None /\ paging # None /\ paging.shown \in Seq(Rows)
    BY <1>4 DEF TakeRow, SurfaceInv, PagingHeld, Searches
  <2>2. PICK row \in Rows : call' = Chain("row", row.tool, Told(row), row.execution, NameOf(row),
                                          Pointing("row", row.execution, NameOf(row)))
    BY <1>4, <2>1 DEF TakeRow
  <2>3. Announces(Told(row), row.execution, NameOf(row))
    BY RowsAnnounce
  <2>4. ChainHeld(call')
    BY <2>2, <2>3, AnnouncementHolds
  <2> QED
    BY <2>1, <2>4, PagingKeeps DEF SurfaceInv, CallHeld
<1>5. CASE DescribeName
  <2>1. PICK name \in Names_ :
          /\ Describe(name).ok
          /\ call' = Chain("description", name, Told(Describe(name)), Describe(name).execution,
                           NameOf(Describe(name)),
                           Pointing("description", Describe(name).execution, NameOf(Describe(name))))
    <3>1. PICK name \in Names_ :
            \/ /\ Describe(name).ok
               /\ call' = Chain("description", name, Told(Describe(name)), Describe(name).execution,
                                NameOf(Describe(name)),
                                Pointing("description", Describe(name).execution, NameOf(Describe(name))))
            \/ \E near \in IF Describe(name).ok THEN {} ELSE {n \in Describe(name).nearest : Describe(n).ok} :
                 call' = Chain("description", near, Told(Describe(near)), Describe(near).execution,
                               NameOf(Describe(near)),
                               Pointing("description", Describe(near).execution, NameOf(Describe(near))))
      BY <1>5 DEF DescribeName
    <3>2. CASE Describe(name).ok
      BY <3>1, <3>2
    <3>3. CASE ~Describe(name).ok
      <4>1. PICK near \in Describe(name).nearest :
              /\ Describe(near).ok
              /\ call' = Chain("description", near, Told(Describe(near)), Describe(near).execution,
                               NameOf(Describe(near)),
                               Pointing("description", Describe(near).execution, NameOf(Describe(near))))
        BY <3>1, <3>3
      <4>2. Describe(name).nearest \subseteq Names_
        <5> DEFINE Near == Suggestible \cup ((UNION {{h.tool, h.id} : h \in Registered}) \ {None})
        <5>1. Near \subseteq Names_
          BY DEF Suggestible, Listed, Names_, Ids
        <5>2. Describe(name) = [ok |-> FALSE, nearest |-> {}] \/ Describe(name) = [ok |-> FALSE, nearest |-> Near]
          BY <3>3 DEF Describe
        <5> HIDE DEF Near
        <5> QED
          BY <5>1, <5>2
      <4> QED
        BY <4>1, <4>2
    <3> QED
      BY <3>2, <3>3
  <2>2. /\ Announces(Told(Describe(name)), Describe(name).execution, NameOf(Describe(name)))
        /\ Good(name) => Leads(name, Describe(name).execution, NameOf(Describe(name)))
    BY <2>1, DescriptionsAnnounce
  <2>3. ChainHeld(call')
    BY <2>1, <2>2, AnnouncementHolds
  <2> QED
    BY <1>5, <2>3, PagingKeeps DEF DescribeName, SurfaceInv, CallHeld
<1>6. CASE Call
  <2>1. UNCHANGED paging
    BY <1>6 DEF Call
  <2>2. PICK tool \in Names_ :
          \/ /\ tool \in Lanes
             /\ \E name \in Names_ :
                  \E fields, args :
                    call' = Chain("call", name, None, tool, name, InvokeTool(tool, fields, name, args))
          \/ /\ tool \notin Lanes
             /\ \E fields : call' = Chain("call", tool, None, tool, None, InvokeTool(tool, fields, None, <<>>))
    BY <1>6 DEF Call
  <2>3. CASE tool \in Lanes
    <3>1. PICK name \in Names_ :
            \E fields, args :
              call' = Chain("call", name, None, tool, name, InvokeTool(tool, fields, name, args))
      BY <2>2, <2>3
    <3>2. PICK fields, args :
            call' = Chain("call", name, None, tool, name, InvokeTool(tool, fields, name, args))
      BY <3>1
    <3>3. ChainHeld(call')
      BY <2>3, <3>2, LaneCallHolds DEF Chain
    <3> QED
      BY <2>1, <3>3, PagingKeeps DEF SurfaceInv, CallHeld
  <2>4. CASE tool \notin Lanes
    <3>1. PICK fields : call' = Chain("call", tool, None, tool, None, InvokeTool(tool, fields, None, <<>>))
      BY <2>2, <2>4
    <3>2. ChainHeld(call')
      BY <2>4, <3>1, ToolCallHolds
    <3> QED
      BY <2>1, <3>2, PagingKeeps DEF SurfaceInv, CallHeld
  <2> QED
    BY <2>3, <2>4
<1>7. CASE Follow
  <2>1. call # None /\ UNCHANGED paging /\ ChainHeld(call)
    BY <1>7 DEF Follow, SurfaceInv, CallHeld
  <2> DEFINE to == call.answer.tool
             name == call.answer.name
  <2>2. PICK args : to # None /\ call' = [call EXCEPT !.hops = @ + 1, !.tool = to, !.name = name,
                                                      !.answer = InvokeTool(to, FieldsOf(to), name, args)]
    BY <1>7 DEF Follow
  <2>3. ChainHeld(call')
    BY <2>1, <2>2, FollowHolds
  <2> QED
    BY <2>1, <2>3, PagingKeeps DEF SurfaceInv, CallHeld
<1>8. CASE FollowNearest
  <2>1. call # None /\ UNCHANGED paging /\ ChainHeld(call) /\ call.answer.why = "unknown"
    BY <1>8 DEF FollowNearest, SurfaceInv, CallHeld
  <2>2. call.told = None /\ call.tool \in Lanes
    BY <2>1 DEF ChainHeld, ToldHeld, SentHeld
  <2>3. PICK near \in Suggestible :
          \E args :
            call' = [call EXCEPT !.first = near, !.hops = 0, !.name = near,
                                 !.answer = InvokeTool(call.tool, FieldsOf(call.tool), near, args)]
    BY <1>8 DEF FollowNearest
  <2> PICK args :
        call' = [call EXCEPT !.first = near, !.hops = 0, !.name = near,
                             !.answer = InvokeTool(call.tool, FieldsOf(call.tool), near, args)]
    BY <2>3
  <2>4. call' = [via |-> call.via, first |-> near, hops |-> 0, told |-> None, tool |-> call.tool, name |-> near,
                 answer |-> InvokeTool(call.tool, FieldsOf(call.tool), near, args)]
    BY <2>1, <2>2 DEF ChainHeld
  <2>5. near \in Names_
    BY DEF Suggestible, Listed, Names_
  <2>6. ChainHeld(call')
    <3> DEFINE fields == FieldsOf(call.tool)
    <3>1. call' = [via |-> call.via, first |-> near, hops |-> 0, told |-> None, tool |-> call.tool,
                   name |-> near, answer |-> InvokeTool(call.tool, fields, near, args)]
      BY <2>4
    <3> HIDE DEF fields
    <3> QED
      <4> DEFINE lane == call.tool
                 announced == call'
                 answered == [via |-> call.via, first |-> near, hops |-> 0, told |-> None, tool |-> lane,
                              name |-> near, answer |-> InvokeTool(lane, fields, near, args)]
      <4>1. lane \in Lanes /\ announced = answered
        BY <2>2, <3>1
      <4>2. ChainHeld(answered)
        <5> HIDE DEF lane
        <5> QED
          BY <2>5, <4>1, LaneCallHolds
      <4> HIDE DEF answered
      <4> QED
        BY ONLY <4>1, <4>2
  <2> QED
    BY <2>1, <2>6, PagingKeeps DEF SurfaceInv, CallHeld
<1> QED
  BY <1>1, <1>2, <1>3, <1>4, <1>5, <1>6, <1>7, <1>8 DEF Next

(* The pages shown so far are the beginning of the ranking, and each answer*)
(* of a chain of calls is true of the name the chain began with.           *)
THEOREM SurfaceInvariant == Spec => []SurfaceInv
  BY SurfaceInit, SurfaceKeeps, PTL DEF Spec

LEMMA SentAsHinted == CallHeld => LaneKeepsRisk
<1> SUFFICES ASSUME CallHeld, call # None, call.answer.why = "sent"
             PROVE  LET o == call.answer.operation
                        lane == LaneTool(call.tool)
                    IN /\ lane.readOnly => o.risk = "read"
                       /\ o.risk = "destructive" => lane.destructive
                       /\ o.administrative = lane.administrative
                       /\ o.secret => lane.sensitive
                       /\ call.told # None => call.told.risk = o.risk /\ call.told.administrative = o.administrative
  BY DEF LaneKeepsRisk
<1>1. ToldHeld(call) /\ SentHeld(call)
  BY DEF CallHeld, ChainHeld
<1>2. call.answer.operation \in Exposed /\ LaneOf(call.answer.operation) = call.tool
  BY <1>1 DEF SentHeld
<1> QED
  BY <1>1, <1>2, LaneHints DEF ToldHeld

LEMMA GuidedHome == CallHeld => GuidanceLeadsHome
<1> SUFFICES ASSUME CallHeld, call # None, call.via # "row", call.first \notin Unknown \cup TooLong \cup Lanes
             PROVE  /\ (call.tool \in Lanes /\ call.answer.why \in Unresolved) => call.answer.tool # None
                    /\ (\E o \in Operations : o.exposed /\ o.tool = call.tool) => call.answer.tool # None
                    /\ call.hops > 0 => /\ call.answer.why \notin Unresolved \cup {"fields"}
                                        /\ Serves(call.first, call.tool, call.answer.operation)
  BY DEF GuidanceLeadsHome
<1>1. GuideHeld(call)
  BY DEF CallHeld, ChainHeld
<1>2. Good(call.first)
  BY <1>1 DEF GuideHeld, Good
<1> QED
  BY <1>1, <1>2 DEF GuideHeld

(* A lane that sends a call publishes hints for at least what the operation*)
(* does, administrative operations leave by the administrative lane only,  *)
(* and the row or description that led there told so (lane_of, lane_tool,  *)
(* resolve, match_row).                                                    *)
THEOREM LanesKeepRisk == Spec => []LaneKeepsRisk
  BY SurfaceInvariant, SentAsHinted, PTL DEF SurfaceInv

(* A refusal for a name of the catalogue, a tool or the ledger points to   *)
(* what bears the name or replaces it, in one step (resolve, describe,     *)
(* invoke_tool).                                                           *)
THEOREM GuidanceIsTrue == Spec => []GuidanceLeadsHome
  BY SurfaceInvariant, GuidedHome, PTL DEF SurfaceInv

(* A search that was paged to its end by the offset after the rows shown   *)
(* has shown each row that matches and as many rows as there are (search). *)
THEOREM SearchesShowAll == Spec => []SearchShowsAll
  BY SurfaceInvariant, PagedToTheEnd, PTL DEF SurfaceInv

-----------------------------------------------------------------------------
(* Entries in the order of their identifiers *)

(* Finitely many entries, each with a number of its own.                   *)
Numbered(S) ==
  /\ IsFiniteSet(S)
  /\ \A e \in S : e.id \in Nat
  /\ \A e, f \in S : e.id = f.id => e = f

RankIn(e, S) == Cardinality(Newer(e, S))

(* The entries newer than a member are fewer than all, and the newer of two*)
(* members has fewer before it.                                            *)
LEMMA Ranks ==
  ASSUME NEW S, Numbered(S), NEW e \in S
  PROVE  /\ RankIn(e, S) \in Nat /\ Cardinality(S) \in Nat /\ RankIn(e, S) < Cardinality(S)
         /\ \A f \in S : f.id >= e.id => RankIn(f, S) <= RankIn(e, S)
<1>1. IsFiniteSet(S) /\ Cardinality(S) \in Nat
  BY FS_CardinalityType DEF Numbered
<1>2. Newer(e, S) \in SUBSET S /\ e \notin Newer(e, S)
  BY DEF Newer, Numbered
<1>3. IsFiniteSet(Newer(e, S)) /\ Cardinality(Newer(e, S)) \in Nat
  BY <1>1, <1>2, FS_Subset, FS_CardinalityType
<1>4. Cardinality(Newer(e, S)) <= Cardinality(S) /\ Cardinality(Newer(e, S)) # Cardinality(S)
  BY <1>1, <1>2, FS_Subset
<1>5. ASSUME NEW f \in S, f.id >= e.id
      PROVE  Cardinality(Newer(f, S)) <= Cardinality(Newer(e, S))
  <2>1. Newer(f, S) \in SUBSET Newer(e, S)
    BY <1>5 DEF Newer, Numbered
  <2> QED
    BY <1>3, <2>1, FS_Subset
<1> QED
  BY <1>1, <1>3, <1>4, <1>5 DEF RankIn

(* No place is skipped: below the place of a member every place is taken.  *)
LEMMA EveryRankTaken ==
  ASSUME NEW S, Numbered(S), NEW t \in S, NEW k \in Nat, RankIn(t, S) >= k
  PROVE  \E u \in S : RankIn(u, S) = k
<1> DEFINE newest == {p \in S \X S : p[1].id > p[2].id}
<1>1. ASSUME NEW e \in S, NEW f \in S
      PROVE  <<e, f>> \in newest <=> e.id > f.id
  OBVIOUS
<1>2. Ordering(S, newest)
  BY <1>1 DEF Ordering, Numbered
<1>3. ASSUME NEW e \in S
      PROVE  PlaceOf(e, S, newest) = RankIn(e, S)
  <2>1. Ahead(e, S, newest) = Newer(e, S)
    BY <1>1 DEF Ahead, Newer
  <2> QED
    BY <2>1 DEF PlaceOf, RankIn
<1>4. k < Cardinality(S)
  BY Ranks
<1>5. PICK u \in S : PlaceOf(u, S, newest) = k
  BY <1>2, <1>4, EveryPlaceTaken
<1> QED
  BY <1>3, <1>5

(* The first page: it is newer than the rest, everything when there are no *)
(* more entries than it has places, and never empty otherwise.             *)
LEMMA FirstPage ==
  ASSUME NEW S, Numbered(S), NEW size \in Nat \ {0}
  PROVE  /\ Slice(S, 0, size) \in SUBSET S
         /\ \A e \in Slice(S, 0, size) : \A f \in S : f.id >= e.id => f \in Slice(S, 0, size)
         /\ Cardinality(S) <= size => Slice(S, 0, size) = S
         /\ S # {} => Slice(S, 0, size) # {}
<1>1. Slice(S, 0, size) = {e \in S : RankIn(e, S) \in 0 .. size - 1}
  BY DEF Slice, RankIn
<1>2. \A e \in S : RankIn(e, S) \in Nat /\ RankIn(e, S) < Cardinality(S) /\ Cardinality(S) \in Nat
  BY Ranks
<1>3. \A e, f \in S : f.id >= e.id => RankIn(f, S) <= RankIn(e, S)
  BY Ranks
<1>4. ASSUME NEW t \in S
      PROVE  \E u \in S : RankIn(u, S) = 0
  BY <1>2, EveryRankTaken
<1> QED
  BY <1>1, <1>2, <1>3, <1>4

(* A later page is empty only past the end: all come before it.            *)
LEMMA EmptyPage ==
  ASSUME NEW S, Numbered(S), NEW from \in Nat, NEW to \in Nat, from < to, Slice(S, from, to) = {}
  PROVE  \A e \in S : RankIn(e, S) < from
<1>1. ASSUME NEW e \in S, RankIn(e, S) >= from
      PROVE  FALSE
  <2>1. PICK u \in S : RankIn(u, S) = from
    BY <1>1, EveryRankTaken
  <2> QED
    BY <2>1 DEF Slice, RankIn
<1> QED
  BY <1>1, Ranks

(* Listing and Tokens count entries with the same operators.               *)
LEMMA SameOperators ==
  \A S, a, b : /\ L!Cardinality(S) = Cardinality(S) /\ T!Cardinality(S) = Cardinality(S)
               /\ L!Slice(S, a, b) = Slice(S, a, b) /\ T!Slice(S, a, b) = Slice(S, a, b)
<1>1. \A S : L!Cardinality(S) = Cardinality(S) /\ T!Cardinality(S) = Cardinality(S)
  BY DEF L!Cardinality, T!Cardinality, Cardinality
<1>2. \A e, S : L!Newer(e, S) = Newer(e, S) /\ T!Newer(e, S) = Newer(e, S)
  BY DEF L!Newer, T!Newer, Newer
<1> QED
  BY <1>1, <1>2 DEF L!Slice, T!Slice, Slice

(* Changes that keep entries numbered.                                     *)
LEMMA NumberedChanges ==
  ASSUME NEW S, Numbered(S)
  PROVE  /\ \A Rest \in SUBSET S : Numbered(Rest)
         /\ \A e : e.id \in Nat /\ (\A f \in S : f.id < e.id) => Numbered(S \cup {e})
<1>1. ASSUME NEW Rest \in SUBSET S
      PROVE  Numbered(Rest)
  BY FS_Subset DEF Numbered
<1>2. ASSUME NEW e, e.id \in Nat, \A f \in S : f.id < e.id
      PROVE  Numbered(S \cup {e})
  <2>1. IsFiniteSet(S \cup {e})
    BY FS_AddElement DEF Numbered
  <2>2. \A f \in S \cup {e} : f.id \in Nat
    BY <1>2 DEF Numbered
  <2>3. \A f, g \in S \cup {e} : f.id = g.id => f = g
    <3>1. \A f \in S : f.id # e.id
      BY <1>2 DEF Numbered
    <3> QED
      BY <3>1 DEF Numbered
  <2> QED
    BY <2>1, <2>2, <2>3 DEF Numbered
<1> QED
  BY <1>1, <1>2

-----------------------------------------------------------------------------
(* Page walks *)

(* The constants of the parts.                                             *)
LEMMA Constants ==
  /\ PageSize \in Nat \ {0} /\ MaxEntries \in Nat \ {0} /\ NoCursor \notin Nat
  /\ Caps \subseteq Nat \ {0} /\ Nothing \notin Nat
  /\ Nothing # "true" /\ Nothing # "false"
BY ClientAssumption

ShownTo(w) == UNION {walk[w].shown[i] : i \in DOMAIN walk[w].shown}

ListingTypes ==
  /\ Numbered(order) /\ nextId \in Nat /\ \A e \in order : e.id < nextId
  /\ present \in [Walks -> SUBSET Nat] /\ \A w \in Walks : \A i \in present[w] : i < nextId
  /\ walk \in [Walks -> [at : {"idle", "walking", "done"}, cursor : Nat \cup {NoCursor},
                        shown : Seq(SUBSET Nat), restarted : BOOLEAN]]

(* The oldest entries go first: when the entry of a cursor is gone, so is  *)
(* all that was older.                                                     *)
CursorHeld(w) ==
  LET c == walk[w].cursor
  IN c \in Nat /\ c < nextId /\ (c \in L!Ids(order) \/ \A e \in order : e.id > c)

(* All that stayed and is not older than the cursor has been shown.        *)
ShownDown(w) ==
  \A e \in order : e.id \in present[w] /\ e.id >= walk[w].cursor => e.id \in ShownTo(w)

(* Unless the walk began again, its pages went down to its cursor.         *)
Descended(w) ==
  LET shown == walk[w].shown
  IN ~walk[w].restarted =>
       /\ \A i \in DOMAIN shown : \A a \in shown[i] : a >= walk[w].cursor
       /\ \A i, j \in DOMAIN shown : i < j => \A a \in shown[i], b \in shown[j] : a > b

ListingInv ==
  /\ ListingTypes
  /\ \A w \in Walks :
       /\ walk[w].at = "idle" =>
            walk[w].cursor = NoCursor /\ walk[w].shown = <<>> /\ ~walk[w].restarted
       /\ walk[w].at = "walking" => CursorHeld(w) /\ ShownDown(w) /\ Descended(w)

LEMMA ListingInit == L!Init => ListingInv
<1> SUFFICES ASSUME L!Init PROVE ListingInv
  OBVIOUS
<1>1. Numbered({})
  BY FS_EmptySet DEF Numbered
<1>2. ListingTypes
  BY <1>1 DEF L!Init, ListingTypes
<1> QED
  BY <1>2 DEF L!Init, ListingInv

(* What expires, or is the oldest, is older than what stays.               *)
LEMMA OldestGo ==
  ASSUME ListingTypes, NEW now
  PROVE  /\ L!Expire(order, now) \in SUBSET order
         /\ \A e \in L!Expire(order, now) : \A f \in order : f.id >= e.id => f \in L!Expire(order, now)
<1>1. \A e \in order : e.id \in Nat
  BY DEF ListingTypes, Numbered
<1> QED
  BY <1>1 DEF L!Expire

(* Dropping the oldest entries keeps what is known of a walk.              *)
LEMMA DroppingKeepsWalk ==
  ASSUME ListingInv, NEW Rest \in SUBSET order, \A e \in Rest : \A f \in order : f.id >= e.id => f \in Rest,
         order' = Rest, nextId' = nextId, NEW w \in Walks, walk'[w] = walk[w], present'[w] = present[w],
         walk[w].at = "walking"
  PROVE  CursorHeld(w)' /\ ShownDown(w)' /\ Descended(w)'
<1>1. CursorHeld(w) /\ ShownDown(w) /\ Descended(w)
  BY DEF ListingInv
<1>2. CursorHeld(w)'
  <2>1. \A e \in order : e.id \in Nat
    BY DEF ListingInv, ListingTypes, Numbered
  <2> QED
    BY <1>1, <2>1 DEF CursorHeld, L!Ids
<1>3. ShownDown(w)' /\ Descended(w)'
  BY <1>1 DEF ShownDown, Descended, ShownTo
<1> QED
  BY <1>2, <1>3

LEMMA DroppingKeeps ==
  ASSUME ListingInv, NEW Rest \in SUBSET order, \A e \in Rest : \A f \in order : f.id >= e.id => f \in Rest,
         order' = Rest, UNCHANGED <<nextId, walk, present>>
  PROVE  ListingInv'
<1>1. ListingTypes'
  BY NumberedChanges DEF ListingInv, ListingTypes
<1> QED
  BY <1>1, DroppingKeepsWalk DEF ListingInv

(* A new entry is newer than every cursor and was in nobody's beginning.   *)
LEMMA AddingKeeps ==
  ASSUME ListingInv, NEW Rest \in SUBSET order, \A e \in Rest : \A f \in order : f.id >= e.id => f \in Rest,
         NEW new, new.id = nextId, order' = Rest \cup {new}, nextId' = nextId + 1, UNCHANGED <<walk, present>>
  PROVE  ListingInv'
<1>1. nextId \in Nat /\ \A f \in order : f.id \in Nat /\ f.id < nextId
  BY DEF ListingInv, ListingTypes, Numbered
<1>2. ListingTypes'
  <2>1. Numbered(Rest) /\ \A f \in Rest : f.id < new.id
    BY <1>1, NumberedChanges DEF ListingInv, ListingTypes
  <2>2. Numbered(Rest \cup {new})
    BY <1>1, <2>1, NumberedChanges
  <2> QED
    BY <1>1, <2>2 DEF ListingInv, ListingTypes
<1>3. ASSUME NEW w \in Walks, walk[w].at = "walking"
      PROVE  CursorHeld(w)' /\ ShownDown(w)' /\ Descended(w)'
  <2>1. CursorHeld(w) /\ ShownDown(w) /\ Descended(w)
    BY <1>3 DEF ListingInv
  <2>2. CursorHeld(w)'
    BY <1>1, <2>1 DEF CursorHeld, L!Ids
  <2>3. ShownDown(w)'
    <3>1. new.id \notin present[w]
      BY <1>1 DEF ListingInv, ListingTypes
    <3> QED
      BY <2>1, <3>1 DEF ShownDown, ShownTo
  <2>4. Descended(w)'
    BY <2>1 DEF Descended
  <2> QED
    BY <2>2, <2>3, <2>4
<1> QED
  BY <1>2, <1>3 DEF ListingInv

(* What the end of a walk promises.                                        *)
AllShown(w) ==
  /\ present[w] \cap L!Ids(order) \subseteq ShownTo(w)
  /\ walk[w].restarted \/ \A i, j \in DOMAIN walk[w].shown :
       i < j => \A a \in walk[w].shown[i], b \in walk[w].shown[j] : a > b

(* A page of a walk.                                                       *)
LEMMA ReadingKeeps ==
  ASSUME ListingInv, NEW w \in Walks, L!ReadPage(w)
  PROVE  ListingInv' /\ (walk[w].at # "done" /\ walk'[w].at = "done" => AllShown(w)')
         /\ \A v \in Walks : v # w => walk'[v] = walk[v]
<1> DEFINE Live(now) == L!Expire(order, now)
           Rest(now) == L!Candidates(Live(now), walk[w].cursor)
           Shown(now) == L!Ids(Slice(Rest(now), 0, PageSize))
           Following(now) == L!CursorAfter(Rest(now))
<1>1. PICK now \in L!Readings :
        /\ order' = Live(now)
        /\ walk' = [walk EXCEPT ![w] =
             [at |-> IF Following(now) = NoCursor THEN "done" ELSE "walking", cursor |-> Following(now),
              shown |-> Append(walk[w].shown, Shown(now)),
              restarted |-> walk[w].restarted
                            \/ (walk[w].cursor # NoCursor /\ walk[w].cursor \notin L!Ids(Live(now)))]]
        /\ present' = IF walk[w].at = "idle" THEN [present EXCEPT ![w] = L!Ids(Live(now))] ELSE present
        /\ nextId' = nextId
  BY SameOperators DEF L!ReadPage
<1> DEFINE live == Live(now) rest == Rest(now) page == Slice(rest, 0, PageSize) next == Following(now)
           cursor == walk[w].cursor
<1>2. /\ live \in SUBSET order /\ Numbered(live) /\ \A e \in live : e.id \in Nat /\ e.id < nextId
      /\ \A e \in live : \A f \in order : f.id >= e.id => f \in live
  BY OldestGo, NumberedChanges DEF ListingInv, ListingTypes, Numbered
<1>3. rest \in SUBSET live /\ Numbered(rest)
  BY <1>2, NumberedChanges DEF L!Candidates
<1>4. /\ page \in SUBSET rest
      /\ \A e \in page : \A f \in rest : f.id >= e.id => f \in page
      /\ Cardinality(rest) <= PageSize => page = rest
      /\ rest # {} => page # {}
  BY <1>3, FirstPage, Constants
(* The next cursor is the oldest of the page, or there is no more.         *)
<1>5. \/ next = NoCursor /\ page = rest
      \/ next \in L!Ids(page) /\ \A i \in L!Ids(page) : next <= i
  <2>1. CASE Cardinality(rest) > PageSize
    <3>1. rest # {}
      BY <2>1, FS_EmptySet, Constants
    <3>2. L!Ids(page) \in SUBSET Nat /\ L!Ids(page) # {}
      BY <1>2, <1>3, <1>4, <3>1 DEF L!Ids
    <3>3. \E x \in L!Ids(page) : \A y \in L!Ids(page) : x <= y
      BY <3>2, LeastNatural
    <3>4. next = L!Min(L!Ids(page))
      BY <2>1, SameOperators DEF L!CursorAfter
    <3> QED
      BY <3>3, <3>4 DEF L!Min
  <2>2. CASE ~(Cardinality(rest) > PageSize)
    <3>1. Cardinality(rest) <= PageSize
      BY <1>3, <2>2, FS_CardinalityType, Constants DEF Numbered
    <3>2. next = NoCursor
      BY <2>2, SameOperators DEF L!CursorAfter
    <3> QED
      BY <1>4, <3>1, <3>2
  <2> QED
    BY <2>1, <2>2
<1>6. /\ walk'[w].at = IF next = NoCursor THEN "done" ELSE "walking"
      /\ walk'[w].cursor = next
      /\ walk'[w].shown = Append(walk[w].shown, L!Ids(page))
      /\ walk'[w].restarted = (walk[w].restarted \/ (cursor # NoCursor /\ cursor \notin L!Ids(live)))
      /\ present'[w] = IF walk[w].at = "idle" THEN L!Ids(live) ELSE present[w]
      /\ \A v \in Walks : v # w => walk'[v] = walk[v] /\ present'[v] = present[v]
      /\ order' = live /\ nextId' = nextId
  BY <1>1 DEF ListingInv, ListingTypes
<1>7. ListingTypes'
  <2>1. L!Ids(live) \in SUBSET Nat /\ \A i \in L!Ids(live) : i < nextId
    BY <1>2 DEF L!Ids
  <2>2. L!Ids(page) \in SUBSET Nat
    BY <1>2, <1>3, <1>4 DEF L!Ids
  <2>3. next \in Nat \cup {NoCursor}
    BY <1>5, <2>2
  <2>4. present' \in [Walks -> SUBSET Nat] /\ \A v \in Walks : \A i \in present'[v] : i < nextId
    BY <1>1, <1>6, <2>1 DEF ListingInv, ListingTypes
  <2>5. Append(walk[w].shown, L!Ids(page)) \in Seq(SUBSET Nat) /\ walk[w].restarted \in BOOLEAN
    BY <2>2 DEF ListingInv, ListingTypes
  <2> DEFINE step == [at |-> IF next = NoCursor THEN "done" ELSE "walking", cursor |-> next,
                      shown |-> Append(walk[w].shown, L!Ids(page)),
                      restarted |-> walk[w].restarted
                                    \/ (cursor # NoCursor /\ cursor \notin L!Ids(live))]
  <2>6. step \in [at : {"idle", "walking", "done"}, cursor : Nat \cup {NoCursor},
                  shown : Seq(SUBSET Nat), restarted : BOOLEAN]
    BY <2>3, <2>5
  <2>7. walk' = [walk EXCEPT ![w] = step]
    BY <1>1
  <2> HIDE DEF step
  <2>8. walk' \in [Walks -> [at : {"idle", "walking", "done"}, cursor : Nat \cup {NoCursor},
                            shown : Seq(SUBSET Nat), restarted : BOOLEAN]]
    BY <2>6, <2>7 DEF ListingInv, ListingTypes
  <2> QED
    BY <1>2, <1>6, <2>4, <2>8 DEF ListingInv, ListingTypes
<1>8. walk[w].at = "idle" \/ (walk[w].at = "walking" /\ CursorHeld(w) /\ ShownDown(w) /\ Descended(w))
  BY DEF L!ReadPage, ListingInv, ListingTypes
<1>9. walk[w].at = "idle" => /\ walk[w].shown = <<>> /\ ~walk[w].restarted
                             /\ cursor = NoCursor /\ NoCursor \notin L!Ids(live)
  BY <1>2, Constants DEF ListingInv, L!Ids
<1> HIDE DEF Live, Rest, Shown, Following
(* What the page shows: of the rest, all that is not older than the cursor.*)
<1>10. /\ ShownTo(w)' = ShownTo(w) \cup L!Ids(page)
       /\ \A e \in rest : (next = NoCursor \/ e.id >= next) => e.id \in ShownTo(w)'
  <2>1. ShownTo(w)' = ShownTo(w) \cup L!Ids(page)
    <3> DEFINE after == walk'[w].shown
    <3>1. \A i : i \in DOMAIN after <=> (i \in DOMAIN walk[w].shown \/ i = Len(walk[w].shown) + 1)
      BY <1>6 DEF ListingInv, ListingTypes
    <3>2. /\ \A i \in DOMAIN walk[w].shown : after[i] = walk[w].shown[i]
          /\ after[Len(walk[w].shown) + 1] = L!Ids(page)
      BY <1>6 DEF ListingInv, ListingTypes
    <3>3. ShownTo(w)' = UNION {after[i] : i \in DOMAIN after}
      BY DEF ShownTo
    <3> HIDE DEF after
    <3> QED
      BY <3>1, <3>2, <3>3 DEF ShownTo
  <2>2. \A e \in rest : (next = NoCursor \/ e.id >= next) => e \in page
    BY <1>4, <1>5, Constants, <1>2, <1>3 DEF L!Ids
  <2> QED
    BY <2>1, <2>2 DEF L!Ids
<1>11. \A e \in live : e.id \in present'[w] /\ (next = NoCursor \/ e.id >= next) => e.id \in ShownTo(w)'
  <2> SUFFICES ASSUME NEW e \in live, e.id \in present'[w], next = NoCursor \/ e.id >= next, e \notin rest
               PROVE  e.id \in ShownTo(w)'
    BY <1>10
  <2>1. cursor \in L!Ids(live) /\ ~(e.id < cursor)
    BY DEF L!Candidates, Rest
  <2>2. walk[w].at = "walking" /\ ShownDown(w) /\ CursorHeld(w)
    BY <1>8, <1>9, <2>1
  <2>3. e.id >= cursor /\ e.id \in present[w] /\ e \in order
    BY <1>2, <1>6, <2>1, <2>2 DEF CursorHeld
  <2> QED
    BY <1>10, <2>2, <2>3 DEF ShownDown
<1>12. ~walk'[w].restarted =>
         /\ \A i \in DOMAIN walk'[w].shown : \A a \in walk'[w].shown[i] : next = NoCursor \/ a >= next
         /\ \A i, j \in DOMAIN walk'[w].shown :
              i < j => \A a \in walk'[w].shown[i], b \in walk'[w].shown[j] : a > b
  <2> SUFFICES ASSUME ~walk'[w].restarted
               PROVE  /\ \A i \in DOMAIN walk'[w].shown : \A a \in walk'[w].shown[i] : next = NoCursor \/ a >= next
                      /\ \A i, j \in DOMAIN walk'[w].shown :
                           i < j => \A a \in walk'[w].shown[i], b \in walk'[w].shown[j] : a > b
    OBVIOUS
  <2> DEFINE before == walk[w].shown
  <2>1. before \in Seq(SUBSET Nat) /\ L!Ids(page) \in SUBSET Nat
    BY <1>2, <1>3, <1>4 DEF ListingInv, ListingTypes, L!Ids
  <2>2. \A a \in L!Ids(page) : next = NoCursor \/ a >= next
    BY <1>5, <2>1
  <2>3. \A i \in DOMAIN before : \A a \in before[i], b \in L!Ids(page) : a > b
    <3>1. CASE walk[w].at = "idle"
      BY <1>9, <3>1
    <3>2. CASE walk[w].at # "idle"
      <4>1. Descended(w) /\ CursorHeld(w)
        BY <1>8, <3>2
      <4>2. cursor \in L!Ids(live) /\ ~walk[w].restarted /\ cursor \in Nat
        BY <1>6, <4>1, Constants DEF CursorHeld
      <4>3. \A b \in L!Ids(page) : b < cursor
        BY <1>4, <4>2 DEF L!Candidates, Rest, L!Ids
      <4>4. \A i \in DOMAIN before : \A a \in before[i] : a >= cursor /\ a \in Nat
        BY <2>1, <4>1, <4>2 DEF Descended
      <4> QED
        BY <2>1, <4>2, <4>3, <4>4
    <3> QED
      BY <3>1, <3>2
  <2>4. \A i, j \in DOMAIN before : i < j => \A a \in before[i], b \in before[j] : a > b
    <3>1. CASE walk[w].at = "idle"
      BY <1>9, <3>1
    <3>2. CASE walk[w].at # "idle"
      BY <1>6, <1>8, <3>2 DEF Descended
    <3> QED
      BY <3>1, <3>2
  <2>5. \A i \in DOMAIN before : \A a \in before[i] : next = NoCursor \/ a >= next
    BY <1>5, <2>1, <2>3
  <2> HIDE DEF before
  <2>6. /\ walk'[w].shown = Append(before, L!Ids(page))
        /\ DOMAIN Append(before, L!Ids(page)) = 1 .. Len(before) + 1 /\ DOMAIN before = 1 .. Len(before)
        /\ Len(before) \in Nat
        /\ \A i \in DOMAIN before : Append(before, L!Ids(page))[i] = before[i]
        /\ Append(before, L!Ids(page))[Len(before) + 1] = L!Ids(page)
    BY <1>6, <2>1 DEF before
  <2> QED
    BY <2>2, <2>3, <2>4, <2>5, <2>6
<1>13. walk'[w].at = "walking" => CursorHeld(w)' /\ ShownDown(w)' /\ Descended(w)'
  <2> SUFFICES ASSUME walk'[w].at = "walking"
               PROVE  CursorHeld(w)' /\ ShownDown(w)' /\ Descended(w)'
    OBVIOUS
  <2>1. next # NoCursor /\ next \in L!Ids(page)
    BY <1>5, <1>6
  <2>2. next \in L!Ids(live) /\ next \in Nat /\ next < nextId
    BY <1>2, <1>3, <1>4, <2>1 DEF L!Ids
  <2>3. CursorHeld(w)'
    BY <1>6, <2>2 DEF CursorHeld
  <2>4. ShownDown(w)' /\ Descended(w)'
    BY <1>6, <1>11, <1>12, <2>1 DEF ShownDown, Descended
  <2> QED
    BY <2>3, <2>4
<1>14. ASSUME NEW v \in Walks, v # w, walk'[v].at = "walking"
       PROVE  CursorHeld(v)' /\ ShownDown(v)' /\ Descended(v)'
  BY <1>2, <1>6, <1>14, DroppingKeepsWalk
<1>15. ListingInv'
  BY <1>6, <1>7, <1>13, <1>14 DEF ListingInv
<1>16. walk'[w].at = "done" => AllShown(w)'
  <2>1. walk'[w].at = "done" => next = NoCursor
    BY <1>6
  <2> QED
    BY <1>6, <1>11, <1>12, <2>1 DEF AllShown, L!Ids
<1> QED
  BY <1>6, <1>15, <1>16

(* An insert drops what expired, perhaps the oldest entry, and adds one.   *)
LEMMA InsertKeeps ==
  ASSUME ListingInv, L!Insert
  PROVE  ListingInv'
<1>1. PICK now \in L!Readings :
        LET live == L!Expire(order, now)
            room == IF L!Cardinality(live) < MaxEntries THEN live ELSE live \ L!Oldest(live)
        IN \E at : order' = room \cup {[id |-> nextId, at |-> at]}
  BY DEF L!Insert
<1> DEFINE live == L!Expire(order, now)
           room == IF L!Cardinality(live) < MaxEntries THEN live ELSE live \ L!Oldest(live)
<1>2. PICK at : order' = room \cup {[id |-> nextId, at |-> at]}
  BY <1>1
<1>3. \A e \in order : e.id \in Nat
  BY DEF ListingInv, ListingTypes, Numbered
<1>4. /\ live \in SUBSET order
      /\ \A e \in live : \A f \in order : f.id >= e.id => f \in live
  BY OldestGo DEF ListingInv
<1> HIDE DEF live
<1>5. /\ room \in SUBSET order
      /\ \A e \in room : \A f \in order : f.id >= e.id => f \in room
  BY <1>3, <1>4 DEF L!Oldest
<1>6. nextId' = nextId + 1 /\ UNCHANGED <<walk, present>>
  BY DEF L!Insert
<1> HIDE DEF room
<1> QED
  BY <1>2, <1>5, <1>6, AddingKeeps

LEMMA ListingKeeps ==
  ASSUME ListingInv, L!Next
  PROVE  /\ ListingInv'
         /\ \A w \in Walks : walk'[w].at = "done" /\ walk[w].at # "done" => AllShown(w)'
<1>1. CASE L!Insert
  <2>1. UNCHANGED walk
    BY <1>1 DEF L!Insert
  <2> QED
    BY <1>1, <2>1, InsertKeeps
<1>2. ASSUME NEW w \in Walks, L!ReadPage(w)
      PROVE  /\ ListingInv'
             /\ \A v \in Walks : walk'[v].at = "done" /\ walk[v].at # "done" => AllShown(v)'
  <2>1. ListingInv' /\ (walk[w].at # "done" /\ walk'[w].at = "done" => AllShown(w)')
    BY <1>2, ReadingKeeps
  <2>2. \A v \in Walks : v # w => walk'[v] = walk[v]
    BY <1>2, ReadingKeeps
  <2> QED
    BY <2>1, <2>2
<1>3. CASE L!Read
  BY <1>3, OldestGo, DroppingKeeps DEF L!Read, ListingInv
<1>4. CASE L!Tick
  <2>1. UNCHANGED <<order, nextId, walk, present>>
    BY <1>4 DEF L!Tick
  <2> QED
    BY <2>1, DroppingKeeps
<1> QED
  BY <1>1, <1>2, <1>3, <1>4 DEF L!Next

-----------------------------------------------------------------------------
(* The readers of Gitea's tokens *)

Tokens_ == gitea.tokens

Readers ==
  [is : {"idle", "find", "load", "list"}, page : Nat \ {0}, seen : SUBSET Nat, count : Nat,
   target : TokenNames \cup {Nothing},
   verdict : {"none", "reading", "found", "absent", "refused", "bound", "complete", "failed"},
   style : Styles \cup {Nothing}, start : SUBSET Nat, shifted : BOOLEAN]

TokenTypes ==
  /\ gitea \in [tokens : SUBSET [id : Nat, name : TokenNames], cap : Caps]
  /\ Numbered(Tokens_) /\ nextToken \in Nat /\ \A t \in Tokens_ : t.id < nextToken
  /\ \A t, u \in Tokens_ : t.name = u.name => t = u
  /\ reader \in Readers

(* While a reader reads, it has seen what was there from the beginning and *)
(* comes before its next page, and not what it is looking for.             *)
ReadSoFar ==
  reader.verdict = "reading" =>
    /\ \A i \in reader.start \cup reader.seen : i < nextToken
    /\ reader.is = "list" => reader.style \in Styles
    /\ ~reader.shifted =>
         /\ reader.start \subseteq T!TokenIds(Tokens_)
         /\ \A t \in Tokens_ :
              t.id \in reader.start /\ RankIn(t, Tokens_) < (reader.page - 1) * gitea.cap => t.id \in reader.seen
    /\ reader.is = "find" => \A t \in Tokens_ : t.id \in reader.seen => t.name # reader.target

TokensInv == TokenTypes /\ ReadSoFar /\ AbsenceProved /\ RevokesTheNamed

LEMMA TokensInit == T!Init => TokensInv
<1> SUFFICES ASSUME T!Init PROVE TokensInv
  OBVIOUS
<1>1. PICK cap \in Caps : gitea = [tokens |-> {}, cap |-> cap]
  BY DEF T!Init
<1>2. Numbered({})
  BY FS_EmptySet DEF Numbered
<1>3. reader = T!Idle /\ nextToken = 1 /\ revoked = Nothing
  BY DEF T!Init
<1>4. TokenTypes
  BY <1>1, <1>2, <1>3 DEF TokenTypes, Readers, Tokens_, T!Idle
<1> QED
  BY <1>3, <1>4 DEF TokensInv, ReadSoFar, AbsenceProved, T!AbsenceProved, RevokesTheNamed, T!RevokesTheNamed, T!Idle

(* The last page ends where the tokens do.                                 *)
LEMMA PagesEnd ==
  ASSUME NEW n \in Nat, NEW cap \in Nat \ {0}, NEW p \in Nat
  PROVE  /\ (n + cap - 1) \div cap \in Nat
         /\ ~(p < (n + cap - 1) \div cap) => n <= p * cap
OBVIOUS

(* What a reader's headers say: the next page, if any, is the one after,   *)
(* and a page with something on it is called the last only if it is.       *)
LEMMA HeadersTrue ==
  ASSUME TokenTypes, reader.style \in Styles, NEW empty \in BOOLEAN
  PROVE  LET p == reader.page
             headers == T!HeadersAt(p)
         IN /\ T!NextPage(headers, p) \in {Nothing, p + 1}
            /\ T!Complete(headers, p, empty) /\ ~empty => Cardinality(Tokens_) <= p * gitea.cap
<1> DEFINE p == reader.page
           headers == T!HeadersAt(p)
           last == T!LastPage
<1>1. p \in Nat \ {0} /\ gitea.cap \in Nat \ {0} /\ Cardinality(Tokens_) \in Nat
  BY FS_CardinalityType, Constants DEF TokenTypes, Readers, Numbered
<1>2. last \in Nat /\ (~(p < last) => Cardinality(Tokens_) <= p * gitea.cap)
  BY <1>1, PagesEnd, SameOperators DEF T!LastPage, Tokens_
<1>3. ASSUME headers.links = <<>> \/ ~T!LinksFit(headers.links, p)
      PROVE  /\ T!NextPage(headers, p) = IF T!HasMore(headers) = "true" THEN p + 1 ELSE Nothing
             /\ T!Complete(headers, p, empty) =>
                  T!NextPage(headers, p) = Nothing /\ (T!HasMore(headers) = "false" \/ empty)
  <2>1. ~T!LinksFit(headers.links, p)
    BY <1>3 DEF T!LinksFit
  <2> HIDE DEF headers, p
  <2> QED
    BY <2>1 DEF T!NextPage, T!Complete
<1>4. ASSUME headers.hasMore = <<>> \/ Len(headers.hasMore) = 2
      PROVE  T!HasMore(headers) = Nothing
  BY <1>4 DEF T!HasMore
<1>5. CASE reader.style \in {"plain", "foreign", "back"}
  <2>1. headers.hasMore = <<>>
    BY <1>5 DEF T!HeadersAt
  <2>2. headers.links = <<>> \/ ~T!LinksFit(headers.links, p)
    <3>1. CASE reader.style = "plain"
      BY <3>1 DEF T!HeadersAt
    <3>2. CASE reader.style = "foreign"
      BY <3>2 DEF T!HeadersAt, T!LinksFit, T!Link
    <3>3. CASE reader.style = "back"
      BY <1>1, <3>3 DEF T!HeadersAt, T!LinksFit, T!Link
    <3> QED
      BY <1>5, <3>1, <3>2, <3>3
  <2> QED
    BY <1>3, <1>4, <2>1, <2>2, Constants
<1>6. CASE reader.style = "twice"
  <2>1. headers.links = <<>> /\ Len(headers.hasMore) = 2
    BY <1>6 DEF T!HeadersAt
  <2> QED
    BY <1>3, <1>4, <2>1, Constants
<1>7. CASE reader.style = "has more"
  <2>1. headers.links = <<>> /\ headers.hasMore = <<IF p < last THEN "true" ELSE "false">>
    BY <1>7 DEF T!HeadersAt
  <2>2. T!HasMore(headers) = IF p < last THEN "true" ELSE "false"
    BY <2>1 DEF T!HasMore
  <2> QED
    BY <1>1, <1>2, <1>3, <2>1, <2>2, Constants
<1>8. CASE reader.style = "links"
  <2> DEFINE forward == IF p < last THEN <<T!Link(TRUE, p + 1, {"next"}), T!Link(TRUE, last, {"last"})>> ELSE <<>>
             back == IF p > 1 THEN <<T!Link(TRUE, 1, {"first"}), T!Link(TRUE, p - 1, {"prev"})>> ELSE <<>>
             links == headers.links
             nexts == {i \in DOMAIN links : "next" \in links[i].relations}
  <2>1. links = forward \o back /\ headers.hasMore = <<>>
    BY <1>8 DEF T!HeadersAt
  <2>2. CASE p < last
    <3>1. 1 \in DOMAIN links /\ links[1] = T!Link(TRUE, p + 1, {"next"})
      BY <2>1, <2>2
    <3>2. T!LinksFit(links, p) => nexts = {1} /\ T!Related(links, "next") = p + 1
      BY <3>1 DEF T!LinksFit, T!Related, T!Link
    <3>3. CASE T!LinksFit(links, p)
      <4>1. p + 1 # Nothing
        BY <1>1, Constants
      <4>2. T!NextPage(headers, p) = p + 1
        BY <3>2, <3>3, <4>1 DEF T!NextPage
      <4> QED
        BY <4>1, <4>2 DEF T!Complete
    <3>4. CASE ~T!LinksFit(links, p)
      BY <1>3, <1>4, <2>1, <3>4, Constants
    <3> QED
      BY <3>3, <3>4
  <2>3. CASE ~(p < last)
    <3>1. links = back
      BY <2>1, <2>3
    <3>2. nexts = {}
      BY <3>1 DEF T!Link
    <3>3. T!Related(links, "next") = Nothing
      BY <3>2 DEF T!Related
    <3>4. T!NextPage(headers, p) = Nothing
      BY <1>4, <2>1, <3>3, Constants DEF T!NextPage
    <3> QED
      BY <1>2, <2>3, <3>4
  <2> QED
    BY <2>2, <2>3
<1> QED
  BY <1>5, <1>6, <1>7, <1>8, ClientAssumption

(* What the next page adds to what a reader has seen.                      *)
LEMMA PageAdds ==
  ASSUME TokensInv, reader.verdict = "reading"
  PROVE  LET items == T!PageAt(reader.page)
             seen == reader.seen \cup T!TokenIds(items)
         IN /\ items \in SUBSET Tokens_ /\ Cardinality(items) \in Nat
            /\ ~reader.shifted =>
                 /\ \A t \in Tokens_ : t.id \in reader.start /\ RankIn(t, Tokens_) < reader.page * gitea.cap
                                       => t.id \in seen
                 /\ (items = {} \/ Cardinality(Tokens_) <= reader.page * gitea.cap) => reader.start \subseteq seen
<1> DEFINE items == T!PageAt(reader.page)
           seen == reader.seen \cup T!TokenIds(items)
           from == (reader.page - 1) * gitea.cap
           to == reader.page * gitea.cap
<1>1. items = {t \in Tokens_ : RankIn(t, Tokens_) \in from .. to - 1} /\ items = Slice(Tokens_, from, to)
  BY SameOperators DEF T!PageAt, Slice, RankIn, Tokens_
<1>2. reader.page \in Nat \ {0} /\ gitea.cap \in Nat \ {0} /\ Numbered(Tokens_)
  BY Constants DEF TokensInv, TokenTypes, Readers
<1>3. from \in Nat /\ to \in Nat /\ from < to
  <2>1. from \in Nat /\ to \in Nat /\ to = from + gitea.cap
    BY <1>2
  <2> HIDE DEF from, to
  <2> QED
    BY <1>2, <2>1
<1> HIDE DEF from, to, items
<1>4. items \in SUBSET Tokens_ /\ Cardinality(items) \in Nat
  BY <1>1, <1>2, FS_Subset, FS_CardinalityType DEF Numbered
<1>5. \A t \in Tokens_ : RankIn(t, Tokens_) \in Nat /\ RankIn(t, Tokens_) < Cardinality(Tokens_)
                       /\ Cardinality(Tokens_) \in Nat
  BY <1>2, Ranks
<1>6. ASSUME ~reader.shifted
      PROVE  /\ reader.start \subseteq T!TokenIds(Tokens_)
             /\ \A t \in Tokens_ : t.id \in reader.start /\ RankIn(t, Tokens_) < from => t.id \in reader.seen
  BY <1>6 DEF TokensInv, ReadSoFar, from
<1>7. ASSUME ~reader.shifted, NEW t \in Tokens_, t.id \in reader.start, RankIn(t, Tokens_) < to
      PROVE  t.id \in seen
  <2>1. CASE RankIn(t, Tokens_) < from
    BY <1>6, <1>7, <2>1
  <2>2. CASE ~(RankIn(t, Tokens_) < from)
    <3>1. t \in items
      BY <1>1, <1>3, <1>5, <1>7, <2>2
    <3> QED
      BY <3>1 DEF T!TokenIds
  <2> QED
    BY <2>1, <2>2
<1>8. ASSUME ~reader.shifted, items = {} \/ Cardinality(Tokens_) <= to
      PROVE  reader.start \subseteq seen
  <2>1. \A t \in Tokens_ : RankIn(t, Tokens_) < to
    <3>1. CASE items = {}
      <4>1. Slice(Tokens_, from, to) = {}
        BY <1>1, <3>1
      <4>2. \A t \in Tokens_ : RankIn(t, Tokens_) < from
        BY <1>2, <1>3, <4>1, EmptyPage
      <4> QED
        BY <1>3, <1>5, <4>2
    <3>2. CASE Cardinality(Tokens_) <= to
      BY <1>3, <1>5, <3>2
    <3> QED
      BY <1>8, <3>1, <3>2
  <2>2. reader.start \subseteq T!TokenIds(Tokens_)
    BY <1>6, <1>8
  <2> QED
    BY <1>7, <1>8, <2>1, <2>2 DEF T!TokenIds
<1> QED
  BY <1>4, <1>7, <1>8 DEF items, to

(* A page that was read, and what its reader makes of it.                  *)
LEMMA PageKeeps ==
  ASSUME TokensInv, reader.verdict = "reading", NEW verdict,
         T!Read(T!PageAt(reader.page), verdict, reader.page + 1),
         UNCHANGED <<gitea, nextToken>>, revoked' = Nothing,
         verdict \in {"reading", "found", "absent", "refused", "bound", "complete"},
         verdict = "reading" /\ reader.is = "find" =>
           \A t \in T!PageAt(reader.page) : t.name # reader.target,
         verdict = "absent" => reader.is = "find" /\ T!PageAt(reader.page) = {},
         verdict = "complete" =>
           T!PageAt(reader.page) = {} \/ Cardinality(Tokens_) <= reader.page * gitea.cap
  PROVE  TokensInv'
<1> DEFINE items == T!PageAt(reader.page)
           seen == reader.seen \cup T!TokenIds(items)
<1>1. /\ items \in SUBSET Tokens_ /\ Cardinality(items) \in Nat
      /\ ~reader.shifted =>
           /\ \A t \in Tokens_ : t.id \in reader.start /\ RankIn(t, Tokens_) < reader.page * gitea.cap
                                 => t.id \in seen
           /\ (items = {} \/ Cardinality(Tokens_) <= reader.page * gitea.cap) => reader.start \subseteq seen
  BY PageAdds
<1>2. TokenTypes /\ ReadSoFar
  BY DEF TokensInv
<1> HIDE DEF items
<1>3. reader' = [reader EXCEPT !.seen = seen, !.count = @ + Cardinality(items), !.verdict = verdict,
                              !.page = reader.page + 1]
  BY SameOperators DEF T!Read, items
<1>4. /\ reader'.seen = seen /\ reader'.verdict = verdict /\ reader'.page = reader.page + 1
      /\ reader'.is = reader.is /\ reader'.target = reader.target /\ reader'.start = reader.start
      /\ reader'.shifted = reader.shifted /\ reader'.style = reader.style
  BY <1>2, <1>3 DEF TokenTypes, Readers
<1>5. T!TokenIds(items) \in SUBSET Nat /\ \A i \in T!TokenIds(items) : i < nextToken
  <2>1. \A t \in Tokens_ : t.id \in Nat /\ t.id < nextToken
    BY <1>2 DEF TokenTypes, Numbered
  <2> QED
    BY <1>1, <2>1 DEF T!TokenIds
<1>6. TokenTypes'
  <2>1. seen \in SUBSET Nat
    BY <1>2, <1>5 DEF TokenTypes, Readers
  <2> HIDE DEF seen
  <2>2. reader.page + 1 \in Nat \ {0} /\ reader.count + Cardinality(items) \in Nat
    BY <1>1, <1>2 DEF TokenTypes, Readers
  <2>3. reader' \in Readers
    BY <1>2, <1>3, <2>1, <2>2 DEF TokenTypes, Readers
  <2> QED
    BY <1>2, <2>3 DEF TokenTypes, Tokens_
<1>7. reader.is = "find" => \A t \in Tokens_ : t.id \in reader.seen => t.name # reader.target
  BY <1>2 DEF ReadSoFar
<1>8. ReadSoFar'
  <2> SUFFICES ASSUME verdict = "reading"
               PROVE  ReadSoFar'
    BY <1>4 DEF ReadSoFar
  <2>1. /\ \A i \in reader.start \cup seen : i < nextToken
        /\ reader.is = "list" => reader.style \in Styles
        /\ ~reader.shifted => reader.start \subseteq T!TokenIds(Tokens_)
    BY <1>2, <1>5 DEF ReadSoFar
  <2>2. reader.is = "find" => \A t \in Tokens_ : t.id \in seen => t.name # reader.target
    <3>1. \A t \in Tokens_ : t.id \in T!TokenIds(items) => t \in items
      BY <1>1, <1>2 DEF TokenTypes, Numbered, T!TokenIds
    <3> QED
      BY <1>7, <3>1 DEF items
  <2>3. reader'.page - 1 = reader.page
    BY <1>2, <1>4 DEF TokenTypes, Readers
  <2>4. Tokens_' = Tokens_ /\ gitea' = gitea /\ nextToken' = nextToken
    BY DEF Tokens_
  <2>5. ~reader.shifted =>
          \A t \in Tokens_ : t.id \in reader.start /\ RankIn(t, Tokens_) < (reader'.page - 1) * gitea.cap
                            => t.id \in seen
    BY <1>1, <2>3
  <2> HIDE DEF seen
  <2>6. \A i \in reader'.start \cup reader'.seen : i < nextToken
    BY <1>4, <2>1
  <2>7. reader'.is = "list" => reader'.style \in Styles
    BY <1>4, <2>1
  <2>8. ~reader'.shifted =>
          /\ reader'.start \subseteq T!TokenIds(Tokens_)
          /\ \A t \in Tokens_ :
               t.id \in reader'.start /\ RankIn(t, Tokens_) < (reader'.page - 1) * gitea.cap => t.id \in reader'.seen
    BY <1>4, <2>1, <2>5
  <2>9. reader'.is = "find" => \A t \in Tokens_ : t.id \in reader'.seen => t.name # reader'.target
    BY <1>4, <2>2
  <2> QED
    BY <2>4, <2>6, <2>7, <2>8, <2>9 DEF ReadSoFar
<1>9. AbsenceProved'
  <2>1. verdict \in {"absent", "complete"} /\ ~reader.shifted => reader.start \subseteq seen
    BY <1>1 DEF items
  <2>2. verdict = "absent" => seen = reader.seen /\ reader.is = "find"
    BY DEF items, T!TokenIds
  <2> HIDE DEF seen
  <2> QED
    BY <1>4, <1>7, <2>1, <2>2 DEF AbsenceProved, T!AbsenceProved, Tokens_
<1>10. RevokesTheNamed'
  BY DEF RevokesTheNamed, T!RevokesTheNamed
<1> QED
  BY <1>6, <1>8, <1>9, <1>10 DEF TokensInv

LEMMA FindPageKeeps == TokensInv /\ T!FindPage => TokensInv'
<1> SUFFICES ASSUME TokensInv, T!FindPage PROVE TokensInv'
  OBVIOUS
<1> DEFINE items == T!PageAt(reader.page)
           found == \E t \in items : t.name = reader.target
           verdict == IF T!Cardinality(items) > MaxResults THEN "refused"
                      ELSE IF T!Exhausted(items) /\ ~found THEN "absent"
                      ELSE IF found THEN "found"
                      ELSE IF reader.page = MaxPages THEN "bound" ELSE "reading"
<1>1. /\ reader.is = "find" /\ reader.verdict = "reading"
      /\ T!Read(items, verdict, reader.page + 1)
      /\ UNCHANGED <<gitea, nextToken>> /\ revoked' = Nothing
  BY DEF T!FindPage, T!Reading
<1>2. verdict \in {"reading", "found", "absent", "refused", "bound", "complete"} /\ verdict # "complete"
  OBVIOUS
<1>3. verdict = "reading" => \A t \in items : t.name # reader.target
  OBVIOUS
<1>4. verdict = "absent" => items = {}
  BY DEF T!Exhausted
<1> HIDE DEF verdict
<1> QED
  BY <1>1, <1>2, <1>3, <1>4, PageKeeps

LEMMA LoadPageKeeps == TokensInv /\ T!LoadPage => TokensInv'
<1> SUFFICES ASSUME TokensInv, T!LoadPage PROVE TokensInv'
  OBVIOUS
<1> DEFINE items == T!PageAt(reader.page)
           verdict == IF T!Exhausted(items) THEN "complete"
                      ELSE IF reader.count + T!Cardinality(items) > MaxItems \/ reader.page = MaxItems + 1 THEN "bound"
                      ELSE "reading"
<1>1. /\ reader.is = "load" /\ reader.verdict = "reading"
      /\ T!Read(items, verdict, reader.page + 1)
      /\ UNCHANGED <<gitea, nextToken>> /\ revoked' = Nothing
  BY DEF T!LoadPage, T!Reading
<1>2. /\ verdict \in {"reading", "found", "absent", "refused", "bound", "complete"} /\ verdict # "absent"
      /\ verdict = "complete" => items = {}
  BY DEF T!Exhausted
<1> HIDE DEF verdict
<1> QED
  BY <1>1, <1>2, PageKeeps

LEMMA ListPageKeeps == TokensInv /\ T!ListPage => TokensInv'
<1> SUFFICES ASSUME TokensInv, T!ListPage PROVE TokensInv'
  OBVIOUS
<1> DEFINE items == T!PageAt(reader.page)
           headers == T!HeadersAt(reader.page)
           next == T!NextPage(headers, reader.page)
           verdict == IF T!Cardinality(items) > MaxResults THEN "refused"
                      ELSE IF T!Complete(headers, reader.page, items = {}) THEN "complete" ELSE "reading"
<1>1. /\ reader.is = "list" /\ reader.verdict = "reading"
      /\ T!Read(items, verdict, IF next = Nothing THEN reader.page + 1 ELSE next)
      /\ UNCHANGED <<gitea, nextToken>> /\ revoked' = Nothing
  BY DEF T!ListPage, T!Reading
<1>2. TokenTypes /\ reader.style \in Styles
  BY <1>1 DEF TokensInv, ReadSoFar
<1>3. /\ next \in {Nothing, reader.page + 1}
      /\ T!Complete(headers, reader.page, items = {}) => items = {} \/ Cardinality(Tokens_) <= reader.page * gitea.cap
  BY <1>2, HeadersTrue
<1>4. /\ verdict \in {"reading", "found", "absent", "refused", "bound", "complete"} /\ verdict # "absent"
      /\ verdict = "complete" => items = {} \/ Cardinality(Tokens_) <= reader.page * gitea.cap
  BY <1>3
<1>5. T!Read(items, verdict, reader.page + 1)
  BY <1>1, <1>3
<1> HIDE DEF verdict
<1> QED
  BY <1>1, <1>4, <1>5, PageKeeps

LEMMA StartKeeps ==
  ASSUME TokensInv, NEW is \in {"find", "load", "list"}, NEW target \in TokenNames \cup {Nothing},
         NEW style \in Styles \cup {Nothing}, is = "list" => style \in Styles, T!Start(is, target, style)
  PROVE  TokensInv'
<1>1. /\ reader' = [is |-> is, page |-> 1, seen |-> {}, count |-> 0, target |-> target, verdict |-> "reading",
                    style |-> style, start |-> T!TokenIds(Tokens_), shifted |-> FALSE]
      /\ UNCHANGED <<gitea, nextToken>> /\ revoked' = Nothing
  BY DEF T!Start, T!Idle, Tokens_
<1>2. Tokens_' = Tokens_ /\ TokenTypes
  BY <1>1 DEF Tokens_, TokensInv
<1>3. T!TokenIds(Tokens_) \in SUBSET Nat /\ \A i \in T!TokenIds(Tokens_) : i < nextToken
  BY <1>2 DEF TokenTypes, Numbered, T!TokenIds
<1>4. TokenTypes'
  BY <1>1, <1>2, <1>3 DEF TokenTypes, Readers
<1>5. ReadSoFar'
  <2>1. \A t \in Tokens_ : ~(RankIn(t, Tokens_) < (1 - 1) * gitea.cap)
    <3>1. \A t \in Tokens_ : RankIn(t, Tokens_) \in Nat
      BY <1>2, Ranks DEF TokenTypes
    <3>2. gitea.cap \in Nat
      BY <1>2, Constants DEF TokenTypes
    <3> QED
      BY <3>1, <3>2
  <2> QED
    BY <1>1, <1>2, <1>3, <2>1 DEF ReadSoFar
<1> QED
  BY <1>1, <1>4, <1>5 DEF TokensInv, AbsenceProved, T!AbsenceProved, RevokesTheNamed, T!RevokesTheNamed

(* A new token, whoever made it, stands before all others.                 *)
LEMMA AddedKeeps ==
  ASSUME TokensInv, NEW name \in TokenNames, name \notin {t.name : t \in gitea.tokens}, T!Added(name),
         revoked' = Nothing, reader' = T!Kept
  PROVE  TokensInv'
<1> DEFINE new == [id |-> nextToken, name |-> name]
<1>1. TokenTypes /\ ReadSoFar
  BY DEF TokensInv
<1>2. /\ gitea' = [gitea EXCEPT !.tokens = Tokens_ \cup {new}] /\ Tokens_' = Tokens_ \cup {new}
      /\ gitea'.cap = gitea.cap /\ nextToken' = nextToken + 1
  BY <1>1 DEF T!Added, TokenTypes, Tokens_
<1>3. Tokens_ \in SUBSET [id : Nat, name : TokenNames] /\ nextToken \in Nat /\ \A t \in Tokens_ : t.id < nextToken
  BY <1>1 DEF TokenTypes, Tokens_
<1>4. Numbered(Tokens_ \cup {new})
  BY <1>1, <1>3, NumberedChanges DEF TokenTypes
<1>5. reader' = IF reader.verdict = "reading" THEN reader ELSE T!Idle
  BY DEF T!Kept
<1>6. TokenTypes'
  <2>1. gitea' \in [tokens : SUBSET [id : Nat, name : TokenNames], cap : Caps]
    BY <1>1, <1>2, <1>3 DEF TokenTypes, Readers
  <2>2. \A t \in Tokens_' : t.id < nextToken'
    BY <1>2, <1>3
  <2>3. \A t, u \in Tokens_' : t.name = u.name => t = u
    BY <1>1, <1>2 DEF TokenTypes, Tokens_
  <2>4. reader' \in Readers
    BY <1>1, <1>5 DEF TokenTypes, Readers, T!Idle
  <2> QED
    BY <1>2, <1>3, <1>4, <2>1, <2>2, <2>3, <2>4 DEF TokenTypes
<1>7. ReadSoFar'
  <2> SUFFICES ASSUME reader.verdict = "reading"
               PROVE  ReadSoFar'
    BY <1>5 DEF ReadSoFar, T!Idle
  <2>1. reader' = reader
    BY <1>5
  <2>2. \A i \in reader.start \cup reader.seen : i < nextToken /\ i \in Nat
    BY <1>1 DEF ReadSoFar, TokenTypes, Readers
  <2>3. new.id \notin reader.start /\ new.id \notin reader.seen
    BY <1>3, <2>2
  <2>4. ASSUME NEW t \in Tokens_
        PROVE  RankIn(t, Tokens_) <= RankIn(t, Tokens_ \cup {new})
               /\ RankIn(t, Tokens_) \in Nat /\ RankIn(t, Tokens_ \cup {new}) \in Nat
    <3>1. Newer(t, Tokens_) \in SUBSET Newer(t, Tokens_ \cup {new})
      BY DEF Newer
    <3>2. Newer(t, Tokens_ \cup {new}) \in SUBSET (Tokens_ \cup {new})
      BY DEF Newer
    <3>3. IsFiniteSet(Newer(t, Tokens_ \cup {new}))
      BY <1>4, <3>2, FS_Subset DEF Numbered
    <3> QED
      BY <1>1, <1>4, <3>1, <3>3, FS_Subset, Ranks DEF RankIn, TokenTypes
  <2>5. ~reader.shifted =>
          \A t \in Tokens_ \cup {new} :
            t.id \in reader.start /\ RankIn(t, Tokens_ \cup {new}) < (reader.page - 1) * gitea.cap => t.id \in reader.seen
    <3>1. (reader.page - 1) * gitea.cap \in Int
      BY <1>1, Constants DEF TokenTypes, Readers
    <3> DEFINE bound == (reader.page - 1) * gitea.cap
    <3>2. ~reader.shifted =>
            \A t \in Tokens_ : t.id \in reader.start /\ RankIn(t, Tokens_) < bound => t.id \in reader.seen
      BY <1>1 DEF ReadSoFar
    <3> HIDE DEF bound
    <3>3. \A t \in Tokens_ : RankIn(t, Tokens_ \cup {new}) < bound => RankIn(t, Tokens_) < bound
      BY <2>4, <3>1 DEF bound
    <3> QED
      BY <2>3, <3>2, <3>3 DEF bound
  <2>6. ~reader.shifted => reader.start \subseteq T!TokenIds(Tokens_ \cup {new})
    BY <1>1 DEF ReadSoFar, T!TokenIds
  <2>7. reader.is = "find" => \A t \in Tokens_ \cup {new} : t.id \in reader.seen => t.name # reader.target
    BY <1>1, <2>3 DEF ReadSoFar
  <2>8. reader.is = "list" => reader.style \in Styles
    BY <1>1 DEF ReadSoFar
  <2>9. \A i \in reader.start \cup reader.seen : i < nextToken + 1
    BY <1>3, <2>2
  <2> HIDE DEF new
  <2> QED
    BY <1>2, <2>1, <2>5, <2>6, <2>7, <2>8, <2>9 DEF ReadSoFar
<1> QED
  BY <1>5, <1>6, <1>7
     DEF TokensInv, AbsenceProved, T!AbsenceProved, RevokesTheNamed, T!RevokesTheNamed, T!Idle

(* A revocation: what one selector names is one token, if any.             *)
LEMMA DeletedIsNamed ==
  ASSUME TokenTypes,
         NEW id \in {Nothing, Null_} \cup {Number[n].value : n \in DOMAIN Number},
         NEW name \in {Nothing, Null_} \cup TokenNames,
         T!Selected(id, name) # Nothing, NEW gone, gone = T!Deleted(T!Writes(T!Selected(id, name)))
  PROVE  /\ gone \in SUBSET Tokens_ /\ Cardinality(gone) <= 1
         /\ \A t \in gone : (id = t.id /\ name = Nothing) \/ (name = t.name /\ id = Nothing)
<1>1. gone \in SUBSET Tokens_
  BY DEF T!Deleted, Tokens_
<1>2. ASSUME id # Nothing
      PROVE  name = Nothing /\ \A t \in gone : t.id = id
  <2>1. T!Selected(id, name) = [id |-> id] /\ name = Nothing /\ id # Null_
    BY <1>2 DEF T!Selected
  <2>2. T!Writes([id |-> id]) =
          CHOOSE text \in DOMAIN Number : ~Number[text].signed /\ Number[text].value = id
    BY DEF T!Writes
  <2>3. \E text \in DOMAIN Number : ~Number[text].signed /\ Number[text].value = id
    BY <1>2, <2>1, ClientAssumption
  <2>4. T!Writes([id |-> id]) \in DOMAIN Number /\ Number[T!Writes([id |-> id])].value = id
    BY <2>2, <2>3
  <2>5. \A t \in gone : t.id = id
    BY <2>1, <2>4 DEF T!Deleted
  <2> QED
    BY <2>1, <2>5
<1>3. ASSUME id = Nothing
      PROVE  \A t \in gone : t.name = name
  <2>1. T!Selected(id, name) = [name |-> name] /\ T!ValidTokenName(name)
    BY <1>3 DEF T!Selected
  <2>2. T!Writes([name |-> name]) = name
    BY DEF T!Writes
  <2> QED
    BY <2>1, <2>2 DEF T!Deleted, T!ValidTokenName
<1>4. ASSUME NEW t \in gone, NEW u \in gone
      PROVE  t = u
  <2>1. t \in Tokens_ /\ u \in Tokens_
    BY <1>1
  <2>2. t.id = u.id \/ t.name = u.name
    BY <1>2, <1>3
  <2> QED
    BY <2>1, <2>2 DEF TokenTypes, Numbered
<1>5. Cardinality(gone) <= 1
  <2>1. CASE gone = {}
    BY <2>1, FS_EmptySet
  <2>2. CASE gone # {}
    <3>1. PICK t : gone = {t}
      BY <1>4, <2>2
    <3> QED
      <4>1. Cardinality({t}) = 1
        BY FS_Singleton
      <4> QED
        BY <3>1, <4>1
  <2> QED
    BY <2>1, <2>2
<1>6. \A t \in gone : (id = t.id /\ name = Nothing) \/ (name = t.name /\ id = Nothing)
  BY <1>2, <1>3
<1> QED
  BY <1>1, <1>5, <1>6

LEMMA RevokeKeeps == TokensInv /\ T!Revoke => TokensInv'
<1> SUFFICES ASSUME TokensInv, T!Revoke PROVE TokensInv'
  OBVIOUS
<1>1. PICK id \in {Nothing, Null_} \cup {Number[n].value : n \in DOMAIN Number},
           name \in {Nothing, Null_} \cup TokenNames :
        LET selector == T!Selected(id, name)
            gone == T!Deleted(T!Writes(selector))
        IN /\ selector # Nothing
           /\ gitea' = [gitea EXCEPT !.tokens = @ \ gone]
           /\ revoked' = [id |-> id, name |-> name, gone |-> gone]
           /\ reader' = [T!Kept EXCEPT !.shifted = TRUE]
  BY DEF T!Revoke
<1> DEFINE gone == T!Deleted(T!Writes(T!Selected(id, name)))
<1>2. TokenTypes /\ ReadSoFar
  BY DEF TokensInv
<1>3. /\ gone \in SUBSET Tokens_ /\ Cardinality(gone) <= 1
      /\ \A t \in gone : (id = t.id /\ name = Nothing) \/ (name = t.name /\ id = Nothing)
  BY <1>1, <1>2, DeletedIsNamed
<1>4. /\ gitea' = [gitea EXCEPT !.tokens = Tokens_ \ gone] /\ revoked' = [id |-> id, name |-> name, gone |-> gone]
      /\ reader' = [T!Kept EXCEPT !.shifted = TRUE] /\ nextToken' = nextToken
  BY <1>1 DEF Tokens_, T!Revoke
<1> HIDE DEF gone
<1>5. Tokens_' = Tokens_ \ gone /\ gitea'.cap = gitea.cap
  BY <1>2, <1>4 DEF TokenTypes, Tokens_
<1>6. /\ reader'.shifted = TRUE
      /\ reader.verdict # "reading" => reader'.verdict = "none"
      /\ reader.verdict = "reading" => reader' = [reader EXCEPT !.shifted = TRUE]
  BY <1>2, <1>4 DEF T!Kept, T!Idle, TokenTypes, Readers
<1>7. TokenTypes'
  <2>1. gitea' \in [tokens : SUBSET [id : Nat, name : TokenNames], cap : Caps]
    BY <1>2, <1>4 DEF TokenTypes, Tokens_
  <2>2. Numbered(Tokens_ \ gone)
    BY <1>2, NumberedChanges DEF TokenTypes
  <2>3. reader' \in Readers
    <3>1. T!Kept \in Readers
      BY <1>2 DEF TokenTypes, Readers, T!Idle, T!Kept
    <3> QED
      BY <1>4, <3>1 DEF Readers
  <2> QED
    BY <1>2, <1>4, <1>5, <2>1, <2>2, <2>3 DEF TokenTypes
<1>8. ReadSoFar'
  <2> SUFFICES ASSUME reader.verdict = "reading"
               PROVE  ReadSoFar'
    BY <1>6 DEF ReadSoFar
  <2>1. /\ reader'.start = reader.start /\ reader'.seen = reader.seen /\ reader'.is = reader.is
        /\ reader'.style = reader.style /\ reader'.target = reader.target
    BY <1>2, <1>6 DEF TokenTypes, Readers
  <2> QED
    BY <1>2, <1>4, <1>5, <1>6, <2>1 DEF ReadSoFar
<1>9. AbsenceProved'
  BY <1>6 DEF AbsenceProved, T!AbsenceProved
<1>10. RevokesTheNamed'
  <2>1. revoked'.gone = gone /\ revoked'.id = id /\ revoked'.name = name
    BY <1>4
  <2> QED
    BY <1>3, <2>1, SameOperators DEF RevokesTheNamed, T!RevokesTheNamed
<1> QED
  BY <1>7, <1>8, <1>9, <1>10 DEF TokensInv

LEMMA TokensKeep == TokensInv /\ [T!Next]_(T!vars) => TokensInv'
<1> SUFFICES ASSUME TokensInv, [T!Next]_(T!vars) PROVE TokensInv'
  OBVIOUS
<1>1. CASE T!StartFind
  <2>1. PICK name \in TokenNames : T!Start("find", name, Nothing)
    BY <1>1 DEF T!StartFind
  <2> QED
    BY <2>1, StartKeeps
<1>2. CASE T!StartLoad
  BY <1>2, StartKeeps DEF T!StartLoad
<1>3. CASE T!StartList
  <2>1. PICK style \in Styles : T!Start("list", Nothing, style)
    BY <1>3 DEF T!StartList
  <2> QED
    BY <2>1, StartKeeps
<1>4. CASE T!PageFails
  <2>1. reader' = [T!Idle EXCEPT !.verdict = "failed"] /\ UNCHANGED <<gitea, nextToken>> /\ revoked' = Nothing
    BY <1>4 DEF T!PageFails
  <2>2. TokenTypes'
    <3>1. reader' \in Readers
      <4>1. reader' = [is |-> "idle", page |-> 1, seen |-> {}, count |-> 0, target |-> Nothing, verdict |-> "failed",
                       style |-> Nothing, start |-> {}, shifted |-> FALSE]
        BY <2>1 DEF T!Idle
      <4> QED
        BY <4>1 DEF Readers
    <3> QED
      BY <2>1, <3>1 DEF TokensInv, TokenTypes, Tokens_
  <2> QED
    BY <2>1, <2>2 DEF TokensInv, ReadSoFar, AbsenceProved, T!AbsenceProved, RevokesTheNamed, T!RevokesTheNamed, T!Idle
<1>5. CASE T!Create \/ T!CreateElsewhere
  <2>1. PICK name \in TokenNames : name \notin {t.name : t \in gitea.tokens} /\ T!Added(name)
    BY <1>5 DEF T!Create, T!CreateElsewhere
  <2>2. revoked' = Nothing /\ reader' = T!Kept
    BY <1>5 DEF T!Create, T!CreateElsewhere
  <2> QED
    BY <2>1, <2>2, AddedKeeps
<1>6. CASE UNCHANGED T!vars
  <2>1. UNCHANGED <<gitea, nextToken, reader, revoked>>
    BY <1>6 DEF T!vars
  <2> QED
    BY <2>1 DEF TokensInv, TokenTypes, Readers, ReadSoFar, AbsenceProved, T!AbsenceProved, RevokesTheNamed,
                T!RevokesTheNamed, Tokens_
<1> QED
  BY <1>1, <1>2, <1>3, <1>4, <1>5, <1>6, FindPageKeeps, LoadPageKeeps, ListPageKeeps, RevokeKeeps DEF T!Next
-----------------------------------------------------------------------------
(* A client that may do any of these *)

ClientInv == ListingInv /\ TokensInv /\ SurfaceInv

LEMMA ClientInitially == ClientInit => ClientInv
  BY ListingInit, TokensInit, SurfaceInit DEF ClientInit, ClientInv

(* What a client does with one part leaves the others as they were.        *)
LEMMA ListingLeft ==
  ASSUME ListingInv, UNCHANGED listing
  PROVE  ListingInv'
<1>1. UNCHANGED <<order, nextId, walk, present>>
  BY DEF listing
<1> QED
  BY <1>1, DroppingKeeps

LEMMA TokensLeft ==
  ASSUME TokensInv, UNCHANGED tokens
  PROVE  TokensInv'
<1>1. UNCHANGED T!vars
  BY DEF tokens, T!vars
<1> QED
  BY <1>1, TokensKeep

LEMMA ClientKeeps ==
  ClientInv /\ [ClientNext]_<<doing, vars, listing, tokens, refusal>> =>
    /\ ClientInv'
    /\ \A w \in Walks : walk'[w].at = "done" /\ walk[w].at # "done" => AllShown(w)'
<1> SUFFICES ASSUME ClientInv, [ClientNext]_<<doing, vars, listing, tokens, refusal>>
             PROVE  /\ ClientInv'
                    /\ \A w \in Walks : walk'[w].at = "done" /\ walk[w].at # "done" => AllShown(w)'
  OBVIOUS
<1>1. CASE Lists
  <2>1. L!Next /\ UNCHANGED tokens
    BY <1>1 DEF Lists
  <2> QED
    BY <1>1, <2>1, ListingKeeps, TokensLeft, SurfaceKeeps DEF ClientInv, Lists
<1>2. ASSUME UNCHANGED listing
      PROVE  ListingInv' /\ UNCHANGED walk
  BY <1>2, ListingLeft DEF ClientInv, listing
<1>3. CASE Looks
  <2>1. T!Next /\ UNCHANGED listing
    BY <1>3 DEF Looks
  <2> QED
    BY <1>2, <1>3, <2>1, TokensKeep, SurfaceKeeps DEF ClientInv, Looks
<1>4. CASE UNCHANGED <<listing, tokens>> /\ [Next]_vars
  BY <1>2, <1>4, TokensLeft, SurfaceKeeps DEF ClientInv
<1>5. CASE Tools \/ Refused \/ UNCHANGED <<doing, vars, listing, tokens, refusal>>
  BY <1>4, <1>5 DEF Tools, Refused
<1> QED
  BY <1>1, <1>3, <1>5 DEF ClientNext

(* What makes the walks, the readers of tokens and the chains of calls     *)
(* correct holds in every state of a client that does any of them.         *)
THEOREM ClientInvariant == ClientSpec => []ClientInv
  BY ClientInitially, ClientKeeps, PTL DEF ClientSpec

(* A walk of the retained payloads that has ended showed every payload that*)
(* was there when it began and still is, and unless it began again, nothing*)
(* twice (page_at, expire, insert_at, list_resources_page).                *)
THEOREM WalksMissNothing == ClientSpec => NothingMissed
<1>1. ClientInv /\ [ClientNext]_<<doing, vars, listing, tokens, refusal>> =>
        [\A w \in Walks :
           walk'[w].at = "done" /\ walk[w].at # "done" =>
             LET shown == walk'[w].shown
             IN /\ present'[w] \cap L!Ids(order') \subseteq UNION {shown[i] : i \in DOMAIN shown}
                /\ walk'[w].restarted \/ \A i, j \in DOMAIN shown :
                                         i < j => \A a \in shown[i], b \in shown[j] : a > b]_(L!vars)
  BY ClientKeeps DEF AllShown, ShownTo
<1> QED
  BY <1>1, ClientInvariant, PTL DEF ClientSpec, NothingMissed, L!NothingMissed

(* The end of a list of tokens proves that a name is absent and that an    *)
(* inventory is whole, whatever styles of headers Gitea's pages carry      *)
(* (find_access_token, load_inventory, Pagination).                        *)
THEOREM EndProvesAbsence == ClientSpec => []AbsenceProved
  BY ClientInvariant, PTL DEF ClientInv, TokensInv

(* A revocation deletes at most the token its one selector names, though   *)
(* Gitea takes a number for an identifier and anything else for a name     *)
(* (RevokeTokenArguments, TokenLifecycleClient::revoke).                   *)
THEOREM RevocationNamesOne == ClientSpec => []RevokesTheNamed
  BY ClientInvariant, PTL DEF ClientInv, TokensInv

(* A lane call that leaves for Gitea keeps the risk its lane announced,    *)
(* whatever else the client may be doing (lane_for, resolve).              *)
THEOREM ClientLanesKeepRisk == ClientSpec => []LaneKeepsRisk
  BY ClientInvariant, SentAsHinted, PTL DEF ClientInv, SurfaceInv

(* What a refusal points such a client to is what bears the name it gave or*)
(* replaces it (describe_operation, invoke_tool).                          *)
THEOREM ClientGuidanceIsTrue == ClientSpec => []GuidanceLeadsHome
  BY ClientInvariant, GuidedHome, PTL DEF ClientInv, SurfaceInv

(* A search such a client paged to its end has shown every row that        *)
(* matches (search_tools, next_offset).                                    *)
THEOREM ClientSearchesShowAll == ClientSpec => []SearchShowsAll
  BY ClientInvariant, PagedToTheEnd, PTL DEF ClientInv, SurfaceInv
-----------------------------------------------------------------------------
(* Sequences put together *)

Flat(q, n, f) == [i \in 1 .. n |-> IF i = 1 THEN q[i] ELSE f[i - 1] \o q[i]]

(* The folds of FlattenSeq exist.                                          *)
LEMMA FlatExists ==
  ASSUME NEW q, NEW n \in Nat
  PROVE  \E f : f = Flat(q, n, f)
<1> DEFINE Bad == {k \in Nat : ~ \E f : f = Flat(q, k, f)}
<1>1. ASSUME Bad # {}
      PROVE  FALSE
  <2>1. PICK m \in Bad : \A k \in Bad : m <= k
    BY <1>1, LeastNatural
  <2>2. m \in Nat /\ ~ \E f : f = Flat(q, m, f)
    BY <2>1
  <2>3. m # 0
    <3>1. [i \in 1 .. 0 |-> q] = Flat(q, 0, [i \in 1 .. 0 |-> q])
      BY DEF Flat
    <3> QED
      BY <2>2, <3>1
  <2>4. m - 1 \in Nat /\ ~ (m <= m - 1)
    BY <2>2, <2>3
  <2>5. m - 1 \notin Bad
    BY <2>1, <2>4
  <2>6. PICK f : f = Flat(q, m - 1, f)
    BY <2>4, <2>5, Zenon
  <2> DEFINE g == [i \in 1 .. m |-> IF i = m THEN IF m = 1 THEN q[m] ELSE f[m - 1] \o q[m] ELSE f[i]]
  <2>7. ASSUME NEW i \in 1 .. m
        PROVE  g[i] = Flat(q, m, g)[i]
    <3>1. i # 1 => g[i - 1] = f[i - 1]
      BY <2>2
    <3>2. Flat(q, m, g)[i] = IF i = 1 THEN q[i] ELSE g[i - 1] \o q[i]
      BY DEF Flat
    <3>3. CASE i = m
      BY <3>1, <3>2, <3>3
    <3>4. CASE i # m
      <4>1. i \in 1 .. (m - 1) /\ g[i] = f[i]
        BY <2>2, <3>4
      <4>2. f[i] = IF i = 1 THEN q[i] ELSE f[i - 1] \o q[i]
        BY <2>6, <4>1 DEF Flat
      <4> HIDE DEF g
      <4> QED
        BY <3>1, <3>2, <4>1, <4>2
    <3> QED
      BY <3>3, <3>4
  <2>8. g = Flat(q, m, g)
    BY <2>7 DEF Flat
  <2> QED
    BY <2>2, <2>8
<1> QED
  BY <1>1

Agree(q, p, n) == \A i \in 1 .. n : p[i] = q[i]
IsFlat(f, q, n) == f = Flat(q, n, f)
Extends(q, p, n) == Len(q) = n /\ Len(p) = n + 1 /\ Agree(q, p, n)

(* What is put together of a beginning does not depend on the rest.        *)
LEMMA FlatAgree ==
  ASSUME NEW q, NEW p, NEW n \in Nat, Agree(q, p, n),
         NEW f, IsFlat(f, q, n), NEW g, IsFlat(g, p, n + 1)
  PROVE  Agree(f, g, n)
<1> DEFINE Bad == {i \in 1 .. n : g[i] # f[i]}
<1>1. ASSUME Bad # {}
      PROVE  FALSE
  <2>0. Bad \in SUBSET Nat
    OBVIOUS
  <2>1. PICK k \in Bad : \A i \in Bad : k <= i
    <3> HIDE DEF Bad
    <3> QED
      BY <1>1, <2>0, LeastNatural
  <2>2. k \in 1 .. n /\ k \in 1 .. (n + 1) /\ g[k] # f[k]
    BY <2>1
  <2>3. /\ f[k] = IF k = 1 THEN q[k] ELSE f[k - 1] \o q[k]
        /\ g[k] = IF k = 1 THEN p[k] ELSE g[k - 1] \o p[k]
    BY <2>2 DEF IsFlat, Flat
  <2>4. p[k] = q[k]
    BY <2>2 DEF Agree
  <2>5. k # 1 => k - 1 \in 1 .. n /\ ~ (k <= k - 1)
    BY <2>2
  <2>6. k # 1 => g[k - 1] = f[k - 1]
    BY <2>1, <2>5
  <2> QED
    BY <2>2, <2>3, <2>6, <2>4
<1> QED
  BY <1>1 DEF Agree

LEMMA FlattenIs ==
  ASSUME NEW n \in Nat, NEW q, Len(q) = n
  PROVE  \E f : IsFlat(f, q, n) /\ (n # 0 => FlattenSeq(q) = f[n])
<1> DEFINE f == CHOOSE h : h = Flat(q, n, h)
<1>1. \E h : h = Flat(q, n, h)
  BY FlatExists
<1>2. f = Flat(q, n, f)
  BY <1>1, Zenon
<1>3. n # 0 => FlattenSeq(q) = f[n]
  BY Zenon DEF FlattenSeq, Flat
<1> HIDE DEF f
<1>4. IsFlat(f, q, n)
  BY <1>2 DEF IsFlat
<1> QED
  BY <1>3, <1>4, Zenon

(* One more sequence comes after the others.                               *)
LEMMA FlattenGrows ==
  ASSUME NEW n \in Nat, NEW q, NEW p, Extends(q, p, n)
  PROVE  FlattenSeq(p) = IF n = 0 THEN p[1] ELSE FlattenSeq(q) \o p[n + 1]
<1>1. Len(q) = n /\ Len(p) = n + 1 /\ Agree(q, p, n)
  BY DEF Extends
<1>2. n + 1 \in Nat /\ n + 1 # 0
  OBVIOUS
<1>3. PICK f : IsFlat(f, q, n) /\ (n # 0 => FlattenSeq(q) = f[n])
  BY <1>1, FlattenIs, Zenon
<1>4. PICK g : IsFlat(g, p, n + 1) /\ FlattenSeq(p) = g[n + 1]
  BY <1>1, <1>2, FlattenIs, Zenon
<1>5. g[n + 1] = IF n = 0 THEN p[1] ELSE g[n] \o p[n + 1]
  <2>1. n + 1 \in 1 .. (n + 1) /\ (n + 1) - 1 = n /\ (n + 1 = 1 <=> n = 0)
    OBVIOUS
  <2>2. Flat(p, n + 1, g)[n + 1] = IF n + 1 = 1 THEN p[n + 1] ELSE g[(n + 1) - 1] \o p[n + 1]
    BY <2>1, Zenon DEF Flat
  <2> QED
    BY <1>4, <2>1, <2>2 DEF IsFlat
<1>6. Agree(f, g, n)
  BY <1>1, <1>3, <1>4, FlatAgree, Zenon
<1>7. n # 0 => g[n] = f[n]
  BY <1>6 DEF Agree
<1> QED
  BY <1>3, <1>4, <1>5, <1>7

(* The first of a sequence of sequences, put together one by one.          *)
FirstOf(q, k) == [i \in 1 .. k |-> q[i]]
Joined(q, k) == FlattenSeq(FirstOf(q, k))

LEMMA JoinedStep ==
  ASSUME NEW S, NEW n \in Nat, NEW q \in [1 .. n -> Seq(S)], NEW k \in Nat, k < n
  PROVE  /\ Joined(q, 0) = <<>>
         /\ Joined(q, k + 1) = Joined(q, k) \o q[k + 1]
<1>1. FirstOf(q, 0) = <<>>
  BY DEF FirstOf
<1>2. Joined(q, 0) = <<>>
  BY <1>1 DEF Joined, FlattenSeq
<1>3. Extends(FirstOf(q, k), FirstOf(q, k + 1), k)
  BY DEF Extends, Agree, FirstOf
<1>4. FlattenSeq(FirstOf(q, k + 1)) = IF k = 0 THEN FirstOf(q, k + 1)[1] ELSE FlattenSeq(FirstOf(q, k)) \o FirstOf(q, k + 1)[k + 1]
  BY <1>3, FlattenGrows, Zenon
<1>5. FirstOf(q, k + 1)[k + 1] = q[k + 1]
  BY DEF FirstOf
<1>6. k = 0 => <<>> \o q[k + 1] = q[k + 1]
  <2>1. k + 1 \in 1 .. n
    OBVIOUS
  <2> QED
    BY <2>1
<1> QED
  <2>1. CASE k = 0
    <3>1. k + 1 = 1
      BY <2>1
    <3>2. Joined(q, 0) \o q[k + 1] = q[k + 1]
      BY <1>2, <1>6, <2>1
    <3> QED
      BY <1>2, <1>4, <1>5, <2>1, <3>1, <3>2 DEF Joined
  <2>2. CASE k # 0
    BY <1>2, <1>4, <1>5, <2>2 DEF Joined
  <2> QED
    BY <2>1, <2>2

(* What is put together is of the things the sequences hold.               *)
LEMMA JoinedType ==
  ASSUME NEW S, NEW n \in Nat, NEW q \in [1 .. n -> Seq(S)]
  PROVE  \A k \in 0 .. n : Joined(q, k) \in Seq(S)
<1> DEFINE Bad == {k \in 0 .. n : Joined(q, k) \notin Seq(S)}
<1>1. ASSUME Bad # {}
      PROVE  FALSE
  <2>0. Bad \in SUBSET Nat
    OBVIOUS
  <2>1. PICK m \in Bad : \A k \in Bad : m <= k
    <3> HIDE DEF Bad
    <3> QED
      BY <1>1, <2>0, LeastNatural
  <2>2. m \in 0 .. n /\ Joined(q, m) \notin Seq(S)
    BY <2>1
  <2>3. m # 0
    <3>1. FirstOf(q, 0) = <<>>
      BY DEF FirstOf
    <3>2. Joined(q, 0) = <<>>
      BY <3>1 DEF Joined, FlattenSeq
    <3>3. <<>> \in Seq(S)
      OBVIOUS
    <3> QED
      BY <2>2, <3>2, <3>3, Zenon
  <2> DEFINE k == m - 1
  <2>4. k \in Nat /\ k < n /\ k + 1 = m /\ ~ (m <= k) /\ k \in 0 .. n /\ m \in 1 .. n
    BY <2>2, <2>3
  <2> HIDE DEF k
  <2>5. Joined(q, k) \in Seq(S)
    BY <2>1, <2>4
  <2>6. Joined(q, k + 1) = Joined(q, k) \o q[k + 1]
    BY <2>4, JoinedStep
  <2>7. q[k + 1] \in Seq(S)
    BY <2>4
  <2>8. \A x, y \in Seq(S) : x \o y \in Seq(S)
    OBVIOUS
  <2>9. Joined(q, k + 1) \in Seq(S)
    BY <2>5, <2>6, <2>7, <2>8, Zenon
  <2> QED
    BY <2>2, <2>4, <2>9, Zenon
<1> QED
  BY <1>1

LEMMA JoinedAll ==
  ASSUME NEW n \in Nat, NEW q, DOMAIN q = 1 .. n, q = [i \in 1 .. n |-> q[i]]
  PROVE  FlattenSeq(q) = Joined(q, n)
<1>1. FirstOf(q, n) = q
  BY DEF FirstOf
<1> QED
  BY <1>1 DEF Joined

(* What is put together of single things is the things.                    *)
LEMMA SinglesJoined ==
  ASSUME NEW S, NEW s \in Seq(S)
  PROVE  FlattenSeq([i \in DOMAIN s |-> <<s[i]>>]) = s
<1> DEFINE n == Len(s)
           q == [i \in 1 .. n |-> <<s[i]>>]
           Bad == {k \in 0 .. n : Joined(q, k) # SubSeq(s, 1, k)}
<1>1. n \in Nat /\ DOMAIN s = 1 .. n /\ q \in [1 .. n -> Seq(S)] /\ \A i \in 1 .. n : q[i] = <<s[i]>>
  OBVIOUS
<1> HIDE DEF q
<1>2. ASSUME Bad # {}
      PROVE  FALSE
  <2>0. Bad \in SUBSET Nat
    BY <1>1
  <2>1. PICK m \in Bad : \A k \in Bad : m <= k
    <3> HIDE DEF Bad
    <3> QED
      BY <1>2, <2>0, LeastNatural
  <2>2. m \in 0 .. n /\ Joined(q, m) # SubSeq(s, 1, m)
    BY <2>1
  <2>3. m # 0
    <3>1. FirstOf(q, 0) = <<>>
      BY DEF FirstOf
    <3>2. Joined(q, 0) = <<>>
      BY <3>1 DEF Joined, FlattenSeq
    <3>3. SubSeq(s, 1, 0) = <<>>
      OBVIOUS
    <3> QED
      BY <2>2, <3>2, <3>3
  <2> DEFINE k == m - 1
  <2>4. k \in Nat /\ k < n /\ k + 1 = m /\ ~ (m <= k) /\ k \in 0 .. n /\ m \in 1 .. n
    BY <1>1, <2>2, <2>3
  <2> HIDE DEF k
  <2>5. Joined(q, k) = SubSeq(s, 1, k)
    BY <2>1, <2>4
  <2>6. Joined(q, k + 1) = Joined(q, k) \o q[k + 1]
    BY <1>1, <2>4, JoinedStep
  <2>7. SubSeq(s, 1, k + 1) = SubSeq(s, 1, k) \o <<s[k + 1]>>
    BY <1>1, <2>4
  <2> QED
    BY <1>1, <2>2, <2>4, <2>5, <2>6, <2>7
<1>3. Joined(q, n) = SubSeq(s, 1, n)
  BY <1>1, <1>2
<1>4. FlattenSeq(q) = Joined(q, n)
  <2>1. DOMAIN q = 1 .. n /\ q = [i \in 1 .. n |-> q[i]]
    BY <1>1
  <2> QED
    BY <1>1, <2>1, JoinedAll
<1>5. [i \in DOMAIN s |-> <<s[i]>>] = q
  BY <1>1 DEF q
<1>6. SubSeq(s, 1, n) = s
  BY <1>1
<1> QED
  BY <1>3, <1>4, <1>5, <1>6
-----------------------------------------------------------------------------
(* What is sent *)

(* The arguments a client may give an operation: none, or its tries.       *)
ArgumentsOf(o) == {<<>>} \cup Tries[o.id]

SentBy(answer) ==
  answer.why = "sent" =>
    \E o \in Exposed : \E args \in ArgumentsOf(o) :
      /\ answer.operation = o /\ answer.sent = [request |-> Request(o, args), args |-> args]
      /\ SchemaAccepts(o, args) /\ ~Fails(o, args)

RequestHeld == call # None => SentBy(call.answer)

(* What is sent is a request of the operation that was resolved.           *)
LEMMA CarryingSends ==
  ASSUME NEW o \in Exposed, NEW args \in ArgumentsOf(o)
  PROVE  SentBy(Carry(o, args))
<1> DEFINE answer == [Answer("sent") EXCEPT !.operation = o]
           request == [request |-> Request(o, args), args |-> args]
<1> HIDE DEF request
<1>1. Carry(o, args) = IF ~SchemaAccepts(o, args) THEN [answer EXCEPT !.why = "schema"]
                       ELSE IF Fails(o, args) THEN [answer EXCEPT !.why = "not sent"]
                       ELSE [answer EXCEPT !.sent = request]
  BY Zenon DEF Carry, request
<1>2. [answer EXCEPT !.why = "schema"].why # "sent" /\ [answer EXCEPT !.why = "not sent"].why # "sent"
  BY DEF Answer
<1>3. [answer EXCEPT !.sent = request].operation = o /\ [answer EXCEPT !.sent = request].sent = request
  BY DEF Answer
<1> HIDE DEF answer
<1>4. CASE SchemaAccepts(o, args) /\ ~Fails(o, args)
  BY <1>1, <1>3, <1>4, Zenon DEF SentBy, request
<1>5. CASE ~SchemaAccepts(o, args) \/ Fails(o, args)
  BY <1>1, <1>2, <1>5, Zenon DEF SentBy
<1> QED
  BY <1>4, <1>5

LEMMA LaneSends ==
  ASSUME NEW lane \in Lanes, NEW fields, NEW name, NEW args \in ArgumentsFor(name)
  PROVE  SentBy(InvokeTool(lane, fields, name, args))
<1> DEFINE given == IF fields \cap {"arguments", "args"} = {} THEN <<>> ELSE args
           resolved == Resolve(lane, name)
           answer == InvokeTool(lane, fields, name, args)
<1>1. answer = IF ~LaneArguments(fields) THEN Answer("fields")
               ELSE IF resolved.why # "resolved" THEN resolved
               ELSE TheOne({Carry(o, given) : o \in Find(name)})
  <2>1. {t \in HandWritten : t.tool = lane} = {}
    BY HandWrittenNames
  <2>2. answer = LaneResult(lane, fields, name, args)
    BY <2>1 DEF InvokeTool
  <2> QED
    BY <2>2 DEF LaneResult
<1>2. LaneAnswers(answer, lane, fields, name)
  BY LanesAnswer
<1>3. \A why : Answer(why).why = why
  BY DEF Answer
<1>4. \A why, tool, to : Pointing(why, tool, to).why = why
  BY DEF Pointing, Answer
<1> HIDE DEF answer, resolved
<1>5. ASSUME answer.why = "sent"
      PROVE  SentBy(answer)
  <2>1. PICK o \in Exposed : Find(name) = {o} /\ name \notin TooLong /\ LaneOf(o) = lane
    BY <1>2, <1>3, <1>4, <1>5 DEF LaneAnswers
  <2>2. TheOne(Find(name)) = o
    BY <2>1 DEF TheOne
  <2>3. resolved.why = "resolved"
    <3>1. resolved = [Answer("resolved") EXCEPT !.operation = o]
      BY <2>1, <2>2 DEF resolved, Resolve
    <3> QED
      BY <3>1 DEF Answer
  <2>4. LaneArguments(fields)
    BY <1>1, <1>3, <1>5
  <2>5. {Carry(p, given) : p \in Find(name)} = {Carry(o, given)}
    BY <2>1
  <2>6. answer = Carry(o, given)
    BY <1>1, <2>3, <2>4, <2>5 DEF TheOne
  <2>7. given \in ArgumentsOf(o)
    <3>1. args \in Tries[o.id]
      BY <2>1, <2>2 DEF ArgumentsFor
    <3> QED
      BY <3>1 DEF ArgumentsOf
  <2> HIDE DEF given
  <2> QED
    BY <2>6, <2>7, CarryingSends
<1>6. answer.why # "sent" => SentBy(answer)
  BY DEF SentBy
<1>7. SentBy(answer)
  BY <1>5, <1>6, Zenon
<1> QED
  BY <1>7 DEF answer

LEMMA ToolSends ==
  ASSUME NEW tool, tool \notin Lanes, NEW fields, NEW name, NEW args
  PROVE  SentBy(InvokeTool(tool, fields, name, args))
<1>1. ToolAnswers(InvokeTool(tool, fields, name, args), tool)
  BY ToolsAnswer
<1>2. InvokeTool(tool, fields, name, args).why # "sent"
  BY <1>1, ToolWhys
<1> QED
  BY <1>2 DEF SentBy

LEMMA CallSends ==
  ASSUME NEW tool, NEW fields, NEW name, NEW args \in ArgumentsFor(name)
  PROVE  SentBy(InvokeTool(tool, fields, name, args))
  BY LaneSends, ToolSends

LEMMA PointingSends ==
  ASSUME NEW why, why # "sent", NEW tool, NEW name
  PROVE  SentBy(Pointing(why, tool, name))
<1>1. Pointing(why, tool, name).why = why
  BY DEF Pointing, Answer
<1> QED
  BY <1>1 DEF SentBy

LEMMA ChainHolds ==
  \A via, first, told, tool, name, answer : Chain(via, first, told, tool, name, answer).answer = answer
  BY DEF Chain

(* No step of a client makes a request otherwise.                          *)
LEMMA RequestKeeps ==
  ASSUME CallHeld, RequestHeld, [Next]_vars
  PROVE  RequestHeld'
<1>1. CASE UNCHANGED vars \/ Forget \/ SearchStart \/ SearchNext
  BY <1>1 DEF vars, Forget, SearchStart, SearchNext, RequestHeld
<1>2. CASE TakeRow
  <2>1. PICK i \in DOMAIN paging.shown :
          call' = Chain("row", paging.shown[i].tool, Told(paging.shown[i]), paging.shown[i].execution,
                        NameOf(paging.shown[i]), Pointing("row", paging.shown[i].execution, NameOf(paging.shown[i])))
    BY <1>2 DEF TakeRow
  <2>2. call'.answer = Pointing("row", paging.shown[i].execution, NameOf(paging.shown[i]))
    BY <2>1, ChainHolds
  <2> QED
    BY <2>2, PointingSends DEF RequestHeld
<1>3. CASE DescribeName
  <2>1. \E description, name :
          call' = Chain("description", name, Told(description), description.execution, NameOf(description),
                        Pointing("description", description.execution, NameOf(description)))
    BY <1>3, Zenon DEF DescribeName
  <2>2. PICK description : call'.answer = Pointing("description", description.execution, NameOf(description))
    BY <2>1, ChainHolds
  <2> QED
    BY <2>2, PointingSends DEF RequestHeld
<1>4. CASE Call
  <2>1. PICK tool \in Names_ :
          \/ /\ tool \in Lanes
             /\ \E name \in Names_ : \E fields \in Spellings, args \in ArgumentsFor(name) :
                  call' = Chain("call", name, None, tool, name, InvokeTool(tool, fields, name, args))
          \/ /\ tool \notin Lanes
             /\ \E fields : call' = Chain("call", tool, None, tool, None, InvokeTool(tool, fields, None, <<>>))
    BY <1>4 DEF Call
  <2>2. \/ \E name, fields : \E args \in ArgumentsFor(name) : call'.answer = InvokeTool(tool, fields, name, args)
        \/ tool \notin Lanes /\ \E fields : call'.answer = InvokeTool(tool, fields, None, <<>>)
    BY <2>1, ChainHolds
  <2> QED
    BY <2>2, CallSends, ToolSends DEF RequestHeld
<1>5. CASE Follow
  <2>1. PICK args \in ArgumentsFor(call.answer.name) :
          call' = [call EXCEPT !.hops = @ + 1, !.tool = call.answer.tool, !.name = call.answer.name,
                               !.answer = InvokeTool(call.answer.tool, FieldsOf(call.answer.tool), call.answer.name, args)]
    BY <1>5 DEF Follow
  <2>2. call # None /\ ChainHeld(call)
    BY <1>5 DEF Follow, CallHeld
  <2>3. call'.answer = InvokeTool(call.answer.tool, FieldsOf(call.answer.tool), call.answer.name, args)
    BY <2>1, <2>2 DEF ChainHeld
  <2>4. SentBy(InvokeTool(call.answer.tool, FieldsOf(call.answer.tool), call.answer.name, args))
    BY CallSends
  <2> QED
    BY <2>3, <2>4, Zenon DEF RequestHeld
<1>6. CASE FollowNearest
  <2>1. PICK near : \E args \in ArgumentsFor(near) :
          call' = [call EXCEPT !.first = near, !.hops = 0, !.name = near,
                               !.answer = InvokeTool(call.tool, FieldsOf(call.tool), near, args)]
    BY <1>6 DEF FollowNearest
  <2>5. PICK args \in ArgumentsFor(near) :
          call' = [call EXCEPT !.first = near, !.hops = 0, !.name = near,
                               !.answer = InvokeTool(call.tool, FieldsOf(call.tool), near, args)]
    BY <2>1
  <2>2. call # None /\ ChainHeld(call)
    BY <1>6 DEF FollowNearest, CallHeld
  <2>3. call'.answer = InvokeTool(call.tool, FieldsOf(call.tool), near, args)
    BY <2>5, <2>2 DEF ChainHeld
  <2>4. SentBy(InvokeTool(call.tool, FieldsOf(call.tool), near, args))
    BY CallSends
  <2> QED
    BY <2>3, <2>4, Zenon DEF RequestHeld
<1> QED
  BY <1>1, <1>2, <1>3, <1>4, <1>5, <1>6 DEF Next

(* Nothing put together is nothing, and one sequence is itself.            *)
LEMMA NothingFlat ==
  ASSUME NEW n \in Nat, NEW q, DOMAIN q = 1 .. n, q = [i \in 1 .. n |-> <<>>]
  PROVE  FlattenSeq(q) = <<>>
<1> DEFINE Bad == {k \in 0 .. n : Joined(q, k) # <<>>}
<1>1. q \in [1 .. n -> Seq({})]
  OBVIOUS
<1>2. ASSUME Bad # {}
      PROVE  FALSE
  <2>0. Bad \in SUBSET Nat
    OBVIOUS
  <2>1. PICK m \in Bad : \A k \in Bad : m <= k
    <3> HIDE DEF Bad
    <3> QED
      BY <1>2, <2>0, LeastNatural
  <2>2. m \in 0 .. n /\ Joined(q, m) # <<>>
    BY <2>1
  <2>3. m # 0
    <3>1. FirstOf(q, 0) = <<>>
      BY DEF FirstOf
    <3> QED
      BY <2>2, <3>1 DEF Joined, FlattenSeq
  <2> DEFINE k == m - 1
  <2>4. k \in Nat /\ k < n /\ k + 1 = m /\ ~ (m <= k) /\ k \in 0 .. n /\ m \in 1 .. n
    BY <2>2, <2>3
  <2> HIDE DEF k
  <2>5. Joined(q, k) = <<>>
    BY <2>1, <2>4
  <2>6. Joined(q, k + 1) = Joined(q, k) \o q[k + 1]
    BY <1>1, <2>4, JoinedStep, ZenonT(40)
  <2>7. q[k + 1] = <<>>
    BY <2>4
  <2> QED
    BY <2>2, <2>4, <2>5, <2>6, <2>7
<1>3. Joined(q, n) = <<>>
  BY <1>2
<1>4. q = [i \in 1 .. n |-> q[i]]
  OBVIOUS
<1> QED
  BY <1>3, <1>4, JoinedAll

LEMMA OneFlat ==
  ASSUME NEW S, NEW s \in Seq(S)
  PROVE  FlattenSeq(<<s>>) = s
<1> DEFINE q == <<s>>
<1>1. q \in [1 .. 1 -> Seq(S)] /\ q[1] = s /\ DOMAIN q = 1 .. 1
  OBVIOUS
<1>2. Joined(q, 0) = <<>> /\ Joined(q, 0 + 1) = Joined(q, 0) \o q[0 + 1]
  <2> HIDE DEF q
  <2>1. ASSUME NEW n \in Nat, n = 1, NEW k \in Nat, k = 0
        PROVE  Joined(q, 0) = <<>> /\ Joined(q, k + 1) = Joined(q, k) \o q[k + 1]
    <3>1. q \in [1 .. n -> Seq(S)] /\ k < n
      BY <1>1, <2>1
    <3> QED
      BY <3>1, JoinedStep
  <2> QED
    BY <2>1
<1>3. FlattenSeq(q) = Joined(q, 1)
  <2>1. q = [i \in 1 .. 1 |-> q[i]]
    OBVIOUS
  <2> HIDE DEF q
  <2> QED
    BY <1>1, <2>1, JoinedAll
<1>4. <<>> \o s = s /\ 0 + 1 = 1
  OBVIOUS
<1> QED
  BY <1>1, <1>2, <1>3, <1>4

(* Two sequences, place by place.                                          *)
LEMMA BothOf ==
  ASSUME NEW S, NEW x \in Seq(S), NEW y \in Seq(S)
  PROVE  /\ x \o y \in Seq(S) /\ Len(x \o y) = Len(x) + Len(y)
         /\ x \o y = [i \in 1 .. (Len(x) + Len(y)) |-> IF i <= Len(x) THEN x[i] ELSE y[i - Len(x)]]
<1>1. x \o y \in Seq(S)
  OBVIOUS
<1>2. Len(x \o y) = Len(x) + Len(y)
  OBVIOUS
<1>3. \A i \in 1 .. (Len(x) + Len(y)) : (x \o y)[i] = IF i <= Len(x) THEN x[i] ELSE y[i - Len(x)]
  OBVIOUS
<1> DEFINE z == x \o y
<1>4. z = [i \in 1 .. Len(z) |-> z[i]]
  <2>1. z \in Seq(S)
    BY <1>1
  <2> HIDE DEF z
  <2> QED
    BY <2>1
<1>5. z = [i \in 1 .. (Len(x) + Len(y)) |-> z[i]]
  BY <1>2, <1>4
<1>6. z = [i \in 1 .. (Len(x) + Len(y)) |-> IF i <= Len(x) THEN x[i] ELSE y[i - Len(x)]]
  <2>1. \A i \in 1 .. (Len(x) + Len(y)) : z[i] = IF i <= Len(x) THEN x[i] ELSE y[i - Len(x)]
    BY <1>3
  <2> HIDE DEF z
  <2> QED
    BY <1>5, <2>1
<1> QED
  BY <1>1, <1>2, <1>6

(* What is put together of two sequences is put together of each.          *)
LEMMA FlatOfBoth ==
  ASSUME NEW S, NEW a \in Seq(Seq(S)), NEW b \in Seq(Seq(S))
  PROVE  FlattenSeq(a \o b) = FlattenSeq(a) \o FlattenSeq(b)
<1> DEFINE n == Len(a)
           m == Len(b)
           q == a \o b
           Bad == {k \in 0 .. m : Joined(q, n + k) # Joined(a, n) \o Joined(b, k)}
<1>1. n \in Nat /\ m \in Nat /\ a \in [1 .. n -> Seq(S)] /\ b \in [1 .. m -> Seq(S)]
  OBVIOUS
<1>2. q \in [1 .. (n + m) -> Seq(S)] /\ n + m \in Nat
  <2>1. q \in Seq(Seq(S)) /\ Len(q) = n + m
    BY BothOf
  <2> HIDE DEF q
  <2> QED
    BY <1>1, <2>1
<1>3. (\A i \in 1 .. n : q[i] = a[i]) /\ \A i \in 1 .. m : q[n + i] = b[i]
  OBVIOUS
<1> HIDE DEF q, n, m
<1>4. Joined(a, n) \in Seq(S) /\ \A k \in 0 .. m : Joined(b, k) \in Seq(S)
  <2>1. n \in 0 .. n
    BY <1>1
  <2> QED
    BY <1>1, <2>1, JoinedType
<1>5. ASSUME Bad # {}
      PROVE  FALSE
  <2>0. Bad \in SUBSET Nat
    BY <1>1
  <2>1. PICK l \in Bad : \A k \in Bad : l <= k
    <3> HIDE DEF Bad
    <3> QED
      BY <1>5, <2>0, LeastNatural
  <2>2. l \in 0 .. m /\ Joined(q, n + l) # Joined(a, n) \o Joined(b, l)
    BY <2>1
  <2>3. l # 0
    <3>1. FirstOf(b, 0) = <<>> /\ FirstOf(q, n) = FirstOf(a, n)
      BY <1>1, <1>3 DEF FirstOf
    <3>2. Joined(b, 0) = <<>> /\ Joined(q, n) = Joined(a, n)
      <4>1. FlattenSeq(<<>>) = <<>>
        BY DEF FlattenSeq
      <4> QED
        BY <3>1, <4>1, Zenon DEF Joined
    <3>3. Joined(a, n) \o <<>> = Joined(a, n) /\ n + 0 = n
      BY <1>1, <1>4
    <3> QED
      BY <2>2, <3>2, <3>3
  <2> DEFINE k == l - 1
  <2>4. /\ k \in Nat /\ k < m /\ k + 1 = l /\ ~ (l <= k) /\ k \in 0 .. m /\ l \in 1 .. m
        /\ n + k \in Nat /\ n + k < n + m /\ (n + k) + 1 = n + l
    BY <1>1, <2>2, <2>3
  <2> HIDE DEF k
  <2>5. Joined(q, n + k) = Joined(a, n) \o Joined(b, k)
    BY <2>1, <2>4
  <2>6. Joined(q, (n + k) + 1) = Joined(q, n + k) \o q[(n + k) + 1]
    BY <1>2, <2>4, JoinedStep
  <2>7. Joined(b, k + 1) = Joined(b, k) \o b[k + 1]
    BY <1>1, <2>4, JoinedStep
  <2>8. q[n + l] = b[l] /\ b[l] \in Seq(S)
    BY <1>1, <1>3, <2>4
  <2>9. \A x, y, z \in Seq(S) : (x \o y) \o z = x \o (y \o z)
    BY SMTT(30)
  <2>10. Joined(q, n + l) = Joined(a, n) \o (Joined(b, k) \o b[l])
    <3>1. Joined(b, k) \in Seq(S)
      BY <1>4, <2>4
    <3>2. Joined(q, n + l) = (Joined(a, n) \o Joined(b, k)) \o b[l]
      BY <2>4, <2>5, <2>6, <2>8
    <3> QED
      BY <1>4, <2>8, <2>9, <3>1, <3>2, Zenon
  <2> QED
    BY <2>2, <2>4, <2>7, <2>10, Zenon
<1>6. Joined(q, n + m) = Joined(a, n) \o Joined(b, m)
  <2>1. m \in 0 .. m
    BY <1>1
  <2>2. Bad = {}
    <3> HIDE DEF Bad
    <3> QED
      BY <1>5
  <2> QED
    BY <2>1, <2>2
<1>7. /\ DOMAIN q = 1 .. (n + m) /\ q = [i \in 1 .. (n + m) |-> q[i]]
      /\ DOMAIN a = 1 .. n /\ a = [i \in 1 .. n |-> a[i]] /\ DOMAIN b = 1 .. m /\ b = [i \in 1 .. m |-> b[i]]
  BY <1>1, <1>2
<1>8. FlattenSeq(q) = Joined(q, n + m) /\ FlattenSeq(a) = Joined(a, n) /\ FlattenSeq(b) = Joined(b, m)
  BY <1>1, <1>2, <1>7, JoinedAll
<1>9. FlattenSeq(q) = FlattenSeq(a) \o FlattenSeq(b)
  BY <1>6, <1>8
<1> QED
  BY <1>9 DEF q

(* What a list of pairs carries under a name.                              *)
Carried(query, p) == FlattenSeq([i \in DOMAIN query |-> IF query[i][1] = p THEN query[i][2] ELSE <<>>])
PairsOf(P) == P \X Seq(STRING)

LEMMA CarriedOfBoth ==
  ASSUME NEW P, NEW q \in Seq(PairsOf(P)), NEW r \in Seq(PairsOf(P)), NEW p
  PROVE  Carried(q \o r, p) = Carried(q, p) \o Carried(r, p)
<1> DEFINE of(s) == [i \in DOMAIN s |-> IF s[i][1] = p THEN s[i][2] ELSE <<>>]
<1>1. ASSUME NEW s \in Seq(PairsOf(P))
      PROVE  of(s) \in Seq(Seq(STRING))
  <2>1. ASSUME NEW i \in DOMAIN s
        PROVE  (IF s[i][1] = p THEN s[i][2] ELSE <<>>) \in Seq(STRING)
    <3>1. s[i] \in PairsOf(P)
      BY <2>1
    <3>2. s[i][2] \in Seq(STRING)
      BY <3>1 DEF PairsOf
    <3>3. <<>> \in Seq(STRING)
      OBVIOUS
    <3> QED
      BY <3>2, <3>3
  <2>2. DOMAIN s = 1 .. Len(s) /\ Len(s) \in Nat
    OBVIOUS
  <2> QED
    BY <2>1, <2>2
<1>2. of(q \o r) = of(q) \o of(r)
  <2>1. /\ Len(q) \in Nat /\ Len(r) \in Nat /\ DOMAIN q = 1 .. Len(q) /\ DOMAIN r = 1 .. Len(r)
        /\ DOMAIN (q \o r) = 1 .. (Len(q) + Len(r))
    OBVIOUS
  <2>2. ASSUME NEW i \in 1 .. (Len(q) + Len(r))
        PROVE  (q \o r)[i] = IF i <= Len(q) THEN q[i] ELSE r[i - Len(q)]
    BY <2>1
  <2> DEFINE x == of(q) y == of(r)
  <2>3. x \in Seq(Seq(STRING)) /\ y \in Seq(Seq(STRING)) /\ Len(x) = Len(q) /\ Len(y) = Len(r)
    <3>1. x \in Seq(Seq(STRING)) /\ y \in Seq(Seq(STRING))
      BY <1>1
    <3>2. DOMAIN x = 1 .. Len(q) /\ DOMAIN y = 1 .. Len(r)
      BY <2>1
    <3> HIDE DEF x, y
    <3> QED
      BY <2>1, <3>1, <3>2
  <2>4. (\A i \in 1 .. Len(q) : x[i] = IF q[i][1] = p THEN q[i][2] ELSE <<>>)
        /\ \A i \in 1 .. Len(r) : y[i] = IF r[i][1] = p THEN r[i][2] ELSE <<>>
    BY <2>1
  <2> HIDE DEF x, y
  <2>5. /\ x \o y = [i \in 1 .. (Len(q) + Len(r)) |-> (x \o y)[i]]
        /\ \A i \in 1 .. (Len(q) + Len(r)) : (x \o y)[i] = IF i <= Len(q) THEN x[i] ELSE y[i - Len(q)]
    <3>1. x \o y = [i \in 1 .. (Len(q) + Len(r)) |-> IF i <= Len(q) THEN x[i] ELSE y[i - Len(q)]]
      <4>1. x \o y = [i \in 1 .. (Len(x) + Len(y)) |-> IF i <= Len(x) THEN x[i] ELSE y[i - Len(x)]]
        BY <2>3, BothOf, ZenonT(40)
      <4> QED
        BY <2>3, <4>1
    <3> DEFINE z == x \o y
    <3>2. z = [i \in 1 .. (Len(q) + Len(r)) |-> IF i <= Len(q) THEN x[i] ELSE y[i - Len(q)]]
      BY <3>1
    <3> HIDE DEF z
    <3>3. /\ z = [i \in 1 .. (Len(q) + Len(r)) |-> z[i]]
          /\ \A i \in 1 .. (Len(q) + Len(r)) : z[i] = IF i <= Len(q) THEN x[i] ELSE y[i - Len(q)]
      BY <3>2
    <3> QED
      BY <3>3 DEF z
  <2>6. ASSUME NEW i \in 1 .. (Len(q) + Len(r))
        PROVE  (x \o y)[i] = IF (q \o r)[i][1] = p THEN (q \o r)[i][2] ELSE <<>>
    <3>1. CASE i <= Len(q)
      <4>1. i \in 1 .. Len(q)
        BY <2>1, <3>1
      <4> QED
        BY <2>2, <2>4, <2>5, <3>1, <4>1
    <3>2. CASE ~(i <= Len(q))
      <4>1. i - Len(q) \in 1 .. Len(r)
        BY <2>1, <3>2
      <4> QED
        BY <2>2, <2>4, <2>5, <3>2, <4>1
    <3> QED
      BY <3>1, <3>2
  <2>7. of(q \o r) = [i \in 1 .. (Len(q) + Len(r)) |-> IF (q \o r)[i][1] = p THEN (q \o r)[i][2] ELSE <<>>]
    BY <2>1, Zenon
  <2>8. of(q \o r) = x \o y
    BY <2>5, <2>6, <2>7
  <2> QED
    BY <2>8 DEF x, y
<1>3. of(q) \in Seq(Seq(STRING)) /\ of(r) \in Seq(Seq(STRING))
  BY <1>1
<1>4. /\ Carried(q \o r, p) = FlattenSeq(of(q \o r))
      /\ Carried(q, p) = FlattenSeq(of(q)) /\ Carried(r, p) = FlattenSeq(of(r))
  BY Zenon DEF Carried
<1> HIDE DEF of
<1>5. FlattenSeq(of(q) \o of(r)) = FlattenSeq(of(q)) \o FlattenSeq(of(r))
  BY <1>3, FlatOfBoth
<1> QED
  BY <1>2, <1>4, <1>5, Zenon
(* What an exposed operation is made of (Generator, path templates).       *)
LEMMA OperationShape ==
  ASSUME NEW o \in Exposed
  PROVE  /\ o.parameters \in Seq(ToSet(o.parameters)) /\ o.path \in Seq(Seq({"literal", "param"} \X STRING))
         /\ \A i, j \in DOMAIN o.parameters : o.parameters[i].name = o.parameters[j].name => i = j
         /\ {part[2] : part \in {x \in UNION {ToSet(o.path[i]) : i \in DOMAIN o.path} : x[1] = "param"}}
              = Names(At(o, "path"))
         /\ \A i \in DOMAIN o.path :
              /\ \A part \in ToSet(o.path[i]) : part[1] = "literal" => part[2] \notin DOMAIN Loose
              /\ \/ \E part \in ToSet(o.path[i]) : part[1] = "param"
                 \/ Len(o.path[i]) = 1 /\ o.path[i][1][2] \notin {"", ".", ".."}
         /\ \A p \in At(o, "query") : p.kind = "array" => p.format = "multi"
         /\ At(o, "body") = {} \/ At(o, "form") = {}
  BY SurfaceAssumption

Textual(value) ==
  /\ value.is = "scalar" => value.text \in STRING
  /\ value.is = "array" => /\ value.items \in Seq(ToSet(value.items))
                           /\ \A item \in ToSet(value.items) : item.is = "scalar" => item.text \in STRING

LEMMA ArgumentsAreTexts ==
  ASSUME NEW o \in Exposed, NEW args \in ArgumentsOf(o), NEW name \in DOMAIN args
  PROVE  Textual(args[name])
<1>1. CASE args = <<>>
  BY <1>1
<1>2. CASE args \in Tries[o.id]
  BY <1>2, SurfaceAssumption DEF Textual
<1> QED
  BY <1>1, <1>2 DEF ArgumentsOf

-----------------------------------------------------------------------------
(* The path *)

(* No segment with a text of its own is a dot segment.                     *)
LEMMA NoDotSegment ==
  ASSUME NEW segment, NEW j \in DOMAIN segment, segment[j] \notin {"", ".", ".."}
  PROVE  ~IsDot(segment) /\ ~IsDotDot(segment)
<1>1. ASSUME IsDot(segment)
      PROVE  FALSE
  <2>1. PICK k \in DOMAIN segment : segment[k] = "." /\ Blank(segment, {k})
    BY <1>1, Zenon DEF IsDot
  <2>2. j # k
    BY <2>1, Zenon
  <2> QED
    BY <2>1, <2>2, Zenon DEF Blank
<1>2. ASSUME IsDotDot(segment)
      PROVE  FALSE
  <2>1. PICK k \in DOMAIN segment : \E l \in DOMAIN segment :
          (segment[k] \in {".", ".."} /\ segment[l] \in {".", ".."}) /\ Blank(segment, {k, l})
    BY <1>2, Zenon DEF IsDotDot
  <2>2. PICK l \in DOMAIN segment :
          (segment[k] \in {".", ".."} /\ segment[l] \in {".", ".."}) /\ Blank(segment, {k, l})
    BY <2>1
  <2>3. j # k /\ j # l
    BY <2>2, Zenon
  <2> QED
    BY <2>2, <2>3, Zenon DEF Blank
<1> QED
  BY <1>1, <1>2

(* The text that the url crate makes of a part of a template.              *)
Leaves(part, args) == IF part[1] = "param" THEN Stripped(args[part[2]].text) ELSE part[2]

PathKept(o, args) == \A p \in Names(At(o, "path")) \cap DOMAIN args : Keeps(args[p].text)

(* A segment is not a dot segment, with its tabs and line breaks or        *)
(* without them (validate_path_segment).                                   *)
LEMMA SegmentIsKept ==
  ASSUME NEW o \in Exposed, NEW args, ~AddressFails(o, args), PathKept(o, args), NEW i \in DOMAIN o.path
  PROVE  LET r == Rendered(o.path[i], args)
             s == [j \in DOMAIN o.path[i] |-> Leaves(o.path[i][j], args)]
         IN /\ ~IsDot(r) /\ ~IsDotDot(r) /\ ~IsDot(s) /\ ~IsDotDot(s)
            /\ [j \in DOMAIN r |-> Stripped(r[j])] = s
<1> DEFINE segment == o.path[i]
           r == Rendered(segment, args)
           s == [j \in DOMAIN segment |-> Leaves(segment[j], args)]
<1>1. segment \in Seq({"literal", "param"} \X STRING)
  <2>1. o.path \in Seq(Seq({"literal", "param"} \X STRING))
    BY OperationShape, Zenon
  <2> QED
    BY <2>1
<1>9. /\ \A part \in ToSet(segment) : part[1] = "literal" => part[2] \notin DOMAIN Loose
      /\ \/ \E part \in ToSet(segment) : part[1] = "param"
         \/ Len(segment) = 1 /\ segment[1][2] \notin {"", ".", ".."}
  BY OperationShape, Zenon
<1>2. \A j \in DOMAIN segment : Renders(segment[j], args)
  BY DEF AddressFails
<1>3. \A j \in DOMAIN segment : segment[j][1] = "param" => segment[j][2] \in Names(At(o, "path"))
  <2>1. {part[2] : part \in {x \in UNION {ToSet(o.path[k]) : k \in DOMAIN o.path} : x[1] = "param"}} = Names(At(o, "path"))
    BY OperationShape
  <2>2. \A j \in DOMAIN segment : segment[j] \in ToSet(o.path[i])
    BY DEF ToSet
  <2> HIDE DEF segment
  <2> QED
    BY <2>1, <2>2
<1> HIDE DEF segment
<1>4. /\ DOMAIN r = DOMAIN segment /\ DOMAIN s = DOMAIN segment
      /\ \A j \in DOMAIN segment : r[j] = IF segment[j][1] = "param" THEN args[segment[j][2]].text ELSE segment[j][2]
      /\ \A j \in DOMAIN segment : s[j] = IF segment[j][1] = "param" THEN Stripped(args[segment[j][2]].text) ELSE segment[j][2]
  BY DEF Rendered, Leaves
<1> HIDE DEF r, s
<1>5. ASSUME NEW j \in DOMAIN segment, segment[j][1] = "param"
      PROVE  r[j] \notin {"", ".", ".."} /\ s[j] \notin {"", ".", ".."}
  <2> DEFINE text == args[segment[j][2]].text
  <2>1. segment[j][2] \in DOMAIN args /\ ValidPathSegment(text)
    BY <1>2, <1>5, Zenon DEF Renders
  <2>2. Keeps(text)
    BY <1>3, <1>5, <2>1, Zenon DEF PathKept
  <2>3. r[j] = text /\ s[j] = Stripped(text)
    BY <1>4, <1>5, Zenon
  <2> HIDE DEF text
  <2>4. text \notin {"", ".", ".."}
    BY <2>1, Zenon DEF ValidPathSegment
  <2>5. Stripped(text) \notin {"", ".", ".."}
    <3>1. CASE text \in DOMAIN Loose
      BY <2>2, <3>1, Zenon DEF Keeps
    <3>2. CASE text \notin DOMAIN Loose
      BY <2>4, <3>2, Zenon DEF Stripped
    <3> QED
      BY <3>1, <3>2, Zenon
  <2> QED
    BY <2>3, <2>4, <2>5, Zenon
<1>6. \E j \in DOMAIN segment : r[j] \notin {"", ".", ".."} /\ s[j] \notin {"", ".", ".."}
  <2>1. CASE \E part \in ToSet(segment) : part[1] = "param"
    <3>1. PICK j \in DOMAIN segment : segment[j][1] = "param"
      BY <2>1 DEF ToSet
    <3> QED
      BY <1>5, <3>1, Zenon
  <2>2. CASE (~ \E part \in ToSet(segment) : part[1] = "param") /\ Len(segment) = 1 /\ segment[1][2] \notin {"", ".", ".."}
    <3>1. 1 \in DOMAIN segment
      <4>1. Len(segment) = 1
        BY <2>2, Zenon
      <4> QED
        BY <1>1, <4>1
    <3>2. segment[1] \in ToSet(segment)
      BY <3>1 DEF ToSet
    <3>3. segment[1][1] # "param"
      BY <2>2, <3>2, Zenon
    <3>4. r[1] = segment[1][2] /\ s[1] = segment[1][2]
      BY <1>4, <3>1, <3>3, Zenon
    <3> QED
      BY <2>2, <3>1, <3>4, Zenon
  <2> QED
    BY <1>9, <2>1, <2>2, Zenon
<1>7. [j \in DOMAIN r |-> Stripped(r[j])] = s
  <2>1. ASSUME NEW j \in DOMAIN segment
        PROVE  Stripped(r[j]) = s[j]
    <3>1. CASE segment[j][1] = "param"
      BY <1>4, <3>1, Zenon
    <3>2. CASE segment[j][1] = "literal"
      <4>1. segment[j] \in ToSet(segment)
        BY DEF ToSet
      <4>2. segment[j][2] \notin DOMAIN Loose
        BY <1>9, <3>2, <4>1, Zenon
      <4>3. r[j] = segment[j][2] /\ s[j] = segment[j][2]
        BY <1>4, <3>2
      <4> QED
        BY <4>2, <4>3, Zenon DEF Stripped
    <3>3. segment[j][1] \in {"literal", "param"}
      BY <1>1
    <3> QED
      BY <3>1, <3>2, <3>3, Zenon
  <2>2. s = [j \in DOMAIN segment |-> s[j]]
    BY <1>4 DEF s
  <2> QED
    BY <1>4, <2>1, <2>2
<1>8. ~IsDot(r) /\ ~IsDotDot(r) /\ ~IsDot(s) /\ ~IsDotDot(s)
  <2>1. PICK j \in DOMAIN segment : r[j] \notin {"", ".", ".."} /\ s[j] \notin {"", ".", ".."}
    BY <1>6
  <2>2. j \in DOMAIN r /\ j \in DOMAIN s
    BY <1>4
  <2> QED
    BY <2>1, <2>2, NoDotSegment, Zenon
<1> QED
  BY <1>7, <1>8, Zenon DEF r, s, segment

(* So every segment of the template is in the address, in its order.       *)
LEMMA AddressIsWhole ==
  ASSUME NEW o \in Exposed, NEW args, ~AddressFails(o, args), PathKept(o, args)
  PROVE  Address(o, args) = [i \in DOMAIN o.path |-> [j \in DOMAIN o.path[i] |-> Leaves(o.path[i][j], args)]]
<1> DEFINE r == [i \in DOMAIN o.path |-> Rendered(o.path[i], args)]
           s == [i \in DOMAIN o.path |-> [j \in DOMAIN o.path[i] |-> Leaves(o.path[i][j], args)]]
           S == {s[i] : i \in DOMAIN o.path}
           dots(x) == IsDot(x) \/ IsDotDot(x)
<1>1. o.path \in Seq(Seq({"literal", "param"} \X STRING))
  BY OperationShape
<1>2. /\ DOMAIN r = DOMAIN o.path /\ DOMAIN s = DOMAIN o.path
      /\ \A i \in DOMAIN o.path : ~dots(r[i]) /\ ~dots(s[i]) /\ [j \in DOMAIN r[i] |-> Stripped(r[i][j])] = s[i]
  <2>1. DOMAIN r = DOMAIN o.path /\ DOMAIN s = DOMAIN o.path
    BY Zenon
  <2>2. ASSUME NEW i \in DOMAIN o.path
        PROVE  ~dots(r[i]) /\ ~dots(s[i]) /\ [j \in DOMAIN r[i] |-> Stripped(r[i][j])] = s[i]
    <3> DEFINE x == Rendered(o.path[i], args)
               y == [j \in DOMAIN o.path[i] |-> Leaves(o.path[i][j], args)]
    <3>1. ~dots(x) /\ ~dots(y) /\ [j \in DOMAIN x |-> Stripped(x[j])] = y
      BY SegmentIsKept, Zenon
    <3>2. r[i] = x /\ s[i] = y
      BY Zenon
    <3> HIDE DEF r, s, x, y, dots
    <3> QED
      BY <3>1, <3>2, Zenon
  <2> QED
    BY <2>1, <2>2, Zenon
<1>3. s \in Seq(S)
  <2>1. DOMAIN o.path = 1 .. Len(o.path) /\ Len(o.path) \in Nat
    BY <1>1
  <2> QED
    BY <2>1
<1>4. Address(o, args) = Pushed(r)
  BY DEF Address
<1> HIDE DEF r, s, S
<1> DEFINE left == FlattenSeq([i \in DOMAIN r |-> IF dots(r[i]) THEN <<>>
                                                  ELSE <<[j \in DOMAIN r[i] |-> Stripped(r[i][j])]>>])
<1>5. FlattenSeq([i \in DOMAIN s |-> <<s[i]>>]) = s
  BY <1>3, SinglesJoined
<1>6. left = s
  <2>1. [i \in DOMAIN r |-> IF dots(r[i]) THEN <<>> ELSE <<[j \in DOMAIN r[i] |-> Stripped(r[i][j])]>>]
          = [i \in DOMAIN s |-> <<s[i]>>]
    <3>1. \A i \in DOMAIN s : (IF dots(r[i]) THEN <<>> ELSE <<[j \in DOMAIN r[i] |-> Stripped(r[i][j])]>>) = <<s[i]>>
      BY <1>2, Zenon
    <3> HIDE DEF dots
    <3> QED
      BY <1>2, <3>1
  <2> QED
    BY <1>5, <2>1, Zenon
<1>7. Pushed(r) = FlattenSeq([i \in DOMAIN left |->
                    IF i + 1 \in DOMAIN left /\ IsDotDot(left[i + 1]) THEN <<>>
                    ELSE IF IsDot(left[i]) \/ IsDotDot(left[i]) THEN <<<<"">>>> ELSE <<left[i]>>])
  BY Zenon DEF Pushed
<1> HIDE DEF left
<1>8. [i \in DOMAIN left |-> IF i + 1 \in DOMAIN left /\ IsDotDot(left[i + 1]) THEN <<>>
                             ELSE IF IsDot(left[i]) \/ IsDotDot(left[i]) THEN <<<<"">>>> ELSE <<left[i]>>]
        = [i \in DOMAIN s |-> <<s[i]>>]
  <2> DEFINE empty == <<<<"">>>>
  <2>1. \A i \in DOMAIN s : ~IsDot(s[i]) /\ ~IsDotDot(s[i])
    BY <1>2, Zenon
  <2>2. [i \in DOMAIN s |-> IF i + 1 \in DOMAIN s /\ IsDotDot(s[i + 1]) THEN <<>>
                            ELSE IF IsDot(s[i]) \/ IsDotDot(s[i]) THEN empty ELSE <<s[i]>>] = [i \in DOMAIN s |-> <<s[i]>>]
    <3> HIDE DEF empty
    <3> QED
      BY <2>1
  <2> QED
    BY <1>6, <2>2, Zenon
<1>9. Address(o, args) = s
  BY <1>4, <1>5, <1>7, <1>8, Zenon
<1> QED
  BY <1>9 DEF s

(* The server reads the template that was meant, and each value where it   *)
(* was given, less tabs and line breaks.                                   *)
LEMMA PathIsFaithful ==
  ASSUME NEW o \in Exposed, NEW args, ~AddressFails(o, args), PathKept(o, args)
  PROVE  /\ ReadBy(o.path, Address(o, args))
         /\ Bound(o.path, Address(o, args)) = {<<p, Stripped(args[p].text)>> : p \in Names(At(o, "path")) \cap DOMAIN args}
<1> DEFINE path == Address(o, args)
           template == o.path
<1>1. template \in Seq(Seq({"literal", "param"} \X STRING))
  BY OperationShape
<1>2. DOMAIN path = DOMAIN template /\ Len(path) = Len(template) /\ \A i \in DOMAIN path : path[i] = [j \in DOMAIN template[i] |-> Leaves(template[i][j], args)]
  <2>1. path = [i \in DOMAIN template |-> [j \in DOMAIN template[i] |-> Leaves(template[i][j], args)]]
    BY AddressIsWhole
  <2>2. DOMAIN template = 1 .. Len(template) /\ Len(template) \in Nat
    BY <1>1
  <2> QED
    BY <2>1, <2>2
<1>3. \A i \in DOMAIN template : \A j \in DOMAIN template[i] : Renders(template[i][j], args)
  BY DEF AddressFails
<1>4. Names(At(o, "path")) = {part[2] : part \in {x \in UNION {ToSet(template[i]) : i \in DOMAIN template} : x[1] = "param"}}
  BY OperationShape
<1> HIDE DEF path, template
<1>5. ASSUME NEW i \in DOMAIN path
      PROVE  /\ DOMAIN path[i] = DOMAIN template[i] /\ Len(path[i]) = Len(template[i])
             /\ \A j \in DOMAIN path[i] :
                  path[i][j] = IF template[i][j][1] = "param" THEN Stripped(args[template[i][j][2]].text) ELSE template[i][j][2]
  <2>1. template[i] \in Seq({"literal", "param"} \X STRING)
    BY <1>1, <1>2
  <2>2. DOMAIN template[i] = 1 .. Len(template[i]) /\ Len(template[i]) \in Nat
    BY <2>1
  <2>3. path[i] = [j \in DOMAIN template[i] |->
                     IF template[i][j][1] = "param" THEN Stripped(args[template[i][j][2]].text) ELSE template[i][j][2]]
    BY <1>2 DEF Leaves
  <2> QED
    BY <2>2, <2>3
<1>6. ReadBy(template, path)
  <2>1. ASSUME NEW i \in DOMAIN path, NEW j \in DOMAIN path[i], template[i][j][1] = "literal"
        PROVE  path[i][j] = template[i][j][2]
    BY <1>5, <2>1
  <2> QED
    BY <1>2, <1>5, <2>1 DEF ReadBy
<1>7. ASSUME NEW x \in Bound(template, path)
      PROVE  x \in {<<p, Stripped(args[p].text)>> : p \in Names(At(o, "path")) \cap DOMAIN args}
  <2>1. PICK i \in DOMAIN path : x \in {<<template[i][j][2], path[i][j]>> : j \in {k \in DOMAIN path[i] : template[i][k][1] = "param"}}
    BY DEF Bound
  <2>2. PICK j \in DOMAIN path[i] : template[i][j][1] = "param" /\ x = <<template[i][j][2], path[i][j]>>
    BY <2>1
  <2>3. i \in DOMAIN template /\ j \in DOMAIN template[i]
    BY <1>2, <1>5
  <2>4. Renders(template[i][j], args)
    BY <1>3, <2>3
  <2>5. template[i][j][2] \in DOMAIN args
    BY <2>2, <2>4 DEF Renders
  <2>6. template[i][j] \in ToSet(template[i])
    BY <2>3 DEF ToSet
  <2>7. template[i][j][2] \in Names(At(o, "path"))
    BY <1>4, <2>2, <2>3, <2>6
  <2>8. path[i][j] = Stripped(args[template[i][j][2]].text)
    BY <1>5, <2>2
  <2> QED
    BY <2>2, <2>5, <2>7, <2>8
<1>8. ASSUME NEW p \in Names(At(o, "path")) \cap DOMAIN args
      PROVE  <<p, Stripped(args[p].text)>> \in Bound(template, path)
  <2>1. PICK i \in DOMAIN template : \E part \in ToSet(template[i]) : part[1] = "param" /\ part[2] = p
    BY <1>4
  <2>2. PICK j \in DOMAIN template[i] : template[i][j][1] = "param" /\ template[i][j][2] = p
    BY <2>1 DEF ToSet
  <2>3. i \in DOMAIN path /\ j \in DOMAIN path[i]
    BY <1>2, <1>5
  <2>4. path[i][j] = Stripped(args[p].text)
    BY <1>5, <2>2, <2>3
  <2>5. <<p, Stripped(args[p].text)>> \in {<<template[i][l][2], path[i][l]>> : l \in {k \in DOMAIN path[i] : template[i][k][1] = "param"}}
    BY <2>2, <2>3, <2>4
  <2> QED
    BY <2>3, <2>5 DEF Bound
<1>9. Bound(template, path) = {<<p, Stripped(args[p].text)>> : p \in Names(At(o, "path")) \cap DOMAIN args}
  BY <1>7, <1>8
<1> QED
  BY <1>6, <1>9 DEF path, template
-----------------------------------------------------------------------------
(* The query *)

(* The pairs of one parameter carry its value under its name: an array of  *)
(* the query has one for each item (append_parameter_values).              *)
LEMMA PairsAreTexts ==
  ASSUME NEW p, NEW value, Textual(value), ScalarsOnly(value), value.is = "array" => p.format = "multi"
  PROVE  /\ Pairs(p, value) \in Seq(PairsOf({p.name}))
         /\ Carried(Pairs(p, value), p.name) = TextsOf(value) /\ TextsOf(value) \in Seq(STRING)
         /\ \A name : name # p.name => Carried(Pairs(p, value), name) = <<>>
<1> DEFINE pairs == Pairs(p, value)
           W == PairsOf({p.name})
           texts == TextsOf(value)
           n == Len(texts)
<1>1. texts \in Seq(STRING)
  <2>1. CASE value.is = "array"
    <3>1. \A i \in DOMAIN value.items : value.items[i].text \in STRING
      BY <2>1 DEF Textual, ScalarsOnly, ToSet
    <3>2. DOMAIN value.items = 1 .. Len(value.items) /\ Len(value.items) \in Nat
      BY <2>1 DEF Textual
    <3> QED
      BY <2>1, <3>1, <3>2 DEF TextsOf
  <2>2. CASE value.is # "array"
    BY <2>2 DEF Textual, ScalarsOnly, TextsOf
  <2> QED
    BY <2>1, <2>2
<1>2. pairs = [i \in DOMAIN texts |-> <<p.name, <<texts[i]>>>>]
  <2>1. CASE value.is = "array"
    BY <2>1 DEF Pairs, TextsOf
  <2>2. CASE value.is # "array"
    <3>1. pairs = <<<<p.name, <<value.text>>>>>> /\ texts = <<value.text>>
      BY <2>2 DEF Pairs, TextsOf
    <3> HIDE DEF pairs, texts
    <3>2. DOMAIN texts = 1 .. 1 /\ texts[1] = value.text
      BY <3>1
    <3> DEFINE one == <<p.name, <<value.text>>>>
    <3>3. [i \in 1 .. 1 |-> one] = <<one>>
      OBVIOUS
    <3>4. \A i \in 1 .. 1 : <<p.name, <<texts[i]>>>> = one
      BY <3>2
    <3> HIDE DEF one
    <3>5. [i \in 1 .. 1 |-> <<p.name, <<texts[i]>>>>] = [i \in 1 .. 1 |-> one]
      BY <3>4
    <3>6. pairs = <<one>>
      BY <3>1 DEF one
    <3> QED
      BY <3>2, <3>3, <3>5, <3>6
  <2> QED
    BY <2>1, <2>2
<1> HIDE DEF pairs, texts
<1>3. DOMAIN texts = 1 .. n /\ n \in Nat /\ \A i \in DOMAIN texts : texts[i] \in STRING
  BY <1>1
<1>4. DOMAIN pairs = 1 .. n /\ \A i \in 1 .. n : pairs[i] = <<p.name, <<texts[i]>>>>
  BY <1>2, <1>3
<1>5. \A i \in 1 .. n : pairs[i][1] = p.name /\ pairs[i][2] = <<texts[i]>>
  BY <1>4
<1>6. pairs \in Seq(W)
  <2>1. \A i \in 1 .. n : <<p.name, <<texts[i]>>>> \in W
    <3>1. \A i \in 1 .. n : <<texts[i]>> \in Seq(STRING)
      BY <1>3
    <3> QED
      BY <3>1 DEF PairsOf
  <2> HIDE DEF W
  <2>2. \A i \in 1 .. n : pairs[i] \in W
    BY <1>4, <2>1
  <2>3. pairs = [i \in 1 .. n |-> pairs[i]]
    BY <1>2, <1>3
  <2> QED
    BY <1>3, <2>2, <2>3
<1>7. Carried(pairs, p.name) = texts
  <2>1. [i \in DOMAIN pairs |-> IF pairs[i][1] = p.name THEN pairs[i][2] ELSE <<>>] = [i \in DOMAIN texts |-> <<texts[i]>>]
    BY <1>3, <1>4, <1>5
  <2>2. FlattenSeq([i \in DOMAIN texts |-> <<texts[i]>>]) = texts
    BY <1>1, SinglesJoined
  <2> QED
    BY <2>1, <2>2, Zenon DEF Carried
<1>8. ASSUME NEW name, name # p.name
      PROVE  Carried(pairs, name) = <<>>
  <2> DEFINE q == [i \in DOMAIN pairs |-> IF pairs[i][1] = name THEN pairs[i][2] ELSE <<>>]
  <2>1. DOMAIN q = 1 .. n /\ q = [i \in 1 .. n |-> <<>>]
    <3>1. \A i \in 1 .. n : pairs[i][1] # name
      BY <1>5, <1>8
    <3> QED
      BY <1>4, <3>1
  <2>2. FlattenSeq(q) = <<>>
    <3> HIDE DEF q, n
    <3> QED
      BY <1>3, <2>1, NothingFlat, Zenon
  <2> QED
    BY <2>2 DEF Carried
<1> QED
  BY <1>1, <1>6, <1>7, <1>8 DEF pairs, texts

(* Names are distinct, so each carries its own value, and no other is in   *)
(* the query (apply_query).                                                *)
LEMMA QueryIsFaithful ==
  ASSUME NEW o \in Exposed, NEW args \in ArgumentsOf(o), SchemaAccepts(o, args), ~QueryFails(o, args)
  PROVE  /\ \A p \in Names(At(o, "query")) \cap DOMAIN args : Carried(Query(o, args), p) = TextsOf(args[p])
         /\ \A i \in DOMAIN Query(o, args) : Query(o, args)[i][1] \in Names(At(o, "query")) \cap DOMAIN args
<1> DEFINE ps == o.parameters
           n == Len(ps)
           given == Present(At(o, "query"), args)
           names == Names(At(o, "query")) \cap DOMAIN args
           W == PairsOf(names)
           pairs(i) == Pairs(ps[i], args[ps[i].name])
           q == [i \in DOMAIN ps |-> IF ps[i] \in given THEN pairs(i) ELSE <<>>]
<1>1. /\ n \in Nat /\ DOMAIN ps = 1 .. n
      /\ \A i, j \in 1 .. n : ps[i].name = ps[j].name => i = j
  <2>1. ps \in Seq(ToSet(ps)) /\ \A i, j \in DOMAIN ps : ps[i].name = ps[j].name => i = j
    BY OperationShape
  <2> HIDE DEF ps
  <2> QED
    BY <2>1
<1>2. /\ \A i \in 1 .. n : ps[i] \in given => ps[i].name \in names
      /\ \A p \in names : \E i \in 1 .. n : ps[i] \in given /\ ps[i].name = p
  <2>1. given = {p \in ToSet(ps) : p.at = "query" /\ p.name \in DOMAIN args}
    BY DEF Present, At
  <2>2. names = {p.name : p \in {x \in ToSet(ps) : x.at = "query"}} \cap DOMAIN args
    BY DEF Names, At
  <2>3. ToSet(ps) = {ps[i] : i \in 1 .. n}
    BY <1>1 DEF ToSet
  <2> HIDE DEF ps, given, names, n
  <2> QED
    BY <2>1, <2>2, <2>3
<1>3. ASSUME NEW i \in 1 .. n, ps[i] \in given
      PROVE  /\ pairs(i) \in Seq(W)
             /\ Carried(pairs(i), ps[i].name) = TextsOf(args[ps[i].name]) /\ TextsOf(args[ps[i].name]) \in Seq(STRING)
             /\ \A name : name # ps[i].name => Carried(pairs(i), name) = <<>>
  <2>1. ps[i].name \in names /\ ps[i].name \in DOMAIN args
    BY <1>2, <1>3 DEF Present
  <2>2. Textual(args[ps[i].name])
    BY <2>1, ArgumentsAreTexts
  <2>3. ScalarsOnly(args[ps[i].name])
    BY <1>3 DEF QueryFails
  <2>8. args[ps[i].name].is = "array" => ps[i].format = "multi"
    <3>1. ps[i] \in ToSet(o.parameters) /\ ps[i] \in At(o, "query")
      BY <1>3 DEF Present, At
    <3>2. Fits(ps[i], args[ps[i].name])
      BY <2>1, <3>1 DEF SchemaAccepts
    <3>3. args[ps[i].name].is = "array" => ps[i].kind = "array"
      BY <3>2 DEF Fits
    <3> QED
      BY <3>1, <3>3, OperationShape
  <2>4. /\ pairs(i) \in Seq(PairsOf({ps[i].name}))
        /\ Carried(pairs(i), ps[i].name) = TextsOf(args[ps[i].name]) /\ TextsOf(args[ps[i].name]) \in Seq(STRING)
        /\ \A name : name # ps[i].name => Carried(pairs(i), name) = <<>>
    BY <2>2, <2>3, <2>8, PairsAreTexts
  <2>5. PairsOf({ps[i].name}) \subseteq W
    BY <2>1 DEF PairsOf
  <2>6. \A S, U : S \subseteq U => Seq(S) \subseteq Seq(U)
    OBVIOUS
  <2> HIDE DEF W, pairs
  <2>7. pairs(i) \in Seq(W)
    BY <2>4, <2>5, <2>6, Zenon
  <2> QED
    BY <2>4, <2>7, Zenon
<1>4. /\ q \in [1 .. n -> Seq(W)] /\ DOMAIN q = 1 .. n /\ q = [i \in 1 .. n |-> q[i]]
      /\ \A i \in 1 .. n : q[i] = IF ps[i] \in given THEN pairs(i) ELSE <<>>
  <2>1. <<>> \in Seq(W)
    OBVIOUS
  <2>2. \A i \in 1 .. n : (IF ps[i] \in given THEN pairs(i) ELSE <<>>) \in Seq(W)
    BY <1>3, <2>1
  <2>3. q = [i \in 1 .. n |-> IF ps[i] \in given THEN pairs(i) ELSE <<>>]
    BY <1>1, Zenon
  <2> HIDE DEF q, W, given, pairs, ps, n
  <2> QED
    BY <2>2, <2>3
<1>5. Query(o, args) = FlattenSeq(q)
  BY Zenon DEF Query
<1> HIDE DEF ps, n, given, names, W, pairs, q
<1>6. FlattenSeq(q) = Joined(q, n)
  BY <1>1, <1>4, JoinedAll
<1>7. \A k \in 0 .. n : Joined(q, k) \in Seq(W)
  BY <1>1, <1>4, JoinedType
<1>8. ASSUME NEW p \in names
      PROVE  Carried(Joined(q, n), p) = TextsOf(args[p])
  <2>1. PICK at \in 1 .. n : ps[at] \in given /\ ps[at].name = p
    BY <1>2
  <2>2. TextsOf(args[p]) \in Seq(STRING)
    BY <1>3, <2>1
  <2> DEFINE of(k) == IF at <= k THEN TextsOf(args[p]) ELSE <<>>
             Bad == {k \in 0 .. n : Carried(Joined(q, k), p) # of(k)}
  <2>3. ASSUME Bad # {}
        PROVE  FALSE
    <3>0. Bad \in SUBSET Nat
      BY <1>1
    <3>1. PICK m \in Bad : \A k \in Bad : m <= k
      <4> HIDE DEF Bad
      <4> QED
        BY <2>3, <3>0, LeastNatural
    <3>2. m \in 0 .. n /\ Carried(Joined(q, m), p) # of(m)
      BY <3>1
    <3>3. m # 0
      <4>1. FirstOf(q, 0) = <<>>
        BY DEF FirstOf
      <4>2. FlattenSeq(<<>>) = <<>>
        BY DEF FlattenSeq
      <4>3. Joined(q, 0) = <<>>
        BY <4>1, <4>2, Zenon DEF Joined
      <4>4. [i \in DOMAIN <<>> |-> IF <<>>[i][1] = p THEN <<>>[i][2] ELSE <<>>] = <<>>
        OBVIOUS
      <4>5. Carried(<<>>, p) = <<>>
        BY <4>2, <4>4, Zenon DEF Carried
      <4>6. of(0) = <<>>
        BY <2>1
      <4> QED
        BY <3>2, <4>3, <4>5, <4>6
    <3> DEFINE k == m - 1
    <3>4. k \in Nat /\ k < n /\ k + 1 = m /\ ~ (m <= k) /\ k \in 0 .. n /\ m \in 1 .. n
      BY <1>1, <3>2, <3>3
    <3> HIDE DEF k
    <3>5. Carried(Joined(q, k), p) = of(k)
      BY <3>1, <3>4
    <3>6. Joined(q, k + 1) = Joined(q, k) \o q[k + 1]
      <4>1. n \in Nat /\ q \in [1 .. n -> Seq(W)] /\ k \in Nat /\ k < n
        BY <1>1, <1>4, <3>4
      <4> QED
        BY ONLY <4>1, JoinedStep
    <3>7. Joined(q, k) \in Seq(W) /\ q[k + 1] \in Seq(W)
      BY <1>4, <1>7, <3>4
    <3>8. Carried(Joined(q, k) \o q[k + 1], p) = Carried(Joined(q, k), p) \o Carried(q[k + 1], p)
      BY <3>7, CarriedOfBoth DEF W
    <3>9. Carried(q[m], p) = IF m = at THEN TextsOf(args[p]) ELSE <<>>
      <4>1. CASE ps[m] \in given
        <5>1. q[m] = pairs(m) /\ (ps[m].name = p <=> m = at)
          BY <1>1, <1>4, <2>1, <3>4, <4>1
        <5> QED
          BY <1>3, <3>4, <4>1, <5>1
      <4>2. CASE ps[m] \notin given
        <5>1. q[m] = <<>> /\ m # at
          BY <1>4, <2>1, <3>4, <4>2
        <5>2. [i \in DOMAIN <<>> |-> IF <<>>[i][1] = p THEN <<>>[i][2] ELSE <<>>] = <<>>
          OBVIOUS
        <5>3. FlattenSeq(<<>>) = <<>>
          BY DEF FlattenSeq
        <5>4. Carried(<<>>, p) = <<>>
          BY <5>2, <5>3, Zenon DEF Carried
        <5> QED
          BY <5>1, <5>4
      <4> QED
        BY <4>1, <4>2
    <3>10. <<>> \o <<>> = <<>> /\ <<>> \o TextsOf(args[p]) = TextsOf(args[p]) /\ TextsOf(args[p]) \o <<>> = TextsOf(args[p])
      BY <2>2
    <3>11. Carried(Joined(q, m), p) = of(k) \o Carried(q[m], p)
      BY <3>4, <3>5, <3>6, <3>8
    <3>12. of(k) \o Carried(q[m], p) = of(m)
      <4>1. CASE m = at
        <5>1. of(k) = <<>> /\ of(m) = TextsOf(args[p])
          BY <3>4, <4>1
        <5> QED
          BY <3>9, <3>10, <4>1, <5>1
      <4>2. CASE m # at
        <5>1. of(k) = of(m)
          BY <2>1, <3>4, <4>2
        <5>2. of(k) \o <<>> = of(k)
          BY <3>10
        <5> QED
          BY <3>9, <4>2, <5>1, <5>2
      <4> QED
        BY <4>1, <4>2
    <3> QED
      <4>1. Carried(Joined(q, m), p) = of(m)
        BY <3>11, <3>12
      <4> HIDE DEF of
      <4> QED
        BY <3>2, <4>1
  <2>4. n \in 0 .. n /\ Bad = {}
    <3>1. n \in 0 .. n
      BY <1>1
    <3> HIDE DEF Bad
    <3> QED
      BY <2>3, <3>1
  <2>5. Carried(Joined(q, n), p) = of(n) /\ of(n) = TextsOf(args[p])
    BY <1>1, <2>1, <2>4
  <2> QED
    BY <2>5
<1>9. ASSUME NEW i \in DOMAIN Joined(q, n)
      PROVE  Joined(q, n)[i][1] \in names
  <2>1. n \in 0 .. n
    BY <1>1
  <2>2. Joined(q, n) \in Seq(W)
    BY <1>7, <2>1
  <2>3. Joined(q, n)[i] \in W
    BY <2>2
  <2> QED
    BY <2>3 DEF W, PairsOf
<1> QED
  BY <1>5, <1>6, <1>8, <1>9 DEF names

-----------------------------------------------------------------------------
(* What leaves is the request of the operation with the arguments given    *)

(* Headers and payload carry what was given there: a body or a form, never *)
(* both (apply_headers, apply_payload).                                    *)
LEMMA RestIsFaithful ==
  ASSUME NEW o \in Exposed, NEW args
  PROVE  /\ Headers(o, args) = {<<p, args[p].text>> : p \in Names(At(o, "header")) \cap DOMAIN args}
         /\ Payload(o, args) = {<<p, args[p]>> : p \in (Names(At(o, "body")) \cap DOMAIN args)
                                                       \cup (Names(At(o, "form")) \cap DOMAIN args)}
<1>1. ASSUME NEW ps
      PROVE  /\ {<<p.name, args[p.name].text>> : p \in Present(ps, args)}
                  = {<<p, args[p].text>> : p \in Names(ps) \cap DOMAIN args}
             /\ {<<p.name, args[p.name]>> : p \in Present(ps, args)} = {<<p, args[p]>> : p \in Names(ps) \cap DOMAIN args}
  BY DEF Present, Names
<1>2. Headers(o, args) = {<<p, args[p].text>> : p \in Names(At(o, "header")) \cap DOMAIN args}
  BY <1>1, Zenon DEF Headers
<1>3. At(o, "body") = {} \/ At(o, "form") = {}
  BY OperationShape
<1> DEFINE form == At(o, "form") body == At(o, "body")
<1>4. Payload(o, args) = IF form # {} THEN {<<p.name, args[p.name]>> : p \in Present(form, args)}
                         ELSE {<<p.name, args[p.name]>> : p \in Present(body, args)}
  BY DEF Payload
<1>5. Names({}) = {}
  BY DEF Names
<1> HIDE DEF form, body
<1>6. Payload(o, args) = {<<p, args[p]>> : p \in (Names(body) \cap DOMAIN args) \cup (Names(form) \cap DOMAIN args)}
  <2>1. CASE form # {}
    <3>1. (Names(body) \cap DOMAIN args) \cup (Names(form) \cap DOMAIN args) = Names(form) \cap DOMAIN args
      BY <1>3, <1>5, <2>1 DEF form, body
    <3> QED
      BY <1>1, <1>4, <2>1, <3>1
  <2>2. CASE form = {}
    <3>1. (Names(body) \cap DOMAIN args) \cup (Names(form) \cap DOMAIN args) = Names(body) \cap DOMAIN args
      BY <1>5, <2>2
    <3> QED
      BY <1>1, <1>4, <2>2, <3>1
  <2> QED
    BY <2>1, <2>2
<1> QED
  BY <1>2, <1>6 DEF form, body

LEMMA SentAsGiven == RequestHeld => RequestFaithful
<1> SUFFICES ASSUME RequestHeld, call # None, call.answer.why = "sent"
             PROVE  RequestFaithful
  BY DEF RequestFaithful
<1>1. SentBy(call.answer)
  BY DEF RequestHeld
<1>2. PICK o \in Exposed : \E args \in ArgumentsOf(o) :
        /\ call.answer.operation = o /\ call.answer.sent = [request |-> Request(o, args), args |-> args]
        /\ SchemaAccepts(o, args) /\ ~Fails(o, args)
  BY <1>1, Zenon DEF SentBy
<1>11. PICK args \in ArgumentsOf(o) :
        /\ call.answer.operation = o /\ call.answer.sent = [request |-> Request(o, args), args |-> args]
        /\ SchemaAccepts(o, args) /\ ~Fails(o, args)
  BY <1>2
<1> DEFINE r == Request(o, args)
           given(at) == Names(At(o, at)) \cap DOMAIN args
           carried(p) == FlattenSeq([i \in DOMAIN r.query |-> IF r.query[i][1] = p THEN r.query[i][2] ELSE <<>>])
<1>3. /\ r.method = o.method /\ r.path = Address(o, args) /\ r.query = Query(o, args)
      /\ r.headers = Headers(o, args) /\ r.payload = Payload(o, args)
  BY DEF Request
<1>4. call.answer.operation = o /\ call.answer.sent.request = r /\ call.answer.sent.args = args
  BY <1>11
<1>5. ~AddressFails(o, args) /\ ~QueryFails(o, args) /\ SchemaAccepts(o, args)
  BY <1>11 DEF Fails
<1>6. (\A p \in given("path") : Keeps(args[p].text)) =>
        /\ ReadBy(o.path, r.path)
        /\ Bound(o.path, r.path) = {<<p, Stripped(args[p].text)>> : p \in given("path")}
  BY <1>3, <1>5, PathIsFaithful DEF PathKept
<1>7. \A p : carried(p) = Carried(Query(o, args), p)
  BY <1>3, Zenon DEF Carried
<1> HIDE DEF r
<1>8. (\A p \in given("query") : carried(p) = TextsOf(args[p])) /\ \A i \in DOMAIN r.query : r.query[i][1] \in given("query")
  <2>1. \A p \in given("query") : Carried(Query(o, args), p) = TextsOf(args[p])
    BY <1>5, QueryIsFaithful
  <2>2. \A i \in DOMAIN Query(o, args) : Query(o, args)[i][1] \in given("query")
    BY <1>5, QueryIsFaithful
  <2> HIDE DEF carried, given
  <2> QED
    BY <1>3, <1>7, <2>1, <2>2
<1>9. /\ r.headers = {<<p, args[p].text>> : p \in given("header")}
      /\ r.payload = {<<p, args[p]>> : p \in given("body") \cup given("form")}
  BY <1>3, RestIsFaithful
<1>10. LET o_ == call.answer.operation
           r_ == call.answer.sent.request
           args_ == call.answer.sent.args
           given_(at) == Names(At(o_, at)) \cap DOMAIN args_
           carried_(p) == FlattenSeq([i \in DOMAIN r_.query |-> IF r_.query[i][1] = p THEN r_.query[i][2] ELSE <<>>])
       IN /\ r_.method = o_.method
          /\ (\A p \in given_("path") : Keeps(args_[p].text)) =>
               /\ ReadBy(o_.path, r_.path)
               /\ Bound(o_.path, r_.path) = {<<p, Stripped(args_[p].text)>> : p \in given_("path")}
          /\ \A p \in given_("query") : carried_(p) = TextsOf(args_[p])
          /\ \A i \in DOMAIN r_.query : r_.query[i][1] \in given_("query")
          /\ r_.headers = {<<p, args_[p].text>> : p \in given_("header")}
          /\ r_.payload = {<<p, args_[p]>> : p \in given_("body") \cup given_("form")}
  BY <1>3, <1>4, <1>6, <1>8, <1>9
<1> QED
  BY <1>10, Zenon DEF RequestFaithful

(* A request that is sent asks for the operation it was called for and     *)
(* carries each argument where the operation wants it, as it was given, and*)
(* nothing else; in its path, without tabs and line breaks, and only where *)
(* these do not hide nothing or dots (operation_url, render_path_segment, apply_query,          *)
(* append_parameter_values, apply_headers, apply_payload).                 *)
THEOREM RequestsAreFaithful == Spec => []RequestFaithful
<1>1. Init => RequestHeld
  BY DEF Init, RequestHeld
<1>2. CallHeld /\ RequestHeld /\ [Next]_vars => RequestHeld'
  BY RequestKeeps
<1> QED
  BY <1>1, <1>2, SurfaceInvariant, SentAsGiven, PTL DEF Spec, SurfaceInv
-----------------------------------------------------------------------------
(* A function that is defined step by step *)

Steps(a, G, n, f) == [k \in 0 .. n |-> IF k = 0 THEN a ELSE G[<<k, f[k - 1]>>]]
HasSteps(S, a, G, n) == \E f \in [0 .. n -> S] : f = Steps(a, G, n, f)

(* What makes a step of each value makes the whole function: by the least  *)
(* step that is missing.                                                   *)
LEMMA StepsExist ==
  ASSUME NEW S, NEW a \in S, NEW N \in Nat, NEW G \in [(1 .. N) \X S -> S]
  PROVE  HasSteps(S, a, G, N)
<1> DEFINE Bad == {k \in 0 .. N : ~ \E f \in [0 .. k -> S] : f = Steps(a, G, k, f)}
<1>1. ASSUME Bad # {}
      PROVE  FALSE
  <2>0. Bad \in SUBSET Nat
    OBVIOUS
  <2>1. PICK k \in Bad : \A l \in Bad : k <= l
    <3> HIDE DEF Bad
    <3> QED
      BY <1>1, <2>0, LeastNatural
  <2>2. k \in 0 .. N /\ ~ \E f \in [0 .. k -> S] : f = Steps(a, G, k, f)
    BY <2>1
  <2>3. k # 0
    <3> DEFINE f == [i \in 0 .. 0 |-> a]
    <3>1. f \in [0 .. 0 -> S]
      OBVIOUS
    <3>2. \A i \in 0 .. 0 : i = 0
      OBVIOUS
    <3>3. f = Steps(a, G, 0, f)
      BY <3>2 DEF Steps
    <3> HIDE DEF f
    <3> QED
      BY <2>2, <3>1, <3>3
  <2>4. k \in 1 .. N /\ k - 1 \in 0 .. N /\ k - 1 \in Nat /\ ~ (k <= k - 1)
    BY <2>2, <2>3
  <2>5. k - 1 \notin Bad
    BY <2>1, <2>4
  <2>6. PICK f \in [0 .. (k - 1) -> S] : f = Steps(a, G, k - 1, f)
    BY <2>4, <2>5, Zenon
  <2> DEFINE g == [i \in 0 .. k |-> IF i = k THEN G[<<k, f[k - 1]>>] ELSE f[i]]
  <2>7. g \in [0 .. k -> S]
    <3>1. f[k - 1] \in S
      BY <2>4
    <3>2. G[<<k, f[k - 1]>>] \in S
      BY <2>4, <3>1
    <3>3. \A i \in 0 .. k : i # k => i \in 0 .. (k - 1)
      BY <2>2
    <3>4. \A i \in 0 .. k : g[i] \in S
      BY <3>2, <3>3
    <3> QED
      BY <3>4
  <2>8. ASSUME NEW i \in 0 .. k
        PROVE  g[i] = IF i = 0 THEN a ELSE G[<<i, g[i - 1]>>]
    <3>1. CASE i = k
      <4>1. k - 1 \in 0 .. k /\ k - 1 # k /\ k \in 0 .. k
        BY <2>4
      <4>2. g[k - 1] = f[k - 1] /\ g[k] = G[<<k, f[k - 1]>>]
        BY <4>1
      <4> HIDE DEF g
      <4> QED
        BY <2>3, <3>1, <4>2
    <3>2. CASE i # k
      <4>1. i \in 0 .. (k - 1) /\ (i # 0 => i - 1 \in 0 .. k /\ i - 1 # k)
        BY <2>2, <3>2
      <4>2. f[i] = IF i = 0 THEN a ELSE G[<<i, f[i - 1]>>]
        BY <2>6, <4>1 DEF Steps
      <4>3. g[i] = f[i] /\ (i # 0 => g[i - 1] = f[i - 1])
        BY <3>2, <4>1
      <4> HIDE DEF g
      <4> QED
        BY <4>2, <4>3
    <3> QED
      BY <3>1, <3>2
  <2>9. g = Steps(a, G, k, g)
    <3>1. DOMAIN g = 0 .. k /\ g = [i \in 0 .. k |-> g[i]]
      OBVIOUS
    <3> HIDE DEF g
    <3> QED
      BY <2>8, <3>1 DEF Steps
  <2> HIDE DEF g
  <2> QED
    BY <2>2, <2>7, <2>9
<1>2. N \in 0 .. N /\ Bad = {}
  <2>1. N \in 0 .. N
    OBVIOUS
  <2> HIDE DEF Bad
  <2> QED
    BY <1>1, <2>1
<1> QED
  BY <1>2 DEF HasSteps

-----------------------------------------------------------------------------
(* Replacing one text: what is read of it, place by place *)

Character == STRING \cup {R!Backslash}

(* Where each thing that was written comes from: a place of the text, or   *)
(* nowhere when it stands for a match.                                     *)
Sorted(src) ==
  \A a, b \in 1 .. Len(src) :
    a < b /\ src[a] # 0 /\ src[b] # 0 => src[a] < src[b] /\ (src[b] = src[a] + 1 <=> b = a + 1)
Reaches(src, next) == \A a \in 1 .. Len(src) : src[a] # 0 => (src[a] = next - 1 <=> a = Len(src))
Missed(wrote, text, form, src) == \A a \in 1 .. Len(src) : src[a] # 0 => ~R!At_(wrote, text, form, src[a])
Copied(src, j) == \E a \in 1 .. Len(src) : src[a] = j
Matched(wrote, text, form, src, next, j) ==
  \E b \in 1 .. j : /\ R!At_(wrote, text, form, b) /\ j < b + Len(form) /\ b + Len(form) <= next
                    /\ \A a \in 1 .. Len(src) : src[a] < b \/ b + Len(form) <= src[a]
Covered(wrote, text, form, src, next) ==
  \A j \in 1 .. (next - 1) : Copied(src, j) \/ Matched(wrote, text, form, src, next, j)
Written(text, out, src) ==
  Len(out) = Len(src) /\ \A a \in 1 .. Len(src) : out[a] = IF src[a] = 0 THEN 0 ELSE text[src[a]]

Scan(wrote, text, form, out, next, src) ==
  /\ next \in 1 .. (Len(text) + 1) /\ src \in Seq(0 .. (next - 1)) /\ out \in Seq(0 .. Len(wrote))
  /\ Sorted(src) /\ Reaches(src, next) /\ Written(text, out, src)
  /\ Missed(wrote, text, form, src) /\ Covered(wrote, text, form, src, next)

(* Scanning starts with nothing, copies what does not match, and puts two  *)
(* marks for what does; what was read is copied or in a match.             *)
LEMMA ScanStarts ==
  ASSUME NEW wrote \in Seq(Character), NEW text \in Seq(0 .. Len(wrote)), NEW form
  PROVE  Scan(wrote, text, form, <<>>, 1, <<>>)
<1>1. 1 \in 1 .. (Len(text) + 1) /\ <<>> \in Seq(0 .. (1 - 1)) /\ <<>> \in Seq(0 .. Len(wrote)) /\ Len(<<>>) = 0
  OBVIOUS
<1> QED
  BY <1>1 DEF Scan, Sorted, Reaches, Missed, Covered, Written

LEMMA ScanCopies ==
  ASSUME NEW wrote \in Seq(Character), NEW text \in Seq(0 .. Len(wrote)), NEW form \in Seq(Character),
         NEW out, NEW next, NEW src, Scan(wrote, text, form, out, next, src),
         next <= Len(text), ~R!At_(wrote, text, form, next)
  PROVE  Scan(wrote, text, form, Append(out, text[next]), next + 1, Append(src, next))
<1> DEFINE new == Append(src, next)
<1>1. /\ next \in 1 .. Len(text) /\ src \in Seq(0 .. (next - 1)) /\ out \in Seq(0 .. Len(wrote))
      /\ Len(text) \in Nat /\ Len(src) \in Nat /\ Len(form) \in Nat /\ Len(wrote) \in Nat
  BY DEF Scan
<1>2. Len(new) = Len(src) + 1 /\ new[Len(src) + 1] = next
      /\ \A a \in 1 .. Len(src) : new[a] = src[a] /\ src[a] \in 0 .. (next - 1)
  BY <1>1
<1>3. \A a \in 1 .. (Len(src) + 1) : a = Len(src) + 1 \/ a \in 1 .. Len(src)
  BY <1>1
<1>4. next + 1 \in 1 .. (Len(text) + 1) /\ (next + 1) - 1 = next /\ new \in Seq(0 .. ((next + 1) - 1))
  <2>1. next + 1 \in 1 .. (Len(text) + 1) /\ (next + 1) - 1 = next
    BY <1>1
  <2>2. \A a \in 1 .. (Len(src) + 1) : new[a] \in 0 .. next
    BY <1>1, <1>2, <1>3
  <2>3. src \in Seq(0 .. next) /\ next \in 0 .. next
    <3>1. 0 .. (next - 1) \subseteq 0 .. next /\ next \in 0 .. next
      BY <1>1
    <3>2. \A S, U : S \subseteq U => Seq(S) \subseteq Seq(U)
      OBVIOUS
    <3> QED
      BY <1>1, <3>1, <3>2, Zenon
  <2>4. new \in Seq(0 .. next)
    BY <2>3
  <2> QED
    BY <2>1, <2>4
<1>5. Append(out, text[next]) \in Seq(0 .. Len(wrote))
  <2>1. text[next] \in 0 .. Len(wrote)
    BY <1>1
  <2> QED
    BY <1>1, <2>1
<1>6. Written(text, Append(out, text[next]), new)
  <2>1. Len(out) = Len(src) /\ \A a \in 1 .. Len(src) : out[a] = IF src[a] = 0 THEN 0 ELSE text[src[a]]
    BY DEF Scan, Written
  <2> DEFINE longer == Append(out, text[next])
  <2>2. Len(longer) = Len(src) + 1 /\ longer[Len(src) + 1] = text[next] /\ \A a \in 1 .. Len(src) : longer[a] = out[a]
    BY <1>1, <2>1
  <2> HIDE DEF longer, new
  <2>3. ASSUME NEW a \in 1 .. Len(new)
        PROVE  longer[a] = IF new[a] = 0 THEN 0 ELSE text[new[a]]
    <3>1. CASE a \in 1 .. Len(src)
      BY <1>2, <2>1, <2>2, <3>1
    <3>2. CASE a = Len(src) + 1
      <4>1. next # 0
        BY <1>1
      <4> QED
        BY <1>2, <2>2, <3>2, <4>1
    <3> QED
      BY <1>2, <1>3, <3>1, <3>2
  <2>4. Written(text, longer, new)
    BY <1>2, <2>2, <2>3 DEF Written
  <2> QED
    BY <2>4 DEF longer
<1> HIDE DEF new
<1>7. Sorted(new)
  <2>1. Sorted(src) /\ Reaches(src, next)
    BY DEF Scan
  <2>2. ASSUME NEW a \in 1 .. Len(new), NEW b \in 1 .. Len(new), a < b, new[a] # 0, new[b] # 0
        PROVE  new[a] < new[b] /\ (new[b] = new[a] + 1 <=> b = a + 1)
    <3>1. a \in 1 .. Len(src)
      BY <1>1, <1>2, <2>2
    <3>2. CASE b \in 1 .. Len(src)
      BY <1>2, <2>1, <2>2, <3>1, <3>2 DEF Sorted
    <3>3. CASE b = Len(src) + 1
      <4>1. new[a] = src[a] /\ new[b] = next /\ src[a] \in 1 .. (next - 1)
        BY <1>2, <2>2, <3>1, <3>3
      <4>2. src[a] = next - 1 <=> a = Len(src)
        BY <2>1, <3>1, <4>1 DEF Reaches
      <4> QED
        <5>1. new[a] < new[b]
          BY <1>1, <4>1, SMTT(30)
        <5>2. new[b] = new[a] + 1 <=> src[a] = next - 1
          <6>1. \A x, y \in Int : y = x + 1 <=> x = y - 1
            OBVIOUS
          <6>2. src[a] \in Int /\ next \in Int
            BY <1>1, <4>1
          <6> QED
            BY <4>1, <6>1, <6>2, Zenon
        <5>3. b = a + 1 <=> a = Len(src)
          BY <1>1, <3>1, <3>3, SMTT(30)
        <5> QED
          BY <4>2, <5>1, <5>2, <5>3
    <3> QED
      BY <1>2, <1>3, <3>2, <3>3
  <2> QED
    BY <2>2 DEF Sorted
<1>8. Reaches(new, next + 1)
  BY <1>1, <1>2, <1>3 DEF Reaches
<1>9. Missed(wrote, text, form, new)
  <2>1. Missed(wrote, text, form, src)
    BY DEF Scan
  <2> QED
    BY <1>2, <1>3, <2>1 DEF Missed
<1>10. Covered(wrote, text, form, new, next + 1)
  <2>1. ASSUME NEW j \in 1 .. next
        PROVE  Copied(new, j) \/ Matched(wrote, text, form, new, next + 1, j)
    <3>1. CASE j = next
      <4>1. Len(src) + 1 \in 1 .. Len(new)
        BY <1>1, <1>2
      <4> QED
        BY <1>2, <3>1, <4>1 DEF Copied
    <3>2. CASE j \in 1 .. (next - 1)
      <4>1. Copied(src, j) \/ Matched(wrote, text, form, src, next, j)
        BY <3>2 DEF Scan, Covered
      <4>2. CASE Copied(src, j)
        BY <1>1, <1>2, <4>2, SMTT(30) DEF Copied
      <4>3. CASE Matched(wrote, text, form, src, next, j)
        <5>1. PICK b \in 1 .. j : /\ R!At_(wrote, text, form, b) /\ j < b + Len(form) /\ b + Len(form) <= next
                                  /\ \A a \in 1 .. Len(src) : src[a] < b \/ b + Len(form) <= src[a]
          BY <4>3 DEF Matched
        <5>2. \A a \in 1 .. Len(new) : new[a] < b \/ b + Len(form) <= new[a]
          BY <1>1, <1>2, <1>3, <5>1
        <5>3. b + Len(form) <= next + 1
          BY <1>1, <5>1
        <5> QED
          BY <5>1, <5>2, <5>3 DEF Matched
      <4> QED
        BY <4>1, <4>2, <4>3
    <3> QED
      BY <1>1, <3>1, <3>2
  <2> QED
    BY <1>4, <2>1 DEF Covered
<1>11. Scan(wrote, text, form, Append(out, text[next]), next + 1, new)
  BY <1>4, <1>5, <1>6, <1>7, <1>8, <1>9, <1>10 DEF Scan, new
<1> QED
  BY <1>11 DEF new

LEMMA LastTwo == \A l \in Nat : \A a \in 1 .. (l + 2) : a = l + 1 \/ a = l + 2 \/ a \in 1 .. l
  OBVIOUS

LEMMA TwoMore ==
  ASSUME NEW S, NEW s \in Seq(S), NEW x, NEW y
  PROVE  /\ Len(s \o <<x, y>>) = Len(s) + 2
         /\ (s \o <<x, y>>)[Len(s) + 1] = x /\ (s \o <<x, y>>)[Len(s) + 2] = y
         /\ \A a \in 1 .. Len(s) : (s \o <<x, y>>)[a] = s[a]
<1> DEFINE U == S \cup {x, y}
           two == <<x, y>>
<1>1. s \in Seq(U)
  <2>1. \A V, W : V \subseteq W => Seq(V) \subseteq Seq(W)
    OBVIOUS
  <2>2. S \subseteq U
    OBVIOUS
  <2> HIDE DEF U
  <2> QED
    BY <2>1, <2>2, Zenon
<1>2. two \in Seq(U) /\ Len(two) = 2 /\ two[1] = x /\ two[2] = y
  OBVIOUS
<1> HIDE DEF U, two
<1>3. /\ Len(s \o two) = Len(s) + Len(two)
      /\ s \o two = [i \in 1 .. (Len(s) + Len(two)) |-> IF i <= Len(s) THEN s[i] ELSE two[i - Len(s)]]
  BY <1>1, <1>2, BothOf, Zenon
<1>4. Len(s) \in Nat
  OBVIOUS
<1> DEFINE z == s \o two
<1>5. z = [i \in 1 .. (Len(s) + 2) |-> IF i <= Len(s) THEN s[i] ELSE two[i - Len(s)]] /\ Len(z) = Len(s) + 2
  BY <1>2, <1>3
<1> HIDE DEF z
<1>6. z[Len(s) + 1] = x
  BY <1>2, <1>4, <1>5
<1>7. z[Len(s) + 2] = y
  BY <1>2, <1>4, <1>5
<1>8. \A a \in 1 .. Len(s) : z[a] = s[a]
  BY <1>4, <1>5
<1> QED
  BY <1>5, <1>6, <1>7, <1>8 DEF z, two

LEMMA ScanMatches ==
  ASSUME NEW wrote \in Seq(Character), NEW text \in Seq(0 .. Len(wrote)), NEW form \in Seq(Character), form # <<>>,
         NEW out, NEW next, NEW src, Scan(wrote, text, form, out, next, src),
         next <= Len(text), R!At_(wrote, text, form, next)
  PROVE  Scan(wrote, text, form, out \o <<R!Mark, R!Mark>>, next + Len(form), src \o <<0, 0>>)
<1> DEFINE new == src \o <<0, 0>>
           longer == out \o <<R!Mark, R!Mark>>
           after == next + Len(form)
<1>1. /\ next \in 1 .. Len(text) /\ src \in Seq(0 .. (next - 1)) /\ out \in Seq(0 .. Len(wrote))
      /\ Len(text) \in Nat /\ Len(src) \in Nat /\ Len(form) \in Nat /\ Len(form) >= 1 /\ Len(wrote) \in Nat
  BY DEF Scan
<1>2. Len(new) = Len(src) + 2 /\ new[Len(src) + 1] = 0 /\ new[Len(src) + 2] = 0
      /\ \A a \in 1 .. Len(src) : new[a] = src[a] /\ src[a] \in 0 .. (next - 1)
  <2>1. \A a \in 1 .. Len(src) : src[a] \in 0 .. (next - 1)
    BY <1>1
  <2> QED
    BY <1>1, <2>1, TwoMore
<1>3. ASSUME NEW a \in 1 .. Len(new)
      PROVE  new[a] = 0 \/ (a \in 1 .. Len(src) /\ new[a] = src[a] /\ new[a] \in 0 .. (next - 1))
  <2>1. a = Len(src) + 1 \/ a = Len(src) + 2 \/ a \in 1 .. Len(src)
    <3>1. a \in 1 .. (Len(src) + 2) /\ Len(src) \in Nat
      BY <1>1, <1>2
    <3> QED
      BY <3>1, LastTwo, Zenon
  <2> QED
    BY <1>2, <2>1
<1>4. after \in 1 .. (Len(text) + 1) /\ after - 1 >= next
  BY <1>1 DEF R!At_
<1>5. new \in Seq(0 .. (after - 1)) /\ longer \in Seq(0 .. Len(wrote))
  <2>1. 0 .. (next - 1) \subseteq 0 .. (after - 1) /\ 0 \in 0 .. (after - 1) /\ 0 \in 0 .. Len(wrote)
    BY <1>1, <1>4
  <2>2. \A S, U : S \subseteq U => Seq(S) \subseteq Seq(U)
    OBVIOUS
  <2> DEFINE S == 0 .. (after - 1)
             U == 0 .. Len(wrote)
  <2>3. src \in Seq(S) /\ 0 \in S /\ 0 \in U /\ out \in Seq(U)
    <3>1. src \in Seq(0 .. (next - 1)) /\ out \in Seq(0 .. Len(wrote))
      BY <1>1
    <3>2. Seq(0 .. (next - 1)) \subseteq Seq(S)
      BY <2>1, <2>2, Zenon
    <3>3. src \in Seq(S)
      BY <3>1, <3>2, Zenon
    <3> QED
      BY <2>1, <3>1, <3>3, Zenon
  <2> HIDE DEF S, U
  <2>4. <<0, 0>> \in Seq(S) /\ <<0, 0>> \in Seq(U)
    BY <2>3
  <2>5. new \in Seq(S) /\ out \o <<0, 0>> \in Seq(U)
    BY <2>3, <2>4, BothOf, Zenon
  <2> QED
    BY <2>5 DEF S, U, R!Mark
<1>6. Written(text, longer, new)
  <2>1. Len(out) = Len(src) /\ \A a \in 1 .. Len(src) : out[a] = IF src[a] = 0 THEN 0 ELSE text[src[a]]
    BY DEF Scan, Written
  <2>2. Len(longer) = Len(src) + 2 /\ longer[Len(src) + 1] = 0 /\ longer[Len(src) + 2] = 0
        /\ \A a \in 1 .. Len(src) : longer[a] = out[a]
    BY <1>1, <2>1, TwoMore DEF R!Mark
  <2> HIDE DEF longer, new
  <2>3. ASSUME NEW a \in 1 .. Len(new)
        PROVE  longer[a] = IF new[a] = 0 THEN 0 ELSE text[new[a]]
    <3>1. a = Len(src) + 1 \/ a = Len(src) + 2 \/ a \in 1 .. Len(src)
      <4>1. a \in 1 .. (Len(src) + 2) /\ Len(src) \in Nat
        BY <1>1, <1>2
      <4> QED
        BY <4>1, LastTwo, Zenon
    <3>2. CASE a \in 1 .. Len(src)
      BY <1>2, <2>1, <2>2, <3>2
    <3>3. CASE a \notin 1 .. Len(src)
      BY <1>2, <2>2, <3>1, <3>3
    <3> QED
      BY <3>2, <3>3
  <2> QED
    BY <1>2, <2>2, <2>3 DEF Written
<1> HIDE DEF new, longer, after
<1>7. Sorted(new)
  <2>1. Sorted(src)
    BY DEF Scan
  <2>2. ASSUME NEW a \in 1 .. Len(new), NEW b \in 1 .. Len(new), a < b, new[a] # 0, new[b] # 0
        PROVE  new[a] < new[b] /\ (new[b] = new[a] + 1 <=> b = a + 1)
    <3>1. a \in 1 .. Len(src) /\ b \in 1 .. Len(src)
      BY <1>2, <1>3, <2>2
    <3> QED
      BY <1>2, <2>1, <2>2, <3>1 DEF Sorted
  <2> QED
    BY <2>2 DEF Sorted
<1>8. Reaches(new, after)
  <2>1. ASSUME NEW a \in 1 .. Len(new), new[a] # 0
        PROVE  new[a] # after - 1 /\ a # Len(new)
    <3>1. a \in 1 .. Len(src) /\ new[a] \in 0 .. (next - 1)
      BY <1>3, <2>1
    <3> QED
      <4>1. new[a] # after - 1
        <5>1. new[a] < next /\ next <= after - 1
          BY <1>1, <1>4, <3>1, SMTT(30)
        <5> QED
          BY <1>1, <1>4, <3>1, <5>1
      <4>2. a # Len(new)
        BY <1>1, <1>2, <3>1
      <4> QED
        BY <4>1, <4>2
  <2> QED
    BY <2>1 DEF Reaches
<1>9. Missed(wrote, text, form, new)
  <2>1. Missed(wrote, text, form, src)
    BY DEF Scan
  <2> QED
    BY <1>2, <1>3, <2>1 DEF Missed
<1>10. ASSUME NEW j \in 1 .. (after - 1)
       PROVE  Copied(new, j) \/ Matched(wrote, text, form, new, after, j)
  <2>1. CASE j >= next
    <3>1. next \in 1 .. j /\ j < next + Len(form) /\ next + Len(form) <= after
      BY <1>1, <1>4, <2>1 DEF after
    <3>2. \A a \in 1 .. Len(new) : new[a] < next \/ next + Len(form) <= new[a]
      <4>1. \A a \in 1 .. Len(new) : new[a] \in 0 .. (next - 1)
        BY <1>1, <1>3
      <4> QED
        BY <1>1, <4>1
    <3> QED
      BY <3>1, <3>2 DEF Matched
  <2>2. CASE j < next
    <3>0. j \in 1 .. (next - 1)
      BY <1>1, <2>2
    <3>1. Copied(src, j) \/ Matched(wrote, text, form, src, next, j)
      BY <3>0 DEF Scan, Covered
    <3>2. CASE Copied(src, j)
      BY <1>1, <1>2, <3>2 DEF Copied
    <3>3. CASE Matched(wrote, text, form, src, next, j)
      <4>1. PICK b \in 1 .. j : /\ R!At_(wrote, text, form, b) /\ j < b + Len(form) /\ b + Len(form) <= next
                                /\ \A a \in 1 .. Len(src) : src[a] < b \/ b + Len(form) <= src[a]
        BY <3>3 DEF Matched
      <4>2. \A a \in 1 .. Len(new) : new[a] < b \/ b + Len(form) <= new[a]
        <5>1. ASSUME NEW a \in 1 .. Len(new)
              PROVE  new[a] < b \/ b + Len(form) <= new[a]
          <6>1. CASE new[a] = 0
            BY <4>1, <6>1
          <6>2. CASE new[a] # 0
            BY <1>3, <4>1, <6>2
          <6> QED
            BY <6>1, <6>2
        <5> QED
          BY <5>1
      <4>3. b + Len(form) <= after
        BY <1>1, <1>4, <4>1
      <4> QED
        BY <4>1, <4>2, <4>3 DEF Matched
    <3> QED
      BY <3>1, <3>2, <3>3
  <2> QED
    BY <1>1, <2>1, <2>2
<1>11. Covered(wrote, text, form, new, after)
  BY <1>10 DEF Covered
<1>12. Scan(wrote, text, form, longer, after, new)
  BY <1>4, <1>5, <1>6, <1>7, <1>8, <1>9, <1>11 DEF Scan
<1> QED
  BY <1>12 DEF new, longer, after
ReadFrom(wrote, text, form, i, before) ==
  IF i < before.next THEN before
  ELSE IF R!At_(wrote, text, form, i)
       THEN [out |-> before.out \o <<R!Mark, R!Mark>>, next |-> i + Len(form)]
       ELSE [out |-> Append(before.out, text[i]), next |-> i + 1]
ReadTo(wrote, text, form, f) ==
  [i \in 0 .. Len(text) |-> IF i = 0 THEN [out |-> <<>>, next |-> 1] ELSE ReadFrom(wrote, text, form, i, f[i - 1])]
IsRead(wrote, text, form, f) == f = ReadTo(wrote, text, form, f)

(* The reading of Replace is such a function, so it ends as the steps say. *)
LEMMA ReadExists ==
  ASSUME NEW wrote \in Seq(Character), NEW text \in Seq(0 .. Len(wrote)), NEW form \in Seq(Character)
  PROVE  \E f : IsRead(wrote, text, form, f)
<1> DEFINE S == [out : Seq(0 .. Len(wrote)), next : Nat]
           n == Len(text)
           a == [out |-> <<>>, next |-> 1]
           G == [p \in (1 .. n) \X S |-> ReadFrom(wrote, text, form, p[1], p[2])]
<1>1. n \in Nat /\ a \in S
  <2>1. <<>> \in Seq(0 .. Len(wrote)) /\ 1 \in Nat
    OBVIOUS
  <2> QED
    BY <2>1
<1>2. ASSUME NEW i \in 1 .. n, NEW x \in S
      PROVE  ReadFrom(wrote, text, form, i, x) \in S
  <2> DEFINE U == 0 .. Len(wrote)
  <2>1. x.out \in Seq(U) /\ x.next \in Nat /\ Len(form) \in Nat /\ i \in Nat /\ text[i] \in U /\ R!Mark \in U
    BY DEF R!Mark
  <2> HIDE DEF U
  <2>2. Append(x.out, text[i]) \in Seq(U) /\ i + 1 \in Nat /\ i + Len(form) \in Nat
    BY <2>1
  <2>3. <<R!Mark, R!Mark>> \in Seq(U)
    BY <2>1
  <2>4. x.out \o <<R!Mark, R!Mark>> \in Seq(U)
    BY <2>1, <2>3, BothOf, Zenon
  <2>5. /\ [out |-> x.out \o <<R!Mark, R!Mark>>, next |-> i + Len(form)] \in [out : Seq(U), next : Nat]
        /\ [out |-> Append(x.out, text[i]), next |-> i + 1] \in [out : Seq(U), next : Nat]
    BY <2>2, <2>4
  <2> QED
    BY <2>5 DEF ReadFrom, U
<1> HIDE DEF S, n, a
<1>3. G \in [(1 .. n) \X S -> S]
  BY <1>2
<1>4. \A i \in 1 .. n, x \in S : G[<<i, x>>] = ReadFrom(wrote, text, form, i, x)
  OBVIOUS
<1> HIDE DEF G
<1>5. PICK f \in [0 .. n -> S] : f = Steps(a, G, n, f)
  <2>1. HasSteps(S, a, G, n)
    BY <1>1, <1>3, StepsExist
  <2> QED
    BY <2>1 DEF HasSteps
<1>6. ASSUME NEW i \in 0 .. n
      PROVE  (IF i = 0 THEN a ELSE G[<<i, f[i - 1]>>]) = IF i = 0 THEN a ELSE ReadFrom(wrote, text, form, i, f[i - 1])
  <2>1. CASE i = 0
    BY <2>1
  <2>2. CASE i # 0
    <3>1. i \in 1 .. n /\ i - 1 \in 0 .. n
      BY <1>1, <2>2
    <3>2. f[i - 1] \in S
      BY <3>1
    <3> QED
      BY <1>4, <2>2, <3>1, <3>2
  <2> QED
    BY <2>1, <2>2
<1>7. f = [i \in 0 .. n |-> IF i = 0 THEN a ELSE ReadFrom(wrote, text, form, i, f[i - 1])]
  BY <1>5, <1>6 DEF Steps
<1> QED
  BY <1>7, Zenon DEF IsRead, ReadTo, n, a

LEMMA ReplaceIs ==
  ASSUME NEW wrote \in Seq(Character), NEW text \in Seq(0 .. Len(wrote)), NEW form \in Seq(Character)
  PROVE  \E f : IsRead(wrote, text, form, f) /\ R!Replace(wrote, text, form) = f[Len(text)].out
<1> DEFINE c == CHOOSE f : f = ReadTo(wrote, text, form, f)
<1>1. \E f : f = ReadTo(wrote, text, form, f)
  BY ReadExists DEF IsRead
<1>2. c = ReadTo(wrote, text, form, c)
  BY <1>1, Zenon
<1>3. R!Replace(wrote, text, form) = c[Len(text)].out
  BY Zenon DEF R!Replace, ReadTo, ReadFrom
<1> HIDE DEF c
<1> QED
  BY <1>2, <1>3, Zenon DEF IsRead

Scanned(wrote, text, form, x) == \E src : Scan(wrote, text, form, x.out, x.next, src)

LEMMA ScanGoesOn ==
  ASSUME NEW wrote \in Seq(Character), NEW text \in Seq(0 .. Len(wrote)), NEW form \in Seq(Character), form # <<>>,
         NEW i \in 1 .. Len(text), NEW x, Scanned(wrote, text, form, x), x.next \in i .. (Len(text) + 1)
  PROVE  LET y == ReadFrom(wrote, text, form, i, x)
         IN Scanned(wrote, text, form, y) /\ y.next \in (i + 1) .. (Len(text) + 1)
<1> DEFINE y == ReadFrom(wrote, text, form, i, x)
<1>1. Len(text) \in Nat /\ Len(form) \in Nat /\ Len(form) >= 1 /\ i \in Nat
  OBVIOUS
<1>2. CASE i < x.next
  BY <1>1, <1>2 DEF ReadFrom
<1>3. ASSUME ~(i < x.next)
      PROVE  x.next = i /\ i <= Len(text)
  BY <1>1, <1>3
<1>4. PICK src : Scan(wrote, text, form, x.out, x.next, src)
  BY DEF Scanned
<1>5. CASE ~(i < x.next) /\ R!At_(wrote, text, form, i)
  <2>1. y = [out |-> x.out \o <<R!Mark, R!Mark>>, next |-> i + Len(form)]
    BY <1>5 DEF ReadFrom
  <2> HIDE DEF y
  <2>2. y.out = x.out \o <<R!Mark, R!Mark>> /\ y.next = i + Len(form)
    BY <2>1
  <2>3. Scan(wrote, text, form, x.out \o <<R!Mark, R!Mark>>, i + Len(form), src \o <<0, 0>>)
    BY <1>3, <1>4, <1>5, ScanMatches
  <2>4. i + Len(form) \in (i + 1) .. (Len(text) + 1)
    BY <1>1, <1>5 DEF R!At_
  <2>5. Scanned(wrote, text, form, y)
    BY <2>2, <2>3, Zenon DEF Scanned
  <2> QED
    BY <2>2, <2>4, <2>5 DEF y
<1>6. CASE ~(i < x.next) /\ ~R!At_(wrote, text, form, i)
  <2>1. y = [out |-> Append(x.out, text[i]), next |-> i + 1]
    BY <1>6 DEF ReadFrom
  <2> HIDE DEF y
  <2>2. y.out = Append(x.out, text[i]) /\ y.next = i + 1
    BY <2>1
  <2>3. Scan(wrote, text, form, Append(x.out, text[i]), i + 1, Append(src, i))
    BY <1>3, <1>4, <1>6, ScanCopies
  <2>5. Scanned(wrote, text, form, y)
    BY <2>2, <2>3, Zenon DEF Scanned
  <2> QED
    BY <1>1, <2>2, <2>5 DEF y
<1> QED
  BY <1>2, <1>5, <1>6

(* By the end all of the text is scanned.                                  *)
LEMMA ReplaceScans ==
  ASSUME NEW wrote \in Seq(Character), NEW text \in Seq(0 .. Len(wrote)), NEW form \in Seq(Character), form # <<>>
  PROVE  \E src : Scan(wrote, text, form, R!Replace(wrote, text, form), Len(text) + 1, src)
<1> DEFINE n == Len(text)
<1>1. n \in Nat
  OBVIOUS
<1>2. PICK c : IsRead(wrote, text, form, c) /\ R!Replace(wrote, text, form) = c[n].out
  BY ReplaceIs
<1> HIDE DEF n
<1>3. \A i \in 0 .. n : c[i] = IF i = 0 THEN [out |-> <<>>, next |-> 1] ELSE ReadFrom(wrote, text, form, i, c[i - 1])
  BY <1>2 DEF IsRead, ReadTo, n
<1> DEFINE Held(i) == Scanned(wrote, text, form, c[i]) /\ c[i].next \in (i + 1) .. (n + 1)
           Bad == {i \in 0 .. n : ~Held(i)}
<1>4. ASSUME Bad # {}
      PROVE  FALSE
  <2>0. Bad \in SUBSET Nat
    OBVIOUS
  <2>1. PICK m \in Bad : \A k \in Bad : m <= k
    <3> HIDE DEF Bad
    <3> QED
      BY <1>4, <2>0, LeastNatural
  <2>2. m \in 0 .. n /\ ~Held(m)
    BY <2>1
  <2>3. CASE m = 0
    <3>1. c[0].out = <<>> /\ c[0].next = 1
      BY <1>1, <1>3
    <3>2. Scanned(wrote, text, form, c[0])
      BY <3>1, ScanStarts DEF Scanned
    <3>3. c[0].next \in (0 + 1) .. (n + 1)
      BY <1>1, <3>1
    <3> QED
      BY <2>2, <2>3, <3>2, <3>3
  <2>4. CASE m # 0
    <3>1. m - 1 \in 0 .. n /\ ~(m <= m - 1) /\ m \in 1 .. n
      BY <1>1, <2>2, <2>4
    <3>2. Held(m - 1)
      BY <2>1, <3>1
    <3>3. Scanned(wrote, text, form, c[m - 1]) /\ c[m - 1].next \in m .. (n + 1)
      BY <3>1, <3>2
    <3>4. c[m] = ReadFrom(wrote, text, form, m, c[m - 1])
      BY <1>3, <2>2, <2>4
    <3>5. Held(m)
      BY <3>1, <3>3, <3>4, ScanGoesOn DEF n
    <3> QED
      BY <2>2, <3>5
  <2> QED
    BY <2>3, <2>4
<1>5. Held(n)
  <2>1. n \in 0 .. n
    BY <1>1
  <2>2. Bad = {}
    <3> HIDE DEF Bad
    <3> QED
      BY <1>4
  <2> QED
    BY <2>1, <2>2
<1>6. c[n].next = n + 1
  BY <1>1, <1>5
<1> QED
  BY <1>2, <1>5, <1>6 DEF Scanned, n
-----------------------------------------------------------------------------
(* What is left of a text *)

(* Positions of what Gitea wrote in their order, and those that follow one *)
(* another there do so here.                                               *)
Kept(wrote, text) ==
  /\ text \in Seq(0 .. Len(wrote))
  /\ \A i, j \in 1 .. Len(text) :
       i < j /\ text[i] # 0 /\ text[j] # 0 => text[i] < text[j] /\ (text[j] = text[i] + 1 <=> j = i + 1)
Positions(text) == {text[i] : i \in {j \in 1 .. Len(text) : text[j] # 0}}

StandsAt(wrote, form, c) ==
  c \in 1 .. Len(wrote) /\ c + Len(form) - 1 <= Len(wrote) /\ \A k \in 1 .. Len(form) : wrote[c + k - 1] = form[k]
Span(form, c) == c .. (c + Len(form) - 1)

(* What replacing a form leaves: where a position is gone, all of the form *)
(* is gone with it, and nowhere is all of the form left.                   *)
Struck(wrote, text, form, out) ==
  /\ Kept(wrote, out)
  /\ Positions(out) \subseteq Positions(text)
  /\ \A p \in Positions(text) \ Positions(out) :
       \E c : StandsAt(wrote, form, c) /\ p \in Span(form, c) /\ Span(form, c) \cap Positions(out) = {}
  /\ \A c : StandsAt(wrote, form, c) => \E p \in Span(form, c) : p \notin Positions(out)

(* A position is left at most once.                                        *)
LEMMA KeptOnce ==
  ASSUME NEW wrote \in Seq(Character), NEW text, Kept(wrote, text),
         NEW i \in 1 .. Len(text), NEW j \in 1 .. Len(text), text[i] # 0, text[i] = text[j]
  PROVE  i = j
<1>1. text[i] \in Nat /\ i \in Nat /\ j \in Nat
  BY DEF Kept
<1>2. i < j => FALSE
  BY <1>1 DEF Kept
<1>3. j < i => FALSE
  BY <1>1 DEF Kept
<1> QED
  BY <1>1, <1>2, <1>3

Unmarked(text, i, n) == \A k \in 0 .. n : text[i + k] # 0
Following(text, i, n) == \A k \in 0 .. n : text[i] + k \in Positions(text)
Running(text, i, n) == \A k \in 0 .. n : i + k \in 1 .. Len(text) /\ text[i + k] = text[i] + k

(* What stands side by side in the text does so in what Gitea wrote.       *)
LEMMA RunUp ==
  ASSUME NEW wrote \in Seq(Character), NEW text, Kept(wrote, text), NEW n \in Nat, NEW i \in 1 .. Len(text),
         i + n <= Len(text), Unmarked(text, i, n)
  PROVE  Running(text, i, n)
<1> DEFINE Bad == {k \in 0 .. n : text[i + k] # text[i] + k}
<1>1. text \in Seq(0 .. Len(wrote)) /\ text[i] \in Nat
  BY DEF Kept
<1>2. ASSUME Bad # {}
      PROVE  FALSE
  <2>0. Bad \in SUBSET Nat
    OBVIOUS
  <2>1. PICK m \in Bad : \A k \in Bad : m <= k
    <3> HIDE DEF Bad
    <3> QED
      BY <1>2, <2>0, LeastNatural
  <2>2. m \in 0 .. n /\ text[i + m] # text[i] + m
    BY <2>1
  <2>3. m # 0
    BY <1>1, <2>2
  <2>4. m - 1 \in 0 .. n /\ ~(m <= m - 1)
    BY <2>2, <2>3
  <2>5. text[i + (m - 1)] = text[i] + (m - 1)
    BY <2>1, <2>4
  <2> DEFINE a == i + (m - 1)
             b == i + m
  <2>6. /\ a \in 1 .. Len(text) /\ b \in 1 .. Len(text) /\ a < b /\ b = a + 1
        /\ text[a] # 0 /\ text[b] # 0
    <3>1. i \in Nat /\ m \in Nat /\ m >= 1 /\ m <= n /\ i >= 1 /\ Len(text) \in Nat
      BY <1>1, <2>2, <2>4
    <3>2. text[a] # 0 /\ text[b] # 0
      BY <2>2, <2>4 DEF Unmarked
    <3>3. a \in 1 .. Len(text) /\ b \in 1 .. Len(text) /\ a < b /\ b = a + 1
      BY <3>1
    <3> QED
      BY <3>2, <3>3
  <2>7. text[b] = text[a] + 1
    <3> HIDE DEF a, b
    <3> QED
      BY <2>6 DEF Kept
  <2> QED
    <3>1. text[i] \in Int /\ m \in Int
      BY <1>1, <2>2
    <3>2. (text[i] + (m - 1)) + 1 = text[i] + m
      BY <3>1, SMTT(30)
    <3>3. text[i + m] = text[i + (m - 1)] + 1
      BY <2>7
    <3> QED
      BY <2>2, <2>5, <3>2, <3>3, Zenon
<1>3. \A k \in 0 .. n : text[i + k] = text[i] + k
  BY <1>2
<1>4. \A k \in 0 .. n : i + k \in 1 .. Len(text)
  BY <1>1
<1> QED
  BY <1>3, <1>4 DEF Running

(* And the other way round, of positions that are all left.                *)
LEMMA RunDown ==
  ASSUME NEW wrote \in Seq(Character), NEW text, Kept(wrote, text), NEW n \in Nat, NEW i \in 1 .. Len(text), text[i] # 0,
         Following(text, i, n)
  PROVE  Running(text, i, n)
<1> DEFINE Right(k) == i + k \in 1 .. Len(text) /\ text[i + k] = text[i] + k
           Bad == {k \in 0 .. n : ~Right(k)}
<1>1. text \in Seq(0 .. Len(wrote)) /\ text[i] \in Nat /\ Len(text) \in Nat /\ i \in Nat
  BY DEF Kept
<1>2. ASSUME Bad # {}
      PROVE  FALSE
  <2>0. Bad \in SUBSET Nat
    OBVIOUS
  <2>1. PICK m \in Bad : \A k \in Bad : m <= k
    <3> HIDE DEF Bad
    <3> QED
      BY <1>2, <2>0, LeastNatural
  <2>2. m \in 0 .. n /\ ~Right(m)
    BY <2>1
  <2>3. m # 0
    BY <1>1, <2>2
  <2>4. m - 1 \in 0 .. n /\ ~(m <= m - 1)
    BY <2>2, <2>3
  <2>5. Right(m - 1)
    BY <2>1, <2>4
  <2> DEFINE a == i + (m - 1)
  <2>6. a \in 1 .. Len(text) /\ text[a] = text[i] + (m - 1)
    BY <2>5
  <2>7. PICK b \in 1 .. Len(text) : text[b] = text[i] + m
    BY <2>2 DEF Following, Positions
  <2>8. text[b] = text[a] + 1 /\ text[a] # 0 /\ text[b] # 0 /\ b \in Nat /\ a \in Nat /\ text[a] \in Nat
    <3>1. text[i] \in Nat /\ text[i] # 0 /\ m \in Nat /\ m >= 1
      BY <1>1, <2>2, <2>4
    <3>2. text[b] = text[i] + m /\ text[a] = text[i] + (m - 1) /\ b \in Nat /\ a \in Nat
      BY <2>6, <2>7
    <3> HIDE DEF a
    <3> QED
      BY <3>1, <3>2
  <2>9. i + m = a + 1
    BY <1>1, <2>2
  <2> HIDE DEF a
  <2>10. b = a + 1
    <3>1. CASE a < b
      BY <2>6, <2>7, <2>8, <3>1 DEF Kept
    <3>2. CASE b < a
      <4>1. text[b] < text[a]
        BY <2>6, <2>7, <2>8, <3>2 DEF Kept
      <4> QED
        BY <2>8, <4>1
    <3>3. CASE a = b
      BY <2>8, <3>3
    <3> QED
      BY <2>8, <3>1, <3>2, <3>3
  <2> QED
    BY <2>2, <2>7, <2>9, <2>10
<1> QED
  BY <1>2 DEF Running

(* What replace leaves of a form is never all of it, and what is not left  *)
(* stood in a match: by scanning from left to right, whatever was replaced *)
(* before.                                                                 *)
LEMMA ReplaceStrikes ==
  ASSUME NEW wrote \in Seq(Character), NEW text, Kept(wrote, text), NEW form \in Seq(Character), form # <<>>
  PROVE  Struck(wrote, text, form, R!Replace(wrote, text, form))
<1> DEFINE out == R!Replace(wrote, text, form)
           l == Len(form)
           n == Len(text)
<1>1. text \in Seq(0 .. Len(wrote)) /\ n \in Nat /\ l \in Nat /\ l >= 1 /\ Len(wrote) \in Nat
      /\ \A i \in 1 .. n : text[i] \in 0 .. Len(wrote)
  BY DEF Kept
<1>2. PICK src : Scan(wrote, text, form, out, n + 1, src)
  BY <1>1, ReplaceScans
<1> HIDE DEF out
<1>3. /\ src \in Seq(0 .. n) /\ out \in Seq(0 .. Len(wrote)) /\ Len(out) = Len(src) /\ Len(src) \in Nat
      /\ \A a \in 1 .. Len(src) : src[a] \in 0 .. n /\ out[a] = IF src[a] = 0 THEN 0 ELSE text[src[a]]
  <2>1. (n + 1) - 1 = n
    BY <1>1
  <2>2. src \in Seq(0 .. n) /\ out \in Seq(0 .. Len(wrote)) /\ Written(text, out, src)
    BY <1>2, <2>1 DEF Scan
  <2> QED
    BY <2>2 DEF Written
<1>4. \A a \in 1 .. Len(src) : out[a] # 0 => src[a] \in 1 .. n /\ out[a] = text[src[a]] /\ text[src[a]] # 0
  BY <1>1, <1>3, SMTT(30)
<1>5. Kept(wrote, out)
  <2>1. ASSUME NEW a \in 1 .. Len(src), NEW b \in 1 .. Len(src), a < b, out[a] # 0, out[b] # 0
        PROVE  out[a] < out[b] /\ (out[b] = out[a] + 1 <=> b = a + 1)
    <3>1. src[a] \in 1 .. n /\ src[b] \in 1 .. n /\ out[a] = text[src[a]] /\ out[b] = text[src[b]] /\ src[a] # 0 /\ src[b] # 0
      BY <1>1, <1>4, <2>1
    <3>2. src[a] < src[b] /\ (src[b] = src[a] + 1 <=> b = a + 1)
      BY <1>2, <2>1, <3>1 DEF Scan, Sorted
    <3>3. text[src[a]] < text[src[b]] /\ (text[src[b]] = text[src[a]] + 1 <=> src[b] = src[a] + 1)
      BY <1>4, <2>1, <3>1, <3>2 DEF Kept
    <3> QED
      BY <3>1, <3>2, <3>3
  <2> QED
    BY <1>3, <2>1 DEF Kept
<1>6. Positions(out) \subseteq Positions(text)
  <2>1. ASSUME NEW a \in 1 .. Len(out), out[a] # 0
        PROVE  out[a] \in Positions(text)
    <3>1. src[a] \in 1 .. Len(text) /\ out[a] = text[src[a]] /\ text[src[a]] # 0
      BY <1>1, <1>3, <1>4, <2>1
    <3> QED
      BY <3>1, Zenon DEF Positions
  <2> QED
    BY <2>1 DEF Positions
<1>7. ASSUME NEW p \in Positions(text), p \notin Positions(out)
      PROVE  \E c : StandsAt(wrote, form, c) /\ p \in Span(form, c) /\ Span(form, c) \cap Positions(out) = {}
  <2>1. PICK j \in 1 .. n : text[j] = p /\ p # 0
    BY DEF Positions
  <2>2. ~Copied(src, j)
    <3>1. ASSUME NEW a \in 1 .. Len(src), src[a] = j
          PROVE  FALSE
      <4>1. out[a] = p /\ a \in 1 .. Len(out)
        <5>1. j # 0 /\ a \in 1 .. Len(out)
          BY <1>3, <2>1
        <5>2. out[a] = text[j]
          BY <1>3, <3>1, <5>1
        <5> QED
          BY <2>1, <5>1, <5>2
      <4> QED
        BY <1>7, <2>1, <4>1 DEF Positions
    <3> QED
      BY <3>1 DEF Copied
  <2>3. Matched(wrote, text, form, src, n + 1, j)
    <3>1. j \in 1 .. ((n + 1) - 1)
      BY <1>1
    <3> QED
      BY <1>2, <2>2, <3>1 DEF Scan, Covered
  <2>4. PICK b \in 1 .. j : /\ R!At_(wrote, text, form, b) /\ j < b + l /\ b + l <= n + 1
                            /\ \A a \in 1 .. Len(src) : src[a] < b \/ b + l <= src[a]
    BY <2>3 DEF Matched
  <2>5. b \in 1 .. n /\ b + (l - 1) <= n /\ l - 1 \in Nat
    BY <1>1, <2>1, <2>4
  <2>6. \A k \in 0 .. (l - 1) : text[b + k] # 0 /\ wrote[text[b + k]] = form[k + 1]
    <3>1. ASSUME NEW k \in 0 .. (l - 1)
          PROVE  text[b + k] # 0 /\ wrote[text[b + k]] = form[k + 1]
      <4>1. k + 1 \in DOMAIN form /\ b + (k + 1) - 1 = b + k
        BY <1>1, <2>5
      <4>2. text[b + (k + 1) - 1] # R!Mark /\ wrote[text[b + (k + 1) - 1]] = form[k + 1]
        BY <2>4, <4>1 DEF R!At_
      <4> QED
        BY <4>1, <4>2 DEF R!Mark
    <3> QED
      BY <3>1
  <2>7. \A k \in 0 .. (l - 1) : text[b + k] = text[b] + k
    <3> DEFINE m == l - 1
    <3>1. m \in Nat /\ b \in 1 .. Len(text) /\ b + m <= Len(text)
      BY <2>5
    <3>2. Unmarked(text, b, m)
      BY <2>6 DEF Unmarked
    <3> HIDE DEF m
    <3>3. Running(text, b, m)
      BY <3>1, <3>2, RunUp, Zenon
    <3> QED
      BY <3>3 DEF m, Running
  <2> DEFINE c == text[b]
  <2>8. c \in 1 .. Len(wrote) /\ c + l - 1 <= Len(wrote)
    <3>1. text[b + 0] # 0 /\ b + 0 = b
      <4>1. 0 \in 0 .. (l - 1) /\ b + 0 = b
        BY <2>5
      <4> QED
        BY <2>6, <4>1
    <3>2. b + (l - 1) \in 1 .. n
      BY <2>5
    <3>3. text[b + (l - 1)] \in 0 .. Len(wrote) /\ text[b + (l - 1)] = c + (l - 1)
      <4>1. l - 1 \in 0 .. (l - 1)
        BY <2>5
      <4>2. text[b + (l - 1)] = text[b] + (l - 1)
        BY <2>7, <4>1
      <4>3. text[b + (l - 1)] \in 0 .. Len(wrote)
        BY <1>1, <3>2
      <4> QED
        BY <4>2, <4>3
    <3>4. c \in 0 .. Len(wrote)
      BY <1>1, <2>5
    <3> QED
      BY <1>1, <3>1, <3>3, <3>4
  <2>9. \A k \in 1 .. l : wrote[c + k - 1] = form[k]
    <3>1. ASSUME NEW k \in 1 .. l
          PROVE  wrote[c + k - 1] = form[k]
      <4>1. k - 1 \in 0 .. (l - 1) /\ (k - 1) + 1 = k
        BY <1>1
      <4>2. wrote[text[b + (k - 1)]] = form[k] /\ text[b + (k - 1)] = c + (k - 1)
        BY <2>6, <2>7, <4>1
      <4>3. c + (k - 1) = c + k - 1
        BY <1>1, <2>8
      <4> QED
        BY <4>2, <4>3
    <3> QED
      BY <3>1
  <2>10. StandsAt(wrote, form, c)
    BY <2>8, <2>9 DEF StandsAt
  <2>11. p \in c .. (c + l - 1)
    <3>1. j - b \in 0 .. (l - 1) /\ b + (j - b) = j
      BY <1>1, <2>1, <2>4, <2>5
    <3>2. text[j] = c + (j - b)
      BY <2>7, <3>1
    <3> QED
      BY <1>1, <2>1, <2>8, <3>1, <3>2, SMTT(30)
  <2>12. ASSUME NEW q \in c .. (c + l - 1), q \in Positions(out)
         PROVE  FALSE
    <3>1. PICK a \in 1 .. Len(src) : out[a] = q /\ q # 0
      BY <1>3, <2>12 DEF Positions
    <3>2. src[a] \in 1 .. n /\ text[src[a]] = q
      BY <1>4, <3>1
    <3>3. q - c \in 0 .. (l - 1) /\ c + (q - c) = q
      BY <1>1, <2>8, SMTT(30)
    <3>4. text[b + (q - c)] = q /\ b + (q - c) \in 1 .. n
      <4> DEFINE k == q - c
      <4>1. k \in 0 .. (l - 1) /\ c + k = q
        BY <3>3
      <4> HIDE DEF k
      <4>2. text[b + k] = q
        BY <2>7, <4>1
      <4>3. b + k \in 1 .. n
        BY <1>1, <2>5, <4>1
      <4> QED
        BY <4>2, <4>3 DEF k
    <3>5. src[a] = b + (q - c)
      BY <3>1, <3>2, <3>4, KeptOnce
    <3>6. src[a] < b \/ b + l <= src[a]
      BY <2>4
    <3> HIDE DEF c
    <3> QED
      BY <1>1, <2>5, <3>3, <3>5, <3>6
  <2> QED
    BY <2>10, <2>11, <2>12 DEF Span
<1>8. ASSUME NEW c, StandsAt(wrote, form, c), \A p \in Span(form, c) : p \in Positions(out)
      PROVE  FALSE
  <2>1. c \in 1 .. Len(wrote) /\ \A k \in 1 .. l : wrote[c + k - 1] = form[k]
    BY <1>8 DEF StandsAt
  <2>2. \A k \in 0 .. (l - 1) : c + k \in Positions(out)
    BY <1>1, <1>8, <2>1 DEF Span
  <2>3. c + 0 = c /\ 0 \in 0 .. (l - 1) /\ l - 1 \in Nat
    BY <1>1, <2>1
  <2>4. PICK a \in 1 .. Len(src) : out[a] = c /\ c # 0
    BY <1>3, <2>2, <2>3, ZenonT(40) DEF Positions
  <2> DEFINE i == src[a]
  <2>5. i \in 1 .. n /\ text[i] = c /\ text[i] # 0 /\ i # 0
    BY <1>1, <1>4, <2>4
  <2>6. \A k \in 0 .. (l - 1) : text[i] + k \in Positions(text)
    BY <1>6, <2>2, <2>5
  <2>7. \A k \in 0 .. (l - 1) : i + k \in 1 .. n /\ text[i + k] = c + k
    <3> DEFINE m == l - 1
    <3>1. m \in Nat /\ i \in 1 .. Len(text) /\ text[i] # 0
      BY <2>3, <2>5
    <3>2. Following(text, i, m)
      BY <2>6 DEF Following
    <3> HIDE DEF i, m
    <3>3. Running(text, i, m)
      BY <3>1, <3>2, RunDown, Zenon
    <3> QED
      BY <2>5, <3>3 DEF m, Running
  <2>8. R!At_(wrote, text, form, i)
    <3>1. i + l - 1 <= n
      <4>1. l - 1 \in 0 .. (l - 1)
        BY <2>3
      <4>2. i + (l - 1) \in 1 .. n
        BY <2>7, <4>1
      <4> QED
        BY <1>1, <2>5, <4>2
    <3>2. ASSUME NEW k \in DOMAIN form
          PROVE  text[i + k - 1] # R!Mark /\ wrote[text[i + k - 1]] = form[k]
      <4>1. k \in 1 .. l /\ k - 1 \in 0 .. (l - 1) /\ i + k - 1 = i + (k - 1) /\ c + (k - 1) = c + k - 1
        <5>1. DOMAIN form = 1 .. l
          OBVIOUS
        <5>2. k \in 1 .. l /\ i \in Nat /\ c \in Nat /\ k \in Nat
          BY <1>1, <2>1, <2>5, <5>1
        <5> HIDE DEF i, l
        <5> QED
          BY <1>1, <5>2
      <4>2. text[i + k - 1] = c + k - 1
        BY <2>7, <4>1
      <4>3. c + k - 1 # 0
        BY <2>1, <4>1
      <4> QED
        BY <2>1, <4>1, <4>2, <4>3 DEF R!Mark
    <3> HIDE DEF i
    <3> QED
      BY <3>1, <3>2 DEF R!At_
  <2>9. Missed(wrote, text, form, src)
    BY <1>2 DEF Scan
  <2> QED
    BY <2>5, <2>8, <2>9 DEF Missed
<1>9. Struck(wrote, text, form, out)
  BY <1>5, <1>6, <1>7, <1>8 DEF Struck
<1> QED
  BY <1>9 DEF out
-----------------------------------------------------------------------------
(* What becomes of a text that must not be told *)

Forms(secrets) ==
  {secrets[k] : k \in DOMAIN secrets} \cup {R!Trimmed(R!Escaped(secrets[k])) : k \in DOMAIN secrets}

(* It stands in what Gitea wrote and shares characters only with texts that*)
(* hold it or that it holds.                                               *)
Apart(wrote, secrets, o) ==
  /\ o \in R!Occurrences(wrote, secrets)
  /\ \A p \in R!Occurrences(wrote, secrets) : ~R!Cross(o, p) /\ ~R!Cross(p, o)
Size(o) == o[2] - o[1] + 1

Gone(text, o) == \A p \in o[1] .. o[2] : p \notin Positions(text)
Whole(text, o) == \A p \in o[1] .. o[2] : p \in Positions(text)
Fate(wrote, text, o, gone) == Kept(wrote, text) /\ (Gone(text, o) \/ (~gone /\ Whole(text, o)))

(* What JSON writes of a text is a text.                                   *)
LEMMA EscapedType ==
  ASSUME NEW text \in Seq(Character)
  PROVE  R!Trimmed(R!Escaped(text)) \in Seq(Character)
<1> DEFINE n == Len(text)
           q == [i \in DOMAIN text |-> IF text[i] \in {R!Quote, R!Backslash} THEN <<R!Backslash, text[i]>> ELSE <<text[i]>>]
           e == R!Escaped(text)
<1>1. n \in Nat /\ DOMAIN text = 1 .. n /\ \A i \in 1 .. n : text[i] \in Character
  OBVIOUS
<1>2. R!Backslash \in Character
  BY DEF Character
<1>3. \A x, y \in Character : <<x, y>> \in Seq(Character) /\ <<x>> \in Seq(Character)
  OBVIOUS
<1>4. q \in [1 .. n -> Seq(Character)] /\ DOMAIN q = 1 .. n /\ q = [i \in 1 .. n |-> q[i]]
  <2>1. \A i \in 1 .. n : (IF text[i] \in {R!Quote, R!Backslash} THEN <<R!Backslash, text[i]>> ELSE <<text[i]>>) \in Seq(Character)
    BY <1>1, <1>2, <1>3
  <2> QED
    BY <1>1, <2>1
<1>5. e = FlattenSeq(q)
  BY Zenon DEF R!Escaped, R!FlattenSeq, FlattenSeq
<1> HIDE DEF q, n, e
<1>6. FlattenSeq(q) = Joined(q, n) /\ n \in 0 .. n
  BY <1>1, <1>4, JoinedAll
<1>7. Joined(q, n) \in Seq(Character)
  BY <1>1, <1>4, <1>6, JoinedType
<1>8. e \in Seq(Character)
  BY <1>5, <1>6, <1>7
<1>9. R!Trimmed(e) \in Seq(Character)
  <2>1. SubSeq(e, 1, Len(e) - 1) \in Seq(Character)
    BY <1>8
  <2>2. R!Trimmed(e) = e \/ R!Trimmed(e) = SubSeq(e, 1, Len(e) - 1)
    BY DEF R!Trimmed, R!Front
  <2> QED
    BY <1>8, <2>1, <2>2
<1> QED
  BY <1>9 DEF e

LEMMA FormsType ==
  ASSUME NEW secrets \in Seq(Seq(Character)), NEW form \in Forms(secrets)
  PROVE  form \in Seq(Character)
<1>1. \A k \in DOMAIN secrets : secrets[k] \in Seq(Character)
  OBVIOUS
<1> QED
  BY <1>1, EscapedType DEF Forms

LEMMA OccurrencesAre ==
  ASSUME NEW wrote \in Seq(Character), NEW secrets, NEW o
  PROVE  o \in R!Occurrences(wrote, secrets) <=>
           /\ o \in (1 .. Len(wrote)) \X (1 .. Len(wrote)) /\ o[1] <= o[2]
           /\ SubSeq(wrote, o[1], o[2]) \in Forms(secrets)
<1>1. DOMAIN wrote = 1 .. Len(wrote)
  OBVIOUS
<1>2. \A x : x \in Forms(secrets) <=> \E k \in DOMAIN secrets : x \in {secrets[k], R!Trimmed(R!Escaped(secrets[k]))}
  BY DEF Forms
<1> QED
  BY <1>1, <1>2 DEF R!Occurrences

(* Where a form stands there is an occurrence, and the other way round.    *)
LEMMA StandingIs ==
  ASSUME NEW wrote \in Seq(Character), NEW form \in Seq(Character), form # <<>>, NEW c, StandsAt(wrote, form, c)
  PROVE  LET d == c + Len(form) - 1
         IN SubSeq(wrote, c, d) = form /\ <<c, d>> \in (1 .. Len(wrote)) \X (1 .. Len(wrote)) /\ c <= d
<1> DEFINE d == c + Len(form) - 1
           s == SubSeq(wrote, c, d)
<1>1. /\ c \in 1 .. Len(wrote) /\ d <= Len(wrote) /\ Len(wrote) \in Nat /\ Len(form) \in Nat /\ Len(form) >= 1
      /\ \A k \in 1 .. Len(form) : wrote[c + k - 1] = form[k]
  BY DEF StandsAt
<1>2. d \in 1 .. Len(wrote) /\ c <= d
  BY <1>1
<1>3. s \in Seq(Character) /\ Len(s) = Len(form) /\ \A k \in 1 .. Len(form) : s[k] = wrote[c + k - 1]
  <2>1. d - c + 1 = Len(form) /\ c \in Int /\ d \in Int
    BY <1>1
  <2> HIDE DEF d
  <2> QED
    BY <1>1, <1>2, <2>1
<1> HIDE DEF s, d
<1>4. s = form
  BY <1>1, <1>3
<1> QED
  BY <1>1, <1>2, <1>4 DEF s, d

LEMMA OccurrenceStands ==
  ASSUME NEW wrote \in Seq(Character), NEW o \in (1 .. Len(wrote)) \X (1 .. Len(wrote)), o[1] <= o[2]
  PROVE  LET form == SubSeq(wrote, o[1], o[2])
         IN form \in Seq(Character) /\ form # <<>> /\ Len(form) = Size(o)
            /\ StandsAt(wrote, form, o[1]) /\ Span(form, o[1]) = o[1] .. o[2]
<1> DEFINE form == SubSeq(wrote, o[1], o[2])
<1>1. o[1] \in 1 .. Len(wrote) /\ o[2] \in 1 .. Len(wrote) /\ Len(wrote) \in Nat
  OBVIOUS
<1>2. form \in Seq(Character) /\ Len(form) = o[2] - o[1] + 1 /\ \A k \in 1 .. Len(form) : form[k] = wrote[o[1] + k - 1]
  BY <1>1
<1> HIDE DEF form
<1>3. Len(form) = Size(o) /\ Len(form) >= 1 /\ o[1] + Len(form) - 1 = o[2]
  BY <1>1, <1>2 DEF Size
<1>4. StandsAt(wrote, form, o[1])
  BY <1>1, <1>2, <1>3 DEF StandsAt
<1>5. form # <<>> /\ Span(form, o[1]) = o[1] .. o[2]
  BY <1>3 DEF Span
<1> QED
  BY <1>2, <1>3, <1>4, <1>5 DEF form

(* Forms that are not shorter take all of it or nothing, and its own form  *)
(* takes what is left.                                                     *)
LEMMA StrikeFate ==
  ASSUME NEW wrote \in Seq(Character), NEW secrets \in Seq(Seq(Character)), NEW o, Apart(wrote, secrets, o),
         NEW text, NEW gone, Fate(wrote, text, o, gone),
         NEW length \in Nat, length >= 1, gone \/ length >= Size(o), NEW form \in Forms(secrets)
  PROVE  LET out == R!Strike(wrote, text, form, length)
         IN /\ Fate(wrote, out, o, gone)
            /\ Len(form) = length /\ form = SubSeq(wrote, o[1], o[2]) => Fate(wrote, out, o, TRUE)
<1> DEFINE out == R!Strike(wrote, text, form, length)
<1>1. form \in Seq(Character)
  BY FormsType
<1>2. CASE Len(form) # length
  <2>1. out = text
    BY <1>2 DEF R!Strike
  <2> QED
    BY <1>2, <2>1
<1>3. CASE Len(form) = length
  <2>1. form # <<>> /\ out = R!Replace(wrote, text, form) /\ Kept(wrote, text)
    BY <1>1, <1>3 DEF R!Strike, Fate
  <2>2. Struck(wrote, text, form, out)
    BY <1>1, <2>1, ReplaceStrikes
  <2> HIDE DEF out
  <2>3. Kept(wrote, out) /\ Positions(out) \subseteq Positions(text)
    BY <2>2 DEF Struck
  <2>4. o \in (1 .. Len(wrote)) \X (1 .. Len(wrote)) /\ o[1] <= o[2] /\ Len(wrote) \in Nat
    BY OccurrencesAre DEF Apart
  <2>5. Gone(text, o) => Gone(out, o)
    BY <2>3 DEF Gone
  <2>6. ASSUME ~gone, Whole(text, o), ~Whole(out, o)
        PROVE  Gone(out, o)
    <3>1. PICK p \in o[1] .. o[2] : p \in Positions(text) /\ p \notin Positions(out)
      BY <2>6 DEF Whole
    <3>2. PICK c : StandsAt(wrote, form, c) /\ p \in Span(form, c) /\ Span(form, c) \cap Positions(out) = {}
      BY <2>2, <3>1 DEF Struck
    <3> DEFINE d == c + Len(form) - 1
               q == <<c, d>>
    <3>3. SubSeq(wrote, c, d) = form /\ q \in (1 .. Len(wrote)) \X (1 .. Len(wrote)) /\ c <= d
      BY <1>1, <2>1, <3>2, StandingIs
    <3>4. q[1] = c /\ q[2] = d
      OBVIOUS
    <3>5. q \in R!Occurrences(wrote, secrets)
      <4> HIDE DEF q, d
      <4> QED
        BY <3>3, <3>4, OccurrencesAre
    <3>6. ~R!Cross(o, q) /\ ~R!Cross(q, o)
      BY <3>5 DEF Apart
    <3>7. c <= p /\ p <= d /\ o[1] <= p /\ p <= o[2] /\ c \in Int /\ d \in Int /\ p \in Int /\ o[1] \in Int /\ o[2] \in Int
      BY <2>4, <3>1, <3>2, <3>3 DEF Span
    <3>8. d - c >= o[2] - o[1]
      <4>1. d - c + 1 = length
        BY <1>1, <1>3, <3>7
      <4> QED
        BY <2>4, <2>6, <3>7, <4>1 DEF Size
    <3> HIDE DEF d, q
    <3>9. c <= o[1] /\ o[2] <= d
      <4>1. ~(o[1] < c /\ c <= o[2] /\ o[2] < d) /\ ~(c < o[1] /\ o[1] <= d /\ d < o[2])
        BY <3>4, <3>6 DEF R!Cross
      <4> QED
        BY <3>7, <3>8, <4>1
    <3>10. \A r \in o[1] .. o[2] : r \in Span(form, c)
      BY <3>7, <3>9 DEF Span, d
    <3> QED
      BY <3>2, <3>10 DEF Gone
  <2>7. Fate(wrote, out, o, gone)
    BY <2>3, <2>5, <2>6 DEF Fate
  <2>8. ASSUME form = SubSeq(wrote, o[1], o[2])
        PROVE  Gone(out, o)
    <3>1. StandsAt(wrote, form, o[1]) /\ Span(form, o[1]) = o[1] .. o[2]
      BY <2>4, <2>8, OccurrenceStands
    <3>2. ~Whole(out, o)
      BY <2>2, <3>1 DEF Struck, Whole
    <3> QED
      BY <2>7, <3>2 DEF Fate
  <2> QED
    BY <2>3, <2>7, <2>8 DEF Fate, out
<1> QED
  BY <1>2, <1>3
-----------------------------------------------------------------------------
(* All forms of one length, and then all lengths *)

(* Striking and passing leave a text.                                      *)
LEMMA StrikeType ==
  ASSUME NEW wrote \in Seq(Character), NEW text \in Seq(0 .. Len(wrote)), NEW form \in Seq(Character),
         NEW length \in Nat, length >= 1
  PROVE  R!Strike(wrote, text, form, length) \in Seq(0 .. Len(wrote))
<1>1. CASE Len(form) # length
  BY <1>1 DEF R!Strike
<1>2. CASE Len(form) = length
  <2>1. form # <<>>
    BY <1>2
  <2>2. PICK src : Scan(wrote, text, form, R!Replace(wrote, text, form), Len(text) + 1, src)
    BY <2>1, ReplaceScans
  <2>3. R!Replace(wrote, text, form) \in Seq(0 .. Len(wrote))
    BY <2>2 DEF Scan
  <2> QED
    BY <1>2, <2>3 DEF R!Strike
<1> QED
  BY <1>1, <1>2

StrikeBoth(wrote, text, secret, length) ==
  R!Strike(wrote, R!Strike(wrote, text, secret, length), R!Trimmed(R!Escaped(secret)), length)
PassTo(wrote, text, secrets, length, f) ==
  [n \in 0 .. Len(secrets) |-> IF n = 0 THEN text ELSE StrikeBoth(wrote, f[n - 1], secrets[n], length)]
IsPass(wrote, text, secrets, length, f) == f = PassTo(wrote, text, secrets, length, f)

LEMMA PassExists ==
  ASSUME NEW wrote \in Seq(Character), NEW secrets \in Seq(Seq(Character)), NEW text \in Seq(0 .. Len(wrote)),
         NEW length \in Nat, length >= 1
  PROVE  \E f : /\ IsPass(wrote, text, secrets, length, f)
                /\ R!Pass(wrote, text, secrets, length) = f[Len(secrets)]
                /\ f[Len(secrets)] \in Seq(0 .. Len(wrote))
<1> DEFINE S == Seq(0 .. Len(wrote))
           n == Len(secrets)
           G == [p \in (1 .. n) \X S |-> StrikeBoth(wrote, p[2], secrets[p[1]], length)]
           c == CHOOSE f : f = PassTo(wrote, text, secrets, length, f)
<1>1. n \in Nat /\ text \in S /\ n \in 0 .. n
  OBVIOUS
<1>2. ASSUME NEW i \in 1 .. n, NEW x \in S
      PROVE  StrikeBoth(wrote, x, secrets[i], length) \in S
  <2>1. secrets[i] \in Seq(Character)
    OBVIOUS
  <2>2. R!Trimmed(R!Escaped(secrets[i])) \in Seq(Character)
    BY <2>1, EscapedType
  <2>3. R!Strike(wrote, x, secrets[i], length) \in S
    BY <2>1, StrikeType
  <2> QED
    BY <2>2, <2>3, StrikeType DEF StrikeBoth
<1>3. R!Pass(wrote, text, secrets, length) = c[n]
  BY Zenon DEF R!Pass, PassTo, StrikeBoth
<1> HIDE DEF S, n
<1>4. G \in [(1 .. n) \X S -> S]
  BY <1>2
<1>5. \A i \in 1 .. n, x \in S : G[<<i, x>>] = StrikeBoth(wrote, x, secrets[i], length)
  OBVIOUS
<1> HIDE DEF G, c
<1>6. PICK f \in [0 .. n -> S] : f = Steps(text, G, n, f)
  <2>1. HasSteps(S, text, G, n)
    BY <1>1, <1>4, StepsExist
  <2> QED
    BY <2>1 DEF HasSteps
<1>7. ASSUME NEW i \in 0 .. n
      PROVE  (IF i = 0 THEN text ELSE G[<<i, f[i - 1]>>]) = IF i = 0 THEN text ELSE StrikeBoth(wrote, f[i - 1], secrets[i], length)
  <2>1. CASE i = 0
    BY <2>1
  <2>2. CASE i # 0
    <3>1. i \in 1 .. n /\ i - 1 \in 0 .. n
      BY <1>1, <2>2
    <3>2. f[i - 1] \in S
      BY <3>1
    <3> QED
      BY <1>5, <2>2, <3>1, <3>2
  <2> QED
    BY <2>1, <2>2
<1>8. f = [i \in 0 .. n |-> IF i = 0 THEN text ELSE StrikeBoth(wrote, f[i - 1], secrets[i], length)]
  BY <1>6, <1>7 DEF Steps
<1>9. f = PassTo(wrote, text, secrets, length, f)
  BY <1>8, Zenon DEF PassTo, n
<1>10. c = PassTo(wrote, text, secrets, length, c)
  BY <1>9, Zenon DEF c
<1>11. \A i \in 0 .. n : c[i] = IF i = 0 THEN text ELSE StrikeBoth(wrote, c[i - 1], secrets[i], length)
  BY <1>10 DEF PassTo, n
<1> DEFINE Bad == {i \in 0 .. n : c[i] \notin S}
<1>12. ASSUME Bad # {}
       PROVE  FALSE
  <2>0. Bad \in SUBSET Nat
    OBVIOUS
  <2>1. PICK m \in Bad : \A k \in Bad : m <= k
    <3> HIDE DEF Bad
    <3> QED
      BY <1>12, <2>0, LeastNatural
  <2>2. m \in 0 .. n /\ c[m] \notin S
    BY <2>1
  <2>3. m # 0
    BY <1>1, <1>11, <2>2
  <2>4. m - 1 \in 0 .. n /\ ~(m <= m - 1) /\ m \in 1 .. n
    BY <1>1, <2>2, <2>3
  <2>5. c[m - 1] \in S
    BY <2>1, <2>4
  <2> QED
    BY <1>2, <1>11, <2>2, <2>3, <2>4, <2>5
<1>13. c[n] \in S
  <2>1. Bad = {}
    <3> HIDE DEF Bad
    <3> QED
      BY <1>12
  <2> QED
    BY <1>1, <2>1
<1> QED
  BY <1>3, <1>10, <1>13 DEF IsPass, S, n

(* A pass over the forms of one length takes all of it or nothing, and the *)
(* pass over those of its own length takes what is left.                   *)
LEMMA PassFate ==
  ASSUME NEW wrote \in Seq(Character), NEW secrets \in Seq(Seq(Character)), NEW o, Apart(wrote, secrets, o),
         NEW text, NEW gone, Fate(wrote, text, o, gone),
         NEW length \in Nat, length >= 1, gone \/ length >= Size(o)
  PROVE  LET out == R!Pass(wrote, text, secrets, length)
         IN Fate(wrote, out, o, gone) /\ (length = Size(o) => Fate(wrote, out, o, TRUE))
<1> DEFINE n == Len(secrets)
           own == SubSeq(wrote, o[1], o[2])
<1>1. n \in Nat /\ n \in 0 .. n /\ DOMAIN secrets = 1 .. n
  OBVIOUS
<1>2. text \in Seq(0 .. Len(wrote))
  BY DEF Fate, Kept
<1>3. PICK c : IsPass(wrote, text, secrets, length, c) /\ R!Pass(wrote, text, secrets, length) = c[n]
  BY <1>2, PassExists
<1>4. own \in Forms(secrets) /\ Len(own) = Size(o)
  <2>1. o \in (1 .. Len(wrote)) \X (1 .. Len(wrote)) /\ o[1] <= o[2] /\ own \in Forms(secrets)
    BY OccurrencesAre DEF Apart
  <2>2. Len(own) = Size(o)
    BY <2>1, OccurrenceStands
  <2> QED
    BY <2>1, <2>2
<1> HIDE DEF own
<1>5. PICK at \in 1 .. n : own \in {secrets[at], R!Trimmed(R!Escaped(secrets[at]))}
  BY <1>1, <1>4 DEF Forms
<1>6. \A i \in 0 .. n : c[i] = IF i = 0 THEN text ELSE StrikeBoth(wrote, c[i - 1], secrets[i], length)
  BY <1>3 DEF IsPass, PassTo
<1>7. \A i \in 1 .. n : secrets[i] \in Forms(secrets) /\ R!Trimmed(R!Escaped(secrets[i])) \in Forms(secrets)
  BY <1>1 DEF Forms
<1> HIDE DEF n
<1> DEFINE Held(i) == Fate(wrote, c[i], o, gone) /\ (length = Size(o) /\ at <= i => Fate(wrote, c[i], o, TRUE))
           Bad == {i \in 0 .. n : ~Held(i)}
<1>8. ASSUME Bad # {}
      PROVE  FALSE
  <2>0. Bad \in SUBSET Nat
    <3> HIDE DEF Held
    <3> QED
      BY <1>1
  <2>1. PICK m \in Bad : \A k \in Bad : m <= k
    <3> HIDE DEF Bad
    <3> QED
      BY <1>8, <2>0, LeastNatural
  <2>2. m \in 0 .. n /\ ~Held(m)
    BY <2>1
  <2>3. m # 0
    <3>1. c[0] = text
      BY <1>1, <1>6
    <3>2. ~(at <= 0)
      OBVIOUS
    <3> QED
      BY <2>2, <3>1, <3>2
  <2>4. m - 1 \in 0 .. n /\ ~(m <= m - 1) /\ m \in 1 .. n
    BY <1>1, <2>2, <2>3
  <2>5. Held(m - 1)
    BY <2>1, <2>4
  <2> DEFINE raw == secrets[m]
             quoted == R!Trimmed(R!Escaped(secrets[m]))
             before == c[m - 1]
             half == R!Strike(wrote, before, raw, length)
  <2>6. c[m] = R!Strike(wrote, half, quoted, length)
    BY <1>6, <2>3, <2>4 DEF StrikeBoth
  <2>7. raw \in Forms(secrets) /\ quoted \in Forms(secrets)
    BY <1>7, <2>4
  <2> HIDE DEF raw, quoted, half, before
  <2>8. ASSUME NEW form \in Forms(secrets), NEW from, NEW done, Fate(wrote, from, o, done), done \/ length >= Size(o)
        PROVE  /\ Fate(wrote, R!Strike(wrote, from, form, length), o, done)
               /\ Len(form) = length /\ form = own => Fate(wrote, R!Strike(wrote, from, form, length), o, TRUE)
    BY <2>8, StrikeFate DEF own
  <2>9. Fate(wrote, before, o, gone)
    BY <2>5 DEF before
  <2>10. Fate(wrote, half, o, gone)
    BY <2>7, <2>8, <2>9 DEF half
  <2>11. Fate(wrote, c[m], o, gone)
    BY <2>6, <2>7, <2>8, <2>10
  <2>12. ASSUME length = Size(o), at <= m
         PROVE  Fate(wrote, c[m], o, TRUE)
    <3>1. CASE at <= m - 1
      <4>1. Fate(wrote, before, o, TRUE)
        BY <2>5, <2>12, <3>1 DEF before
      <4>2. Fate(wrote, half, o, TRUE)
        BY <2>7, <2>8, <4>1 DEF half
      <4> QED
        BY <2>6, <2>7, <2>8, <4>2
    <3>2. CASE ~(at <= m - 1)
      <4>1. at = m
        BY <1>1, <2>4, <2>12, <3>2
      <4>2. own = raw \/ own = quoted
        BY <1>5, <4>1 DEF raw, quoted
      <4>3. CASE own = raw
        <5>1. Fate(wrote, half, o, TRUE)
          BY <1>4, <2>7, <2>8, <2>9, <2>12, <4>3 DEF half
        <5> QED
          BY <2>6, <2>7, <2>8, <5>1
      <4>4. CASE own = quoted
        BY <1>4, <2>6, <2>7, <2>8, <2>10, <2>12, <4>4
      <4> QED
        BY <4>2, <4>3, <4>4
    <3> QED
      BY <3>1, <3>2
  <2>13. Held(m)
    BY <2>11, <2>12
  <2> QED
    BY <2>2, <2>13
<1>9. Held(n)
  <2>1. Bad = {}
    <3> HIDE DEF Bad
    <3> QED
      BY <1>8
  <2> QED
    BY <1>1, <2>1
<1>10. at <= n
  BY <1>1
<1> QED
  BY <1>3, <1>9, <1>10

RedactTo(wrote, text, secrets, f) ==
  [k \in 0 .. Len(wrote) |-> IF k = 0 THEN text ELSE R!Pass(wrote, f[k - 1], secrets, Len(wrote) - k + 1)]

(* Redact is such a function too.                                          *)
LEMMA RedactIs ==
  ASSUME NEW wrote \in Seq(Character), NEW secrets \in Seq(Seq(Character)), NEW text \in Seq(0 .. Len(wrote))
  PROVE  \E f : f = RedactTo(wrote, text, secrets, f) /\ R!Redact(wrote, text, secrets) = f[Len(wrote)]
<1> DEFINE S == Seq(0 .. Len(wrote))
           n == Len(wrote)
           pass(x, i) == R!Pass(wrote, x, secrets, Len(wrote) - i + 1)
           G == [p \in (1 .. n) \X S |-> pass(p[2], p[1])]
           c == CHOOSE f : f = RedactTo(wrote, text, secrets, f)
<1>1. n \in Nat /\ text \in S /\ n \in 0 .. n
  OBVIOUS
<1>2. ASSUME NEW i \in 1 .. n, NEW x \in S
      PROVE  pass(x, i) \in S
  <2>1. Len(wrote) - i + 1 \in Nat /\ Len(wrote) - i + 1 >= 1
    OBVIOUS
  <2> QED
    BY <2>1, PassExists
<1>3. R!Redact(wrote, text, secrets) = c[n]
  BY Zenon DEF R!Redact, RedactTo
<1>4. \A f : RedactTo(wrote, text, secrets, f) = [i \in 0 .. n |-> IF i = 0 THEN text ELSE pass(f[i - 1], i)]
  BY DEF RedactTo
<1> HIDE DEF S, n, pass
<1>5. G \in [(1 .. n) \X S -> S]
  BY <1>2
<1>6. \A i \in 1 .. n, x \in S : G[<<i, x>>] = pass(x, i)
  OBVIOUS
<1> HIDE DEF G, c
<1>7. PICK f \in [0 .. n -> S] : f = Steps(text, G, n, f)
  <2>1. HasSteps(S, text, G, n)
    BY <1>1, <1>5, StepsExist
  <2> QED
    BY <2>1 DEF HasSteps
<1>8. ASSUME NEW i \in 0 .. n
      PROVE  (IF i = 0 THEN text ELSE G[<<i, f[i - 1]>>]) = IF i = 0 THEN text ELSE pass(f[i - 1], i)
  <2>1. CASE i = 0
    BY <2>1
  <2>2. CASE i # 0
    <3>1. i \in 1 .. n /\ i - 1 \in 0 .. n
      BY <1>1, <2>2
    <3>2. f[i - 1] \in S
      BY <3>1
    <3> QED
      BY <1>6, <2>2, <3>1, <3>2
  <2> QED
    BY <2>1, <2>2
<1>9. f = [i \in 0 .. n |-> IF i = 0 THEN text ELSE pass(f[i - 1], i)]
  BY <1>7, <1>8 DEF Steps
<1>10. f = RedactTo(wrote, text, secrets, f)
  BY <1>4, <1>9
<1>11. c = RedactTo(wrote, text, secrets, c)
  BY <1>10, Zenon DEF c
<1> QED
  BY <1>3, <1>11 DEF n

(* Longest first: while longer forms are struck it is whole or gone, and   *)
(* after its own length it is gone.                                        *)
LEMMA RedactFate ==
  ASSUME NEW wrote \in Seq(Character), NEW secrets \in Seq(Seq(Character)), NEW o, Apart(wrote, secrets, o)
  PROVE  LET out == R!Redact(wrote, [i \in DOMAIN wrote |-> i], secrets)
         IN Kept(wrote, out) /\ Gone(out, o)
<1> DEFINE N == Len(wrote)
           text == [i \in DOMAIN wrote |-> i]
<1>1. N \in Nat /\ DOMAIN wrote = 1 .. N
  OBVIOUS
<1>2. o \in (1 .. N) \X (1 .. N) /\ o[1] <= o[2]
  BY OccurrencesAre DEF Apart
<1>3. Size(o) \in 1 .. N
  BY <1>1, <1>2 DEF Size
<1>4. text \in Seq(0 .. N) /\ Len(text) = N /\ \A i \in 1 .. N : text[i] = i
  <2>1. text = [i \in 1 .. N |-> i]
    BY <1>1
  <2> HIDE DEF text, N
  <2>2. text \in [1 .. N -> 0 .. N]
    BY <1>1, <2>1
  <2> QED
    BY <1>1, <2>1, <2>2
<1> HIDE DEF text, N
<1>5. Fate(wrote, text, o, FALSE)
  <2>1. Kept(wrote, text)
    BY <1>1, <1>4 DEF Kept, N
  <2>2. Whole(text, o)
    BY <1>1, <1>2, <1>4 DEF Whole, Positions
  <2> QED
    BY <2>1, <2>2 DEF Fate
<1>6. PICK c : c = RedactTo(wrote, text, secrets, c) /\ R!Redact(wrote, text, secrets) = c[N]
  BY <1>4, RedactIs DEF N
<1>7. \A k \in 0 .. N : c[k] = IF k = 0 THEN text ELSE R!Pass(wrote, c[k - 1], secrets, N - k + 1)
  BY <1>6 DEF RedactTo, N
<1> DEFINE Held(k) == Fate(wrote, c[k], o, FALSE) /\ (N - k + 1 <= Size(o) => Fate(wrote, c[k], o, TRUE))
           Bad == {k \in 0 .. N : ~Held(k)}
<1>8. ASSUME Bad # {}
      PROVE  FALSE
  <2>0. Bad \in SUBSET Nat
    <3> HIDE DEF Held
    <3> QED
      BY <1>1
  <2>1. PICK m \in Bad : \A k \in Bad : m <= k
    <3> HIDE DEF Bad
    <3> QED
      BY <1>8, <2>0, LeastNatural
  <2>2. m \in 0 .. N /\ ~Held(m)
    BY <2>1
  <2>3. m # 0
    <3>1. c[0] = text /\ ~(N - 0 + 1 <= Size(o))
      BY <1>1, <1>3, <1>7
    <3> QED
      BY <1>5, <2>2, <3>1
  <2>4. m - 1 \in 0 .. N /\ ~(m <= m - 1) /\ m \in 1 .. N
    BY <1>1, <2>2, <2>3
  <2>5. Held(m - 1)
    BY <2>1, <2>4
  <2> DEFINE length == N - m + 1
             before == c[m - 1]
  <2>6. length \in Nat /\ length >= 1 /\ N - (m - 1) + 1 = length + 1
    BY <1>1, <2>4
  <2>7. c[m] = R!Pass(wrote, before, secrets, length)
    BY <1>7, <2>3, <2>4
  <2>8. Fate(wrote, before, o, FALSE) /\ (length + 1 <= Size(o) => Fate(wrote, before, o, TRUE))
    BY <2>5, <2>6
  <2> HIDE DEF length, before
  <2>9. CASE length + 1 <= Size(o)
    <3>1. Fate(wrote, before, o, TRUE)
      BY <2>8, <2>9
    <3>2. Fate(wrote, c[m], o, TRUE)
      BY <2>6, <2>7, <3>1, PassFate
    <3>3. Fate(wrote, c[m], o, FALSE)
      BY <3>2 DEF Fate
    <3> QED
      BY <2>2, <3>2, <3>3
  <2>10. CASE ~(length + 1 <= Size(o))
    <3>1. length >= Size(o)
      BY <1>3, <2>6, <2>10
    <3>2. Fate(wrote, c[m], o, FALSE) /\ (length = Size(o) => Fate(wrote, c[m], o, TRUE))
      BY <2>6, <2>7, <2>8, <3>1, PassFate
    <3>3. length <= Size(o) => length = Size(o)
      BY <1>3, <2>6, <3>1
    <3> QED
      BY <2>2, <3>2, <3>3 DEF length
  <2> QED
    BY <2>9, <2>10
<1>9. Held(N)
  <2>1. N \in 0 .. N
    BY <1>1
  <2>2. Bad = {}
    <3> HIDE DEF Bad
    <3> QED
      BY <1>8
  <2> QED
    BY <2>1, <2>2
<1>10. N - N + 1 <= Size(o)
  BY <1>1, <1>3
<1>11. Kept(wrote, c[N]) /\ Gone(c[N], o)
  BY <1>9, <1>10 DEF Fate
<1> QED
  BY <1>6, <1>11 DEF text
-----------------------------------------------------------------------------
(* What is told of a refusal *)

LEMMA TextsAreCharacters == Seq(STRING) \subseteq Seq(Character) /\ Seq(Seq(STRING)) \subseteq Seq(Seq(Character))
<1>1. \A S, U : S \subseteq U => Seq(S) \subseteq Seq(U)
  OBVIOUS
<1>2. STRING \subseteq Character
  BY DEF Character
<1>3. Seq(STRING) \subseteq Seq(Character)
  BY <1>1, <1>2, Zenon
<1> QED
  BY <1>1, <1>3, Zenon

(* Cutting leaves a beginning, which has no position that was not there.   *)
LEMMA CutKeeps ==
  ASSUME NEW N \in Nat, NEW text \in Seq(0 .. N), NEW p, p # 0, p \in R!ToSet(R!Cut(text))
  PROVE  p \in Positions(text)
<1> DEFINE n == IF Len(text) < MaxReason THEN Len(text) ELSE MaxReason
<1>1. MaxReason \in Nat /\ Len(text) \in Nat
  <2>1. MaxReason \in Nat \ {0}
    BY ClientAssumption
  <2>2. Len(text) \in Nat
    OBVIOUS
  <2> QED
    BY <2>1, <2>2
<1>2. n \in Nat /\ n <= Len(text) /\ R!Cut(text) = SubSeq(text, 1, n)
  BY <1>1 DEF R!Cut
<1> HIDE DEF n
<1>3. Len(SubSeq(text, 1, n)) = n /\ DOMAIN SubSeq(text, 1, n) = 1 .. n /\ \A i \in 1 .. n : SubSeq(text, 1, n)[i] = text[i]
  BY <1>1, <1>2
<1>4. p \in {SubSeq(text, 1, n)[i] : i \in DOMAIN SubSeq(text, 1, n)}
  BY <1>2 DEF R!ToSet
<1>5. PICK i \in 1 .. n : p = text[i]
  BY <1>3, <1>4
<1>6. i \in 1 .. Len(text)
  BY <1>1, <1>2
<1> QED
  BY <1>5, <1>6 DEF Positions

(* Of what shares no character with another secret but by holding it or    *)
(* being held, nothing is told.                                            *)
LEMMA ReduceTellsNothing ==
  ASSUME NEW wrote \in Seq(STRING), NEW secrets \in Seq(Seq(STRING)), NEW o, Apart(wrote, secrets, o),
         NEW p \in o[1] .. o[2]
  PROVE  p \notin R!ToSet(R!Reduce(wrote, secrets))
<1> DEFINE out == R!Redact(wrote, [i \in DOMAIN wrote |-> i], secrets)
<1>1. wrote \in Seq(Character) /\ secrets \in Seq(Seq(Character))
  BY TextsAreCharacters, Zenon
<1>2. Kept(wrote, out) /\ Gone(out, o)
  BY <1>1, RedactFate
<1>3. R!Reduce(wrote, secrets) = R!Cut(out)
  BY Zenon DEF R!Reduce
<1> HIDE DEF out
<1>4. o \in (1 .. Len(wrote)) \X (1 .. Len(wrote)) /\ Len(wrote) \in Nat
  BY <1>1, OccurrencesAre DEF Apart
<1>5. p # 0
  BY <1>4
<1>6. out \in Seq(0 .. Len(wrote)) /\ p \notin Positions(out)
  BY <1>2 DEF Kept, Gone
<1> QED
  BY <1>3, <1>4, <1>5, <1>6, CutKeeps

RefusalHeld ==
  \/ refusal = R!Unanswered
  \/ /\ refusal.wrote \in Seq(STRING) /\ refusal.secrets \in Seq(Seq(STRING))
     /\ refusal.told \in {R!Generic, R!Reduce(refusal.wrote, refusal.secrets)}

LEMMA GenericTellsNothing == R!ToSet(R!Generic) = {}
  BY DEF R!Generic, R!ToSet

LEMMA ToldNothing == RefusalHeld => Scrubbed
<1> SUFFICES ASSUME RefusalHeld,
                    NEW o \in R!Occurrences(refusal.wrote, refusal.secrets),
                    \A p \in R!Occurrences(refusal.wrote, refusal.secrets) : ~R!Cross(o, p) /\ ~R!Cross(p, o),
                    NEW i \in o[1] .. o[2]
             PROVE  i \notin R!ToSet(refusal.told)
  BY DEF Scrubbed, R!Scrubbed
<1>1. CASE refusal.told = R!Generic
  BY <1>1, GenericTellsNothing
<1>2. CASE refusal = R!Unanswered
  <2>1. refusal.told = R!Generic
    BY <1>2 DEF R!Unanswered, R!Generic
  <2> QED
    BY <1>1, <2>1
<1>3. CASE /\ refusal.wrote \in Seq(STRING) /\ refusal.secrets \in Seq(Seq(STRING))
           /\ refusal.told = R!Reduce(refusal.wrote, refusal.secrets)
  <2>1. Apart(refusal.wrote, refusal.secrets, o)
    BY DEF Apart
  <2> QED
    BY <1>3, <2>1, ReduceTellsNothing
<1> QED
  BY <1>1, <1>2, <1>3 DEF RefusalHeld

(* What is told is nothing, or the reason reduced by the secrets of its    *)
(* own request.                                                            *)
LEMMA RefusingHolds ==
  ASSUME R!Refuse
  PROVE  RefusalHeld'
<1> DEFINE Possible == {R!OperationSecrets(arguments, token) : arguments \in Given, token \in Configured}
                        \cup {R!LoginSecrets(login) : login \in Logins}
<1>1. refusal'.wrote \in Reasons
  BY DEF R!Refuse
<1>2. refusal'.secrets \in Possible
  BY DEF R!Refuse
<1>3. refusal'.told \in {R!Generic, R!Reduce(refusal'.wrote, refusal'.secrets)}
  BY DEF R!Refuse, R!ReadError
<1>4. refusal'.wrote \in Seq(STRING)
  BY <1>1, TextsAssumption
<1>5. refusal'.secrets \in Seq(Seq(STRING))
  <2>1. \A secrets \in Possible : secrets \in Seq(Seq(STRING))
    BY TextsAssumption
  <2> QED
    BY <1>2, <2>1
<1> QED
  BY <1>3, <1>4, <1>5 DEF RefusalHeld

LEMMA RefusalKeeps ==
  RefusalHeld /\ [ClientNext]_<<doing, vars, listing, tokens, refusal>> => RefusalHeld'
<1> SUFFICES ASSUME RefusalHeld, [ClientNext]_<<doing, vars, listing, tokens, refusal>>
             PROVE  RefusalHeld'
  OBVIOUS
<1>1. CASE Refused
  BY <1>1, RefusingHolds DEF Refused
<1>2. CASE UNCHANGED refusal
  BY <1>2 DEF RefusalHeld
<1> QED
  BY <1>1, <1>2 DEF ClientNext, Tools, Lists, Looks

(* The reason a refusal gives holds nothing of a secret the request        *)
(* carried, however many values are secret, however they hold each other   *)
(* and wherever the reason is cut (redact, reduce_error_message,           *)
(* normalize_error_data, TokenLifecycleClient::refusal).                   *)
THEOREM NothingSecretIsTold == ClientSpec => []Scrubbed
<1>1. ClientInit => RefusalHeld
  BY DEF ClientInit, RefusalHeld
<1> QED
  BY <1>1, RefusalKeeps, ToldNothing, PTL DEF ClientSpec

(* A request such a client has Gitea sent carries exactly the arguments it *)
(* gave (dispatch_operation, OperationRequest::new).                       *)
THEOREM ClientRequestsAreFaithful == ClientSpec => []RequestFaithful
<1>1. ClientInit => RequestHeld
  BY DEF ClientInit, Init, RequestHeld
<1>2. ClientInv /\ RequestHeld /\ [ClientNext]_<<doing, vars, listing, tokens, refusal>> => RequestHeld'
  <2> SUFFICES ASSUME ClientInv, RequestHeld, [ClientNext]_<<doing, vars, listing, tokens, refusal>>
               PROVE  RequestHeld'
    OBVIOUS
  <2>1. [Next]_vars
    BY DEF ClientNext, Tools, Lists, Looks, Refused
  <2>2. CallHeld
    BY DEF ClientInv, SurfaceInv
  <2> QED
    BY <2>1, <2>2, RequestKeeps
<1> QED
  BY <1>1, <1>2, ClientInvariant, SentAsGiven, PTL DEF ClientSpec
=============================================================================
