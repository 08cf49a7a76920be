-------------------------- MODULE ProjectListing_proof --------------------------
(***************************************************************************)
(* The pages of a listing, for any number of projects and owners, any      *)
(* page sizes and any times: they come in order, nothing is missed, and    *)
(* there is a page for every query.                                        *)
(***************************************************************************)
EXTENDS ProjectListing, SequenceTheorems, FiniteSetTheorems, WellFoundedInduction, TLAPS

Listing == [pc : {"idle", "paging", "done", "rejected", "edited"}, items : Seq(ProjectIds),
            token : Token \cup {None}]

\* A project is made once, before it is stored.
MadeOnce == \A p \in ProjectIds : stage[p] = "unmade" <=> made[p] = None

TypeInv ==
    /\ TypeOK
    /\ listing \in [Owners -> Listing]
    /\ DOMAIN steady = Owners
    /\ MadeOnce

Sorted(items) ==
    \A i, j \in DOMAIN items : i < j => Newer(KeyOf(items[i]), KeyOf(items[j]))

\* A listing goes on behind the last item it has, and has everything before it.
OnItsWay(o) ==
    LET l == listing[o] IN
    /\ Sorted(l.items)
    /\ \A i \in DOMAIN l.items : made[l.items[i]] # None /\ made[l.items[i]].owner = o
    /\ \A p \in steady[o] : made[p].owner = o
    /\ l.token # None => l.token.owner = o
    /\ l.pc = "idle" => l.items = <<>> /\ l.token = None
    /\ l.pc = "paging" =>
          /\ l.items # <<>>
          /\ l.token # None /\ l.token.key = KeyOf(Last(l.items))
          /\ \A p \in steady[o] : p \in ToSet(l.items) \/ Newer(l.token.key, KeyOf(p))
    /\ l.pc = "done" => steady[o] \subseteq ToSet(l.items)

Inv == TypeInv /\ \A o \in Owners : OnItsWay(o)

-----------------------------------------------------------------------------
\* Being newer is transitive.
LEMMA NewerIsTransitive ==
    ASSUME NEW a \in Nat \X Nat, NEW b \in Nat \X Nat, NEW c \in Nat \X Nat,
           Newer(a, b), Newer(b, c)
    PROVE  Newer(a, c)
  BY DEF Newer

\* What is made has a key.
LEMMA KeyType ==
    ASSUME TypeInv, NEW p \in ProjectIds, made[p] # None
    PROVE  KeyOf(p) \in Key /\ KeyOf(p) \in Nat \X Nat
<1>1. made[p] \in Made
  BY DEF TypeInv, TypeOK
<1> QED
  BY <1>1, IdsAreOrdered, MaxTimeType DEF KeyOf, Key, Made

LEMMA ItemsAreMade ==
    ASSUME TypeInv, NEW o \in Owners, OnItsWay(o), NEW i \in DOMAIN listing[o].items
    PROVE  /\ listing[o].items[i] \in ProjectIds
           /\ KeyOf(listing[o].items[i]) \in Nat \X Nat
<1>1. listing[o].items[i] \in ProjectIds
  BY DEF TypeInv, Listing
<1> QED
  BY <1>1, KeyType DEF OnItsWay

\* What is known of a page.
LEMMA PageIs ==
    ASSUME TypeInv, NEW o \in Owners, NEW given, given = None \/ given \in Token,
           NEW limit \in Limits, NEW page \in Pages(o, given, limit)
    PROVE  /\ page \in Seq(ProjectIds) /\ Len(page) \in Nat
           /\ \A i \in DOMAIN page : page[i] \in Behind(o, given)
           /\ Len(page) # limit => Behind(o, given) \subseteq ToSet(page)
           /\ Sorted(page)
           /\ \A p \in Behind(o, given) \ ToSet(page), i \in DOMAIN page :
                 Newer(KeyOf(page[i]), KeyOf(p))
<1>1. Behind(o, given) \subseteq ProjectIds
  BY DEF Behind, TypeInv, TypeOK
<1>2. limit \in Nat /\ limit > 0
  BY LimitsType
<1>3. PICK n \in 0 .. limit : page \in [1 .. n -> Behind(o, given)]
  BY DEF Pages, SeqOf
<1>4. page \in Seq(Behind(o, given)) /\ Len(page) = n /\ DOMAIN page = 1 .. n
  BY <1>2, <1>3
<1>5. page \in Seq(ProjectIds)
  BY <1>1, <1>4, SeqMonotonic
<1> QED
  BY <1>2, <1>3, <1>4, <1>5 DEF Pages, IsPage, Sorted

\* Of the tokens at hand a handler takes only the listing's own.
LEMMA GivenIsOwn ==
    ASSUME Inv, NEW o \in Owners, listing[o].pc \in {"idle", "paging"},
           NEW given \in TokensAtHand(o), Decodable(given, o)
    PROVE  given = listing[o].token
<1>1. \A q \in Owners : listing[q].token # None => listing[q].token.owner = q
  BY DEF Inv, OnItsWay
<1> QED
  BY <1>1, NoToken DEF Decodable, TokensAtHand

\* Where the items of the second sequence are in a concatenation.
LEMMA SecondPart ==
    ASSUME NEW S, NEW s \in Seq(S), NEW t \in Seq(S), NEW i \in DOMAIN t
    PROVE  Len(s) + i \in DOMAIN (s \o t) /\ (s \o t)[Len(s) + i] = t[i]
<1>1. Len(s) \in Nat /\ Len(t) \in Nat /\ i \in 1 .. Len(t)
  BY LenProperties
<1>2. Len(s) + i \in 1 .. Len(s) + Len(t)
  BY <1>1
<1>3. ~(Len(s) + i <= Len(s)) /\ (Len(s) + i) - Len(s) = i
  BY <1>1
<1>4. (s \o t)[Len(s) + i] = IF Len(s) + i <= Len(s) THEN s[Len(s) + i] ELSE t[(Len(s) + i) - Len(s)]
  BY <1>2, ConcatProperties
<1>5. Len(s) + i \in DOMAIN (s \o t)
  BY <1>1, <1>2, ConcatProperties, LenProperties
<1> QED
  BY <1>3, <1>4, <1>5

LEMMA BothParts ==
    ASSUME NEW S, NEW s \in Seq(S), NEW t \in Seq(S),
           NEW p, p \in ToSet(s) \/ p \in ToSet(t)
    PROVE  p \in ToSet(s \o t)
<1>1. ASSUME NEW i \in DOMAIN s, p = s[i] PROVE p \in ToSet(s \o t)
  <2>1. i \in DOMAIN (s \o t) /\ (s \o t)[i] = s[i]
    OBVIOUS
  <2> QED
    BY <1>1, <2>1 DEF ToSet
<1>2. ASSUME NEW i \in DOMAIN t, p = t[i] PROVE p \in ToSet(s \o t)
  <2> PICK k : k = Len(s) + i
    OBVIOUS
  <2>1. k \in DOMAIN (s \o t) /\ (s \o t)[k] = t[i]
    BY <1>2, SecondPart
  <2> QED
    BY <1>2, <2>1 DEF ToSet
<1> QED
  BY <1>1, <1>2 DEF ToSet

\* A page continues a listing: its items are behind those it already has.
LEMMA PageContinues ==
    ASSUME Inv, NEW o \in Owners, listing[o].pc \in {"idle", "paging"},
           NEW limit \in Limits, NEW page \in Pages(o, listing[o].token, limit)
    PROVE  /\ listing[o].items \o page \in Seq(ProjectIds)
           /\ \A i \in DOMAIN (listing[o].items \o page) :
                 LET p == (listing[o].items \o page)[i] IN
                 made[p] # None /\ made[p].owner = o
           /\ Sorted(listing[o].items \o page)
<1> DEFINE items == listing[o].items
           token == listing[o].token
           all == items \o page
<1>0. TypeInv /\ OnItsWay(o)
  BY DEF Inv
<1>1. items \in Seq(ProjectIds) /\ Len(items) \in Nat /\ (token = None \/ token \in Token)
  BY <1>0 DEF TypeInv, Listing
<1>2. /\ page \in Seq(ProjectIds) /\ Len(page) \in Nat
      /\ \A i \in DOMAIN page : page[i] \in Behind(o, token)
      /\ Sorted(page)
  BY <1>0, <1>1, PageIs
<1>3. /\ all \in Seq(ProjectIds) /\ DOMAIN all = 1 .. Len(items) + Len(page)
      /\ \A i \in DOMAIN items : all[i] = items[i]
      /\ \A i \in DOMAIN all : i \notin DOMAIN items =>
            i - Len(items) \in DOMAIN page /\ all[i] = page[i - Len(items)]
      /\ DOMAIN items = 1 .. Len(items)
  BY <1>1, <1>2
<1>4. \A i \in DOMAIN page : made[page[i]] # None /\ made[page[i]].owner = o
  BY <1>0, <1>2 DEF Behind, TypeInv, TypeOK
<1>5. \A i \in DOMAIN all : made[all[i]] # None /\ made[all[i]].owner = o
  <2> HIDE DEF all
  <2> QED
    BY <1>0, <1>3, <1>4 DEF OnItsWay
<1>6. \A i \in DOMAIN items, j \in DOMAIN page : Newer(KeyOf(items[i]), KeyOf(page[j]))
  <2> SUFFICES ASSUME NEW i \in DOMAIN items, NEW j \in DOMAIN page
               PROVE  Newer(KeyOf(items[i]), KeyOf(page[j]))
    OBVIOUS
  <2>1. listing[o].pc = "paging"
    BY <1>0 DEF OnItsWay
  <2>2. token.key = KeyOf(Last(items)) /\ items # <<>> /\ token # None
    BY <1>0, <2>1 DEF OnItsWay
  <2>3. Newer(token.key, KeyOf(page[j]))
    BY <1>2, <2>2 DEF Behind
  <2>4. Last(items) = items[Len(items)] /\ Len(items) \in DOMAIN items /\ i <= Len(items)
    BY <1>1, <1>3, <2>2 DEF Last
  <2>5. CASE i = Len(items)
    BY <2>2, <2>3, <2>4, <2>5
  <2>6. CASE i < Len(items)
    <3>1. Newer(KeyOf(items[i]), token.key)
      BY <1>0, <2>2, <2>4, <2>6 DEF OnItsWay, Sorted
    <3>2. /\ KeyOf(items[i]) \in Nat \X Nat /\ token.key \in Nat \X Nat
          /\ KeyOf(page[j]) \in Nat \X Nat
      <4>1. page[j] \in ProjectIds
        BY <1>2
      <4> QED
        BY <1>0, <1>4, <2>2, <2>4, <4>1, ItemsAreMade, KeyType
    <3> QED
      BY <2>3, <3>1, <3>2, NewerIsTransitive
  <2> QED
    BY <1>1, <2>4, <2>5, <2>6
<1>7. Sorted(all)
  <2> SUFFICES ASSUME NEW i \in DOMAIN all, NEW j \in DOMAIN all, i < j
               PROVE  Newer(KeyOf(all[i]), KeyOf(all[j]))
    BY DEF Sorted
  <2>1. CASE j \in DOMAIN items
    <3>1. i \in DOMAIN items
      BY <1>1, <1>3, <2>1
    <3> QED
      BY <1>0, <1>3, <2>1, <3>1 DEF OnItsWay, Sorted
  <2>2. CASE i \in DOMAIN items /\ j \notin DOMAIN items
    BY <1>3, <1>6, <2>2
  <2>3. CASE i \notin DOMAIN items
    <3> DEFINE n == Len(items)
    <3>1. n \in Nat /\ i \in Nat /\ j \in Nat /\ i >= 1 /\ i \notin 1 .. n
      BY <1>1, <1>2, <1>3, <2>3
    <3>2. j \notin 1 .. n /\ i - n < j - n
      <4> HIDE DEF n
      <4> QED
        BY <3>1
    <3> QED
      BY <1>2, <1>3, <2>3, <3>2 DEF Sorted
  <2> QED
    BY <2>1, <2>2, <2>3
<1> QED
  BY <1>3, <1>5, <1>7

\* The listing after a page.
Continued(o, page, limit) ==
    [pc |-> IF TokenAfter(o, page, limit) = None THEN "done" ELSE "paging",
     items |-> listing[o].items \o page,
     token |-> TokenAfter(o, page, limit)]

LEMMA PageStep ==
    ASSUME Inv, NEW o \in Owners, ListPage(o)
    PROVE  \E limit \in Limits :
             \E page \in Pages(o, listing[o].token, limit) :
                listing' = [listing EXCEPT ![o] = Continued(o, page, limit)]
  BY GivenIsOwn DEF ListPage, Continued

\* A full page ends with a token of its last item; another page with none.
LEMMA TokenType ==
    ASSUME Inv, NEW o \in Owners, listing[o].pc \in {"idle", "paging"},
           NEW limit \in Limits, NEW page \in Pages(o, listing[o].token, limit)
    PROVE  /\ Len(page) # limit => TokenAfter(o, page, limit) = None
           /\ Len(page) = limit =>
                 /\ page # <<>>
                 /\ TokenAfter(o, page, limit) \in Token /\ TokenAfter(o, page, limit) # None
                 /\ TokenAfter(o, page, limit).owner = o
                 /\ TokenAfter(o, page, limit).key = KeyOf(Last(page))
                 /\ Last(page) = page[Len(page)] /\ Len(page) \in DOMAIN page
<1>0. TypeInv /\ (listing[o].token = None \/ listing[o].token \in Token)
  BY DEF Inv, TypeInv, Listing
<1> PICK token : token = listing[o].token
  OBVIOUS
<1>1. /\ page \in Seq(ProjectIds)
      /\ \A i \in DOMAIN page : page[i] \in Behind(o, token)
  BY <1>0, PageIs
<1>2. CASE Len(page) # limit
  BY <1>2 DEF TokenAfter
<1>3. CASE Len(page) = limit
  <2>1. limit \in Nat /\ limit > 0
    BY LimitsType
  <2>2. page # <<>> /\ Len(page) \in DOMAIN page /\ Last(page) = page[Len(page)]
    BY <1>1, <1>3, <2>1 DEF Last
  <2>3. Last(page) \in ProjectIds /\ made[Last(page)] # None
    BY <1>0, <1>1, <2>2 DEF Behind, TypeInv, TypeOK
  <2>4. KeyOf(Last(page)) \in Key
    BY <1>0, <2>3, KeyType
  <2>5. TokenAfter(o, page, limit) = [owner |-> o, key |-> KeyOf(Last(page))]
    BY <1>3 DEF TokenAfter
  <2>6. TokenAfter(o, page, limit) \in Token
    BY <2>4, <2>5 DEF Token
  <2> QED
    BY <1>3, <2>2, <2>5, <2>6, NoToken
<1> QED
  BY <1>2, <1>3

\* A page behind an edited token, too, is in order and the owner's.
LEMMA EditedPage ==
    ASSUME Inv, NEW o \in Owners, ListEdited(o)
    PROVE  \E page \in Seq(ProjectIds) :
              /\ listing' = [listing EXCEPT ![o] =
                               [pc |-> "edited", items |-> page, token |-> None]]
              /\ Sorted(page)
              /\ \A i \in DOMAIN page : made[page[i]] # None /\ made[page[i]].owner = o
<1>0. TypeInv
  BY DEF Inv
<1>1. PICK limit \in Limits, given \in EditedTokens(o) : \E page \in Pages(o, given, limit) :
          listing' = [listing EXCEPT ![o] = [pc |-> "edited", items |-> page, token |-> None]]
  BY DEF ListEdited
<1>2. PICK page \in Pages(o, given, limit) :
          listing' = [listing EXCEPT ![o] = [pc |-> "edited", items |-> page, token |-> None]]
  BY <1>1
<1>3. given \in Token
  BY MaxTimeType DEF EditedTokens, Token, Key
<1>4. /\ page \in Seq(ProjectIds) /\ Sorted(page)
      /\ \A i \in DOMAIN page : page[i] \in Behind(o, given)
  BY <1>0, <1>3, PageIs
<1>5. \A i \in DOMAIN page : made[page[i]] # None /\ made[page[i]].owner = o
  BY <1>0, <1>4 DEF Behind, TypeInv, TypeOK
<1> QED
  BY <1>2, <1>4, <1>5

LEMMA InitInv == Init => Inv
<1> SUFFICES ASSUME Init PROVE Inv
  OBVIOUS
<1>1. TypeInv
  <2>1. NotListing \in Listing
    BY DEF NotListing, Listing
  <2> QED
    BY <2>1, MaxTimeType DEF Init, TypeInv, TypeOK, MadeOnce, Listing
<1>2. ASSUME NEW o \in Owners PROVE OnItsWay(o)
  BY DEF Init, OnItsWay, NotListing, Sorted
<1> QED
  BY <1>1, <1>2 DEF Inv

LEMMA TypeStep == Inv /\ [Next]_vars => TypeInv'
<1> SUFFICES ASSUME Inv, [Next]_vars PROVE TypeInv'
  OBVIOUS
<1>0. TypeInv
  BY DEF Inv
<1>1. CASE Tick
  BY <1>0, <1>1, MaxTimeType DEF Tick, TypeInv, TypeOK, MadeOnce
<1>2. ASSUME NEW p \in ProjectIds, Make(p) PROVE TypeInv'
  <2>1. PICK owner \in Owners :
          made' = [made EXCEPT ![p] = [owner |-> owner, createdAt |-> now]]
    BY <1>2 DEF Make
  <2>2. [owner |-> owner, createdAt |-> now] \in Made
    BY <1>0 DEF TypeInv, TypeOK, Made
  <2>3. made' \in [ProjectIds -> Made \cup {None}]
    BY <1>0, <2>1, <2>2 DEF TypeInv, TypeOK
  <2>4. made[p] = None
    BY <1>0, <1>2 DEF Make, TypeInv, MadeOnce
  <2>5. MadeOnce'
    BY <1>0, <1>2, <2>1, <2>2, NothingMade DEF Make, TypeInv, TypeOK, MadeOnce
  <2>6. index' \subseteq {q \in ProjectIds : made'[q] # None}
    BY <1>0, <1>2, <2>1, <2>4 DEF Make, TypeInv, TypeOK
  <2> QED
    BY <1>0, <1>2, <2>3, <2>5, <2>6 DEF Make, TypeInv, TypeOK
<1>3. ASSUME NEW p \in ProjectIds, Commit(p) \/ Delete(p) PROVE TypeInv'
  BY <1>0, <1>3 DEF Commit, Delete, TypeInv, TypeOK, MadeOnce
<1>4. ASSUME NEW p \in ProjectIds, Propagate(p) PROVE TypeInv'
  <2>1. index' \subseteq {q \in ProjectIds : made[q] # None}
    BY <1>0, <1>4 DEF Propagate, TypeInv, TypeOK, MadeOnce
  <2> QED
    BY <1>0, <1>4, <2>1 DEF Propagate, TypeInv, TypeOK, MadeOnce
<1>5. ASSUME NEW o \in Owners, ListPage(o) PROVE TypeInv'
  <2>0. listing[o].pc \in {"idle", "paging"}
    BY <1>5 DEF ListPage
  <2> PICK limit \in Limits : \E page \in Pages(o, listing[o].token, limit) :
          listing' = [listing EXCEPT ![o] = Continued(o, page, limit)]
    BY <1>5, PageStep
  <2>1. PICK page \in Pages(o, listing[o].token, limit) :
          listing' = [listing EXCEPT ![o] = Continued(o, page, limit)]
    OBVIOUS
  <2>2. TokenAfter(o, page, limit) \in Token \cup {None}
    BY <2>0, TokenType
  <2>3. listing[o].items \o page \in Seq(ProjectIds)
    BY <2>0, PageContinues
  <2>4. listing' \in [Owners -> Listing]
    BY <1>0, <2>1, <2>2, <2>3 DEF TypeInv, Listing, Continued
  <2>5. DOMAIN steady' = Owners /\ \A q \in Owners : steady'[q] \subseteq index
    BY <1>0, <1>5 DEF ListPage, TypeInv, TypeOK
  <2> QED
    BY <1>0, <1>5, <2>4, <2>5 DEF ListPage, TypeInv, TypeOK, Listing, MadeOnce
<1>6. ASSUME NEW o \in Owners, RejectToken(o) PROVE TypeInv'
  <2>1. listing' \in [Owners -> Listing]
    BY <1>0, <1>6 DEF RejectToken, TypeInv, Listing
  <2> QED
    BY <1>0, <1>6, <2>1 DEF RejectToken, TypeInv, TypeOK, Listing, MadeOnce
<1>7. CASE UNCHANGED vars
  BY <1>0, <1>7 DEF vars, TypeInv, TypeOK, MadeOnce
<1>8. ASSUME NEW o \in Owners, ListEdited(o) PROVE TypeInv'
  <2>1. listing' \in [Owners -> Listing]
    BY <1>0, <1>8, EditedPage DEF TypeInv, Listing
  <2> QED
    BY <1>0, <1>8, <2>1 DEF ListEdited, TypeInv, TypeOK, Listing, MadeOnce
<1> QED
  BY <1>1, <1>2, <1>3, <1>4, <1>5, <1>6, <1>7, <1>8 DEF Next

\* Keys do not change, and what is no longer in the index no longer counts:
\* a listing is not disturbed by what is made, deleted or indexed.
LEMMA ListingIsLeft ==
    ASSUME Inv, NEW o \in Owners, listing'[o] = listing[o],
           \A p \in ProjectIds : made[p] # None => made'[p] = made[p],
           steady'[o] \subseteq steady[o]
    PROVE  OnItsWay(o)'
<1>0. TypeInv /\ OnItsWay(o)
  BY DEF Inv
<1>1. \A p \in ProjectIds : made[p] # None => KeyOf(p)' = KeyOf(p)
  BY DEF KeyOf
<1>2. \A i \in DOMAIN listing[o].items :
        /\ listing[o].items[i] \in ProjectIds /\ made[listing[o].items[i]] # None
        /\ KeyOf(listing[o].items[i])' = KeyOf(listing[o].items[i])
  BY <1>0, <1>1, ItemsAreMade DEF OnItsWay
<1>3. \A p \in steady[o] : p \in ProjectIds /\ made[p] # None /\ KeyOf(p)' = KeyOf(p)
  BY <1>0, <1>1 DEF TypeInv, TypeOK
<1>4. listing[o].pc = "paging" => KeyOf(Last(listing[o].items))' = KeyOf(Last(listing[o].items))
  <2> SUFFICES ASSUME listing[o].pc = "paging"
               PROVE  KeyOf(Last(listing[o].items))' = KeyOf(Last(listing[o].items))
    OBVIOUS
  <2>1. listing[o].items # <<>> /\ listing[o].items \in Seq(ProjectIds)
    BY <1>0 DEF OnItsWay, TypeInv, Listing
  <2>2. /\ Last(listing[o].items) = listing[o].items[Len(listing[o].items)]
        /\ Len(listing[o].items) \in DOMAIN listing[o].items
    BY <2>1 DEF Last
  <2> QED
    BY <1>2, <2>2 DEF KeyOf
<1> QED
  BY <1>0, <1>2, <1>3, <1>4 DEF OnItsWay, Sorted, KeyOf

\* A page that is not full ends a listing; behind a full one it goes on with
\* what is older than the page's last item.
LEMMA PageKeepsWay ==
    ASSUME Inv, NEW o \in Owners, ListPage(o)
    PROVE  OnItsWay(o)'
<1> PICK items : items = listing[o].items
  OBVIOUS
<1> PICK token : token = listing[o].token
  OBVIOUS
<1> PICK steadyNow : steadyNow = steady'[o]
  OBVIOUS
<1>0. /\ TypeInv /\ OnItsWay(o)
      /\ listing[o].pc \in {"idle", "paging"} /\ UNCHANGED <<made, index>>
  BY DEF Inv, ListPage
<1>1. PICK limit \in Limits : \E page \in Pages(o, token, limit) :
          listing' = [listing EXCEPT ![o] = Continued(o, page, limit)]
  BY PageStep
<1>2. PICK page \in Pages(o, token, limit) :
          listing' = [listing EXCEPT ![o] = Continued(o, page, limit)]
  BY <1>1
<1>3. listing'[o] = Continued(o, page, limit)
  BY <1>0, <1>2 DEF TypeInv
<1> PICK all : all = items \o page
  OBVIOUS
<1> PICK next : next = TokenAfter(o, page, limit)
  OBVIOUS
<1>4. /\ listing'[o].items = all /\ listing'[o].token = next
      /\ listing'[o].pc = IF next = None THEN "done" ELSE "paging"
  BY <1>3 DEF Continued
<1>5. \A p \in ProjectIds : KeyOf(p)' = KeyOf(p)
  BY <1>0 DEF KeyOf
<1>6. /\ all \in Seq(ProjectIds)
      /\ \A i \in DOMAIN all : made[all[i]] # None /\ made[all[i]].owner = o
      /\ Sorted(all)
  <2> DEFINE both == listing[o].items \o page
  <2>1. both \in Seq(ProjectIds) /\ Sorted(both)
    BY <1>0, PageContinues
  <2>2. \A i \in DOMAIN both : made[both[i]] # None /\ made[both[i]].owner = o
    BY <1>0, PageContinues
  <2>3. all = both
    OBVIOUS
  <2> HIDE DEF both
  <2> QED
    BY <2>1, <2>2, <2>3
<1>7. Sorted(all)'
  <2>1. \A i \in DOMAIN all : KeyOf(all[i])' = KeyOf(all[i])
    <3>1. \A i \in DOMAIN all : all[i] \in ProjectIds
      BY <1>6
    <3> QED
      BY <1>5, <3>1, Zenon
  <2> QED
    BY <1>6, <2>1 DEF Sorted
<1>8. /\ page \in Seq(ProjectIds) /\ Len(page) \in Nat
      /\ \A i \in DOMAIN page : page[i] \in Behind(o, token)
      /\ Len(page) # limit => Behind(o, token) \subseteq ToSet(page)
      /\ Sorted(page)
      /\ \A p \in Behind(o, token) \ ToSet(page), i \in DOMAIN page :
            Newer(KeyOf(page[i]), KeyOf(p))
  <2>1. token = None \/ token \in Token
    BY <1>0 DEF TypeInv, Listing
  <2> QED
    BY <1>0, <2>1, PageIs
<1>9. items \in Seq(ProjectIds)
  BY <1>0 DEF TypeInv, Listing
<1>10. \A p : p \in ToSet(items) \/ p \in ToSet(page) => p \in ToSet(all)
  <2>1. page \in Seq(ProjectIds)
    BY <1>8
  <2> QED
    BY <1>9, <2>1, BothParts, Zenon
\* What the listing has to have it has, or finds behind its token.
<1>11. \A p \in steadyNow :
         /\ p \in ProjectIds /\ made[p].owner = o
         /\ p \in ToSet(items) \/ p \in Behind(o, token)
  <2>1. CASE listing[o].pc = "idle"
    <3>1. steadyNow = {p \in index : made[p].owner = o}
      BY <1>0, <2>1 DEF ListPage, TypeInv
    <3>2. token = None
      BY <1>0, <2>1 DEF OnItsWay
    <3> QED
      BY <1>0, <3>1, <3>2 DEF Behind, TypeInv, TypeOK
  <2>2. CASE listing[o].pc = "paging"
    <3>1. steadyNow = steady[o]
      BY <1>0, <2>2 DEF ListPage
    <3>2. \A p \in steady[o] : p \in index /\ p \in ProjectIds /\ made[p].owner = o
      BY <1>0 DEF OnItsWay, TypeInv, TypeOK
    <3>3. \A p \in steady[o] : p \in ToSet(items) \/ Newer(token.key, KeyOf(p))
      BY <1>0, <2>2 DEF OnItsWay
    <3> QED
      BY <3>1, <3>2, <3>3 DEF Behind
  <2> QED
    BY <1>0, <2>1, <2>2
<1>12. /\ Sorted(listing[o].items)'
       /\ \A i \in DOMAIN listing'[o].items :
             made'[listing'[o].items[i]] # None /\ made'[listing'[o].items[i]].owner = o
       /\ \A p \in steady'[o] : made'[p].owner = o
  <2>1. Sorted(listing[o].items)'
    BY <1>4, <1>7 DEF Sorted
  <2>2. made' = made /\ listing'[o].items = all
    BY <1>0, <1>4
  <2> QED
    BY <1>6, <1>11, <2>1, <2>2
<1>13. CASE Len(page) # limit
  <2>1. next = None
    BY <1>0, <1>13, TokenType
  <2>2. steadyNow \subseteq ToSet(all)
    BY <1>8, <1>10, <1>11, <1>13
  <2> QED
    BY <1>4, <1>12, <2>1, <2>2 DEF OnItsWay
<1>14. CASE Len(page) = limit
  <2>1. /\ next # None /\ next.owner = o /\ next.key = KeyOf(Last(page))
        /\ Last(page) = page[Len(page)] /\ Len(page) \in DOMAIN page /\ page # <<>>
    BY <1>0, <1>14, TokenType
  <2>2. all # <<>> /\ Last(all) = Last(page)
    BY <1>8, <1>9, <2>1 DEF Last
  <2>3. KeyOf(Last(all))' = KeyOf(Last(page))
    BY <1>5, <1>8, <2>1, <2>2
  <2>4. \A p \in steadyNow : p \in ToSet(all) \/ Newer(next.key, KeyOf(p))
    BY <1>8, <1>10, <1>11, <2>1
  <2>5. \A p \in steadyNow : KeyOf(p)' = KeyOf(p)
    BY <1>5, <1>11
  <2>6. next.key = KeyOf(Last(all))'
    BY <2>1, <2>3
  <2>7. \A p \in steadyNow : p \in ToSet(all) \/ Newer(next.key, KeyOf(p)')
    BY <2>4, <2>5
  <2> QED
    BY <1>4, <1>12, <2>1, <2>2, <2>6, <2>7 DEF OnItsWay
<1> QED
  BY <1>13, <1>14

LEMMA WayStep == Inv /\ [Next]_vars => \A o \in Owners : OnItsWay(o)'
<1> SUFFICES ASSUME Inv, [Next]_vars, NEW o \in Owners PROVE OnItsWay(o)'
  OBVIOUS
<1>0. TypeInv /\ OnItsWay(o)
  BY DEF Inv
<1>1. ASSUME UNCHANGED <<made, listing, steady>> PROVE OnItsWay(o)'
  BY <1>1, ListingIsLeft
<1>2. ASSUME NEW p \in ProjectIds, Make(p) PROVE OnItsWay(o)'
  <2>1. made[p] = None /\ \A q \in ProjectIds : q # p => made'[q] = made[q]
    BY <1>0, <1>2 DEF Make, TypeInv, TypeOK, MadeOnce
  <2> QED
    BY <1>2, <2>1, ListingIsLeft DEF Make
<1>3. ASSUME NEW p \in ProjectIds, Propagate(p) PROVE OnItsWay(o)'
  <2>1. steady'[o] \subseteq steady[o]
    BY <1>3 DEF Propagate
  <2> QED
    BY <1>3, <2>1, ListingIsLeft DEF Propagate
<1>4. ASSUME NEW q \in Owners, ListPage(q) PROVE OnItsWay(o)'
  <2>1. CASE q = o
    BY <1>4, <2>1, PageKeepsWay
  <2>2. CASE q # o
    <3>1. listing'[o] = listing[o]
      BY <1>4, <2>2 DEF ListPage
    <3>2. steady'[o] = steady[o]
      BY <1>0, <1>4, <2>2 DEF ListPage, TypeInv
    <3> QED
      BY <1>4, <3>1, <3>2, ListingIsLeft DEF ListPage
  <2> QED
    BY <2>1, <2>2
<1>5. ASSUME NEW q \in Owners, RejectToken(q) PROVE OnItsWay(o)'
  <2>1. CASE q = o
    <3>1. /\ listing'[o].pc = "rejected" /\ listing'[o].items = listing[o].items
          /\ listing'[o].token = listing[o].token
          /\ UNCHANGED <<made, steady>>
      BY <1>0, <1>5, <2>1 DEF RejectToken, TypeInv, Listing
    <3> QED
      BY <1>0, <3>1 DEF OnItsWay, Sorted, KeyOf
  <2>2. CASE q # o
    BY <1>0, <1>5, <2>2, ListingIsLeft DEF RejectToken, TypeInv
  <2> QED
    BY <2>1, <2>2
<1>6. ASSUME NEW q \in Owners, ListEdited(q) PROVE OnItsWay(o)'
  <2>0. UNCHANGED <<made, steady>>
    BY <1>6 DEF ListEdited
  <2>1. PICK page \in Seq(ProjectIds) :
          /\ listing' = [listing EXCEPT ![q] =
                           [pc |-> "edited", items |-> page, token |-> None]]
          /\ Sorted(page)
          /\ \A i \in DOMAIN page : made[page[i]] # None /\ made[page[i]].owner = q
    BY <1>6, EditedPage
  <2>2. CASE q = o
    <3>1. /\ listing'[o].pc = "edited" /\ listing'[o].items = page
          /\ listing'[o].token = None
      BY <1>0, <2>1, <2>2 DEF TypeInv
    <3> QED
      BY <1>0, <2>0, <2>1, <2>2, <3>1 DEF OnItsWay, Sorted, KeyOf
  <2>3. CASE q # o
    BY <1>0, <2>0, <2>1, <2>3, ListingIsLeft DEF TypeInv
  <2> QED
    BY <2>2, <2>3
<1> QED
  BY <1>1, <1>2, <1>3, <1>4, <1>5, <1>6 DEF Next, vars, Tick, Commit, Delete

LEMMA InvHolds == Spec => []Inv
<1>1. Inv /\ [Next]_vars => Inv'
  BY TypeStep, WayStep DEF Inv
<1> QED
  BY <1>1, InitInv, PTL DEF Spec

-----------------------------------------------------------------------------
(***************************************************************************)
(* There is a page for every query.                                        *)
(***************************************************************************)
LEMMA SmallestNumber ==
    ASSUME NEW T, T \subseteq Nat, T # {}
    PROVE  \E n \in T : \A m \in T : n <= m
<1> DEFINE R == {ss \in Nat \X Nat : ss[1] < ss[2]}
<1>1. IsWellFoundedOn(R, Nat)
  BY NatLessThanWellFounded DEF OpToRel
<1>2. PICK n \in T : \A m \in T : ~(<<m, n>> \in R)
  <2> HIDE DEF R
  <2> QED
    BY <1>1, WFMin
<1>3. ASSUME NEW m \in T PROVE n <= m
  <2>1. n \in Nat /\ m \in Nat
    OBVIOUS
  <2>2. <<m, n>> \in R <=> m < n
    BY <2>1
  <2> HIDE DEF R
  <2> QED
    BY <1>2, <2>1, <2>2
<1> QED
  BY <1>3

\* Of two projects that were made one is the newer.
LEMMA NewerIsTotal ==
    ASSUME TypeInv, NEW p \in index, NEW q \in index, p # q
    PROVE  /\ Newer(KeyOf(p), KeyOf(q)) \/ Newer(KeyOf(q), KeyOf(p))
           /\ ~(Newer(KeyOf(p), KeyOf(q)) /\ Newer(KeyOf(q), KeyOf(p)))
<1>1. /\ p \in ProjectIds /\ q \in ProjectIds /\ made[p] # None /\ made[q] # None
      /\ p \in Nat /\ q \in Nat
  BY IdsAreOrdered DEF TypeInv, TypeOK
<1>2. made[p].createdAt \in Nat /\ made[q].createdAt \in Nat
  BY <1>1, KeyType DEF KeyOf
<1> QED
  BY <1>1, <1>2 DEF Newer, KeyOf

\* Among finitely many projects in the index there is a newest.
LEMMA NewestOf ==
    ASSUME TypeInv, NEW S, S \subseteq index, IsFiniteSet(S), S # {}
    PROVE  \E p \in S : \A q \in S \ {p} : Newer(KeyOf(p), KeyOf(q))
<1> DEFINE Above(p) == {q \in S : Newer(KeyOf(q), KeyOf(p))}
           Counts == {Cardinality(Above(p)) : p \in S}
<1>1. ASSUME NEW p \in S PROVE IsFiniteSet(Above(p)) /\ Cardinality(Above(p)) \in Nat
  BY FS_Subset, FS_CardinalityType
<1>2. Counts \subseteq Nat /\ Counts # {}
  BY <1>1
<1>3. PICK n \in Counts : \A m \in Counts : n <= m
  BY <1>2, SmallestNumber
<1>4. PICK p \in S : n = Cardinality(Above(p))
  OBVIOUS
<1>5. ASSUME NEW q \in S, Newer(KeyOf(q), KeyOf(p)) PROVE FALSE
  <2>1. q \in index /\ p \in index /\ KeyOf(q) \in Nat \X Nat /\ KeyOf(p) \in Nat \X Nat
    BY KeyType DEF TypeInv, TypeOK
  <2>2. \A r \in Above(q) : r \in Above(p)
    <3> TAKE r \in Above(q)
    <3>1. KeyOf(r) \in Nat \X Nat
      BY KeyType DEF TypeInv, TypeOK
    <3> QED
      BY <1>5, <2>1, <3>1, NewerIsTransitive
  <2>3. q \in Above(p) /\ q \notin Above(q)
    BY <1>5, <2>1 DEF Newer
  <2>4. Above(q) \in SUBSET Above(p) /\ Above(q) # Above(p)
    BY <2>2, <2>3
  <2>5. /\ Cardinality(Above(q)) <= Cardinality(Above(p))
        /\ Cardinality(Above(q)) # Cardinality(Above(p))
    BY <1>1, <2>4, FS_Subset
  <2>6. Cardinality(Above(p)) <= Cardinality(Above(q))
    BY <1>3, <1>4
  <2>7. Cardinality(Above(p)) \in Nat /\ Cardinality(Above(q)) \in Nat
    BY <1>1
  <2> QED
    BY <2>5, <2>6, <2>7
<1>6. ASSUME NEW q \in S \ {p} PROVE Newer(KeyOf(p), KeyOf(q))
  BY <1>5, <1>6, NewerIsTotal
<1> QED
  BY <1>6

HasPage(behind, limit) == \E page \in SeqOf(behind, limit) : IsPage(page, behind, limit)

\* A page that is longer by one takes the newest of what the page left out.
LEMMA LongerPage ==
    ASSUME TypeInv, NEW S, S \subseteq index, IsFiniteSet(S), NEW n \in Nat, HasPage(S, n)
    PROVE  HasPage(S, n + 1)
<1>1. PICK page \in SeqOf(S, n) : IsPage(page, S, n)
  BY DEF HasPage
<1>2. PICK m \in 0 .. n : page \in [1 .. m -> S]
  BY DEF SeqOf
<1>3. page \in Seq(S) /\ Len(page) = m /\ DOMAIN page = 1 .. m
  BY <1>2
<1>4. ToSet(page) = {page[i] : i \in 1 .. m}
  BY <1>3 DEF ToSet
<1>5. CASE S \subseteq ToSet(page)
  <2>1. page \in SeqOf(S, n + 1)
    BY <1>2 DEF SeqOf
  <2>2. IsPage(page, S, n + 1)
    BY <1>1, <1>5 DEF IsPage
  <2> QED
    BY <2>1, <2>2 DEF HasPage
<1>6. CASE ~(S \subseteq ToSet(page))
  <2>1. m = n
    BY <1>1, <1>3, <1>6 DEF IsPage
  <2> DEFINE Rest == S \ ToSet(page)
  <2>2. Rest \subseteq index /\ IsFiniteSet(Rest) /\ Rest # {}
    BY <1>6, FS_Subset
  <2> HIDE DEF Rest
  <2>3. PICK p \in Rest : \A q \in Rest \ {p} : Newer(KeyOf(p), KeyOf(q))
    BY <2>2, NewestOf
  <2>4. p \in S /\ p \notin ToSet(page)
    BY DEF Rest
  <2> DEFINE longer == [i \in 1 .. n + 1 |-> IF i = n + 1 THEN p ELSE page[i]]
  <2>5. longer \in [1 .. n + 1 -> S]
    BY <1>2, <2>1, <2>4
  <2>6. longer \in SeqOf(S, n + 1)
    BY <2>5 DEF SeqOf
  <2>7. Len(longer) = n + 1 /\ DOMAIN longer = 1 .. n + 1
    BY <2>5
  <2>8. \A i \in 1 .. n : longer[i] = page[i]
    OBVIOUS
  <2>9. longer[n + 1] = p
    OBVIOUS
  <2> HIDE DEF longer
  <2>10. ToSet(page) \subseteq ToSet(longer) /\ p \in ToSet(longer)
    BY <1>4, <2>1, <2>7, <2>8, <2>9 DEF ToSet
  <2>11. ASSUME NEW i \in 1 .. n + 1, NEW j \in 1 .. n + 1, i < j
         PROVE  Newer(KeyOf(longer[i]), KeyOf(longer[j]))
    <3>1. i \in 1 .. n
      BY <2>11
    <3>2. CASE j \in 1 .. n
      BY <1>1, <1>3, <2>1, <2>8, <2>11, <3>1, <3>2 DEF IsPage
    <3>3. CASE j = n + 1
      BY <1>1, <1>3, <2>1, <2>4, <2>8, <2>9, <3>1, <3>3 DEF IsPage
    <3> QED
      BY <3>2, <3>3
  <2>12. ASSUME NEW q \in S \ ToSet(longer), NEW i \in 1 .. n + 1
         PROVE  Newer(KeyOf(longer[i]), KeyOf(q))
    <3>1. q \in S \ ToSet(page) /\ q \in Rest \ {p}
      BY <2>10, <2>12 DEF Rest
    <3>2. CASE i \in 1 .. n
      BY <1>1, <1>3, <2>1, <2>8, <3>1, <3>2 DEF IsPage
    <3>3. CASE i = n + 1
      BY <2>3, <2>9, <3>1, <3>3
    <3> QED
      BY <3>2, <3>3
  <2>13. IsPage(longer, S, n + 1)
    BY <2>7, <2>11, <2>12 DEF IsPage
  <2> QED
    BY <2>6, <2>13 DEF HasPage
<1> QED
  BY <1>5, <1>6

LEMMA PageOfAnyLength ==
    ASSUME TypeInv, NEW S, S \subseteq index, IsFiniteSet(S)
    PROVE  \A n \in Nat : HasPage(S, n)
<1> DEFINE Without == {n \in Nat : ~HasPage(S, n)}
<1>1. SUFFICES ASSUME Without # {} PROVE FALSE
  OBVIOUS
<1>2. PICK n \in Without : \A m \in Without : n <= m
  BY <1>1, SmallestNumber
<1>3. HasPage(S, 0)
  <2>1. << >> \in SeqOf(S, 0) /\ Len(<< >>) = 0 /\ DOMAIN << >> = {}
    <3>1. << >> \in [1 .. 0 -> S]
      OBVIOUS
    <3> QED
      BY <3>1 DEF SeqOf
  <2>2. IsPage(<< >>, S, 0)
    BY <2>1 DEF IsPage
  <2> QED
    BY <2>1, <2>2 DEF HasPage
<1>4. n - 1 \in Nat /\ n - 1 \notin Without /\ (n - 1) + 1 = n
  BY <1>2, <1>3
<1> QED
  BY <1>4, LongerPage

\* The index has finitely many items, since each step adds at most one.
FiniteIndex == IsFiniteSet(index)

LEMMA FiniteIndexHolds == Spec => []FiniteIndex
<1>1. Init => FiniteIndex
  BY FS_EmptySet DEF Init, FiniteIndex
<1>2. FiniteIndex /\ [Next]_vars => FiniteIndex'
  <2> SUFFICES ASSUME FiniteIndex, [Next]_vars PROVE FiniteIndex'
    OBVIOUS
  <2>1. ASSUME NEW p \in ProjectIds, Propagate(p) PROVE FiniteIndex'
    BY <2>1, FS_AddElement, FS_RemoveElement DEF Propagate, FiniteIndex
  <2>2. ASSUME UNCHANGED index PROVE FiniteIndex'
    BY <2>2 DEF FiniteIndex
  <2> QED
    BY <2>1, <2>2 DEF Next, vars, Tick, Make, Commit, Delete, ListPage, ListEdited,
              RejectToken
<1> QED
  BY <1>1, <1>2, PTL DEF Spec

-----------------------------------------------------------------------------
\* What is made, indexed and listed, and what a client holds, have their types.
THEOREM TypeCorrect == Spec => []TypeOK
<1>1. Inv => TypeOK
  BY DEF Inv, TypeInv
<1> QED
  BY <1>1, InvHolds, PTL

\* The pages of a listing come newest first and without a repetition, however
\* many projects are made, deleted and indexed between two of them.
THEOREM PagesDescend == Spec => []NewestFirst
<1>1. Inv => NewestFirst
  BY DEF Inv, OnItsWay, Sorted, NewestFirst
<1> QED
  BY <1>1, InvHolds, PTL

\* A complete listing has everything that was in the index all the while, and
\* nothing of another owner.
THEOREM PagesMissNothing == Spec => []NothingMissed
<1>1. Inv => NothingMissed
  BY DEF Inv, OnItsWay, NothingMissed, ToSet
<1> QED
  BY <1>1, InvHolds, PTL

\* The query for a page has an answer, whatever token it goes on from.
EveryQueryHasAPage ==
    \A o \in Owners, token \in Token \cup {None}, limit \in Limits : Pages(o, token, limit) # {}

\* However many projects are behind the token that list_projects has decoded,
\* some page of the asked size is what the query returns: ListPage never lacks
\* a page, so the properties of listings are not about a step that cannot happen.
THEOREM QueriesHavePages == Spec => []EveryQueryHasAPage
<1>1. Inv /\ FiniteIndex => EveryQueryHasAPage
  <2> SUFFICES ASSUME Inv, FiniteIndex, NEW o \in Owners, NEW token \in Token \cup {None},
                      NEW limit \in Limits
               PROVE  Pages(o, token, limit) # {}
    BY DEF EveryQueryHasAPage
  <2>1. TypeInv /\ limit \in Nat
    BY LimitsType DEF Inv
  <2>2. Behind(o, token) \subseteq index /\ IsFiniteSet(Behind(o, token))
    BY FS_Subset DEF Behind, FiniteIndex
  <2>3. HasPage(Behind(o, token), limit)
    BY <2>1, <2>2, PageOfAnyLength
  <2> QED
    BY <2>3 DEF HasPage, Pages
<1> QED
  BY <1>1, InvHolds, FiniteIndexHolds, PTL
=============================================================================
