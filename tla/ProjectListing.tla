--------------------------- MODULE ProjectListing ---------------------------
(***************************************************************************)
(* GET /v1/projects: the pages of an owner's projects, newest first, read  *)
(* from the index GSI1 while projects are created and deleted.             *)
(*                                                                         *)
(* The index follows the table with a delay of its own for every item.  A  *)
(* page ends with a token, the index key of its last item; the next        *)
(* request goes on behind that key, whether or not the item still exists.  *)
(* A token of another owner's listing is rejected; one that a client has   *)
(* edited so that it is still a key of its own partition is not.           *)
(***************************************************************************)
EXTENDS Integers, Sequences, SequencesExt, FiniteSets

CONSTANTS
    ProjectIds,   \* ids, as numbers for their place in the text order
    Owners,
    Limits,       \* the page sizes clients ask for
    MaxTime,      \* bound on the clock, in seconds
    None,         \* no token
    Malformed     \* a token that no handler encoded, or that the table rejects

VARIABLES
    now,       \* the clock that Project.new reads
    made,      \* what Project.new made: [owner, createdAt] by id, or None
    stage,     \* how far a project has come: its META item exists if "stored"
    index,     \* the ids whose item is in GSI1
    listing,   \* for each owner, the listing under way
    steady     \* for each owner, the ids indexed since that listing began

vars == <<now, made, stage, index, listing, steady>>

Key == Nat \X ProjectIds

\* A nextToken: the index partition (of an owner) and the key in it.
Token == [owner: Owners, key: Key]

ASSUME IdsAreOrdered == ProjectIds \subseteq Nat
ASSUME LimitsType == Limits \subseteq Nat \ {0}
ASSUME MaxTimeType == MaxTime \in Nat
ASSUME NoToken == None \notin Token /\ Malformed \notin Token \cup {None}

\* What Project.new makes of a project, as far as the index has it.
Made == [owner: Owners, createdAt: 0 .. MaxTime]

ASSUME NothingMade == None \notin Made

NotListing == [pc |-> "idle", items |-> <<>>, token |-> None]

TypeOK ==
    /\ now \in 0 .. MaxTime
    /\ made \in [ProjectIds -> Made \cup {None}]
    /\ stage \in [ProjectIds -> {"unmade", "made", "stored", "deleted"}]
    /\ index \subseteq {p \in ProjectIds : made[p] # None}
    /\ \A o \in Owners :
          /\ listing[o].pc \in {"idle", "paging", "done", "rejected", "edited"}
          /\ listing[o].items \in Seq(ProjectIds)
          /\ listing[o].token \in Token \cup {None}
          /\ steady[o] \subseteq index

Init ==
    /\ now = 0
    /\ made = [p \in ProjectIds |-> None]
    /\ stage = [p \in ProjectIds |-> "unmade"]
    /\ index = {}
    /\ listing = [o \in Owners |-> NotListing]
    /\ steady = [o \in Owners |-> {}]

-----------------------------------------------------------------------------
Tick ==
    /\ now < MaxTime
    /\ now' = now + 1
    /\ UNCHANGED <<made, stage, index, listing, steady>>

\* Project.new, in a handler: the timestamp is taken before the write.
Make(p) ==
    /\ stage[p] = "unmade"
    /\ \E owner \in Owners :
          made' = [made EXCEPT ![p] = [owner |-> owner, createdAt |-> now]]
    /\ stage' = [stage EXCEPT ![p] = "made"]
    /\ UNCHANGED <<now, index, listing, steady>>

\* The create transaction commits.
Commit(p) ==
    /\ stage[p] = "made"
    /\ stage' = [stage EXCEPT ![p] = "stored"]
    /\ UNCHANGED <<now, made, index, listing, steady>>

Delete(p) ==
    /\ stage[p] = "stored"
    /\ stage' = [stage EXCEPT ![p] = "deleted"]
    /\ UNCHANGED <<now, made, index, listing, steady>>

\* The index takes over an item's insertion or removal.
Propagate(p) ==
    /\ (stage[p] = "stored") # (p \in index)
    /\ index' = IF stage[p] = "stored" THEN index \cup {p} ELSE index \ {p}
    /\ steady' = [o \in Owners |-> steady[o] \cap index']
    /\ UNCHANGED <<now, made, stage, listing>>

-----------------------------------------------------------------------------
\* The index key GSI1SK: creation second first, then the id.
KeyOf(p) == <<made[p].createdAt, p>>

Newer(j, k) == j[1] > k[1] \/ (j[1] = k[1] /\ j[2] > k[2])

\* Mutants: the item of the token comes again; the token is only a time.
MutBehindInclusive(owner, token) ==
    {p \in index : /\ made[p].owner = owner
                   /\ token = None \/ ~Newer(KeyOf(p), token.key)}

MutBehindByTime(owner, token) ==
    {p \in index : /\ made[p].owner = owner
                   /\ token = None \/ token.key[1] > made[p].createdAt}

\* The owner's items behind the token.
Behind(owner, token) ==
    {p \in index : /\ made[p].owner = owner
                   /\ token = None \/ Newer(token.key, KeyOf(p))}

(***************************************************************************)
(* What the query for a page returns: the newest of the items behind the   *)
(* token, newest first; all of them, unless the page is full.              *)
(***************************************************************************)
IsPage(page, behind, limit) ==
    /\ Len(page) < limit => behind \subseteq ToSet(page)
    /\ \A i, j \in DOMAIN page : i < j => Newer(KeyOf(page[i]), KeyOf(page[j]))
    /\ \A p \in behind \ ToSet(page), i \in DOMAIN page : Newer(KeyOf(page[i]), KeyOf(p))

Pages(owner, token, limit) ==
    {page \in SeqOf(Behind(owner, token), limit) : IsPage(page, Behind(owner, token), limit)}

\* Mutant: the parts of the key are swapped.
MutTokenAfter(owner, page, limit) ==
    IF Len(page) = limit
    THEN [owner |-> owner, key |-> <<Last(page), made[Last(page)].createdAt>>]
    ELSE None

\* LastEvaluatedKey, encoded: the table gives one whenever the page is full,
\* so that the last page may turn out to be empty.
TokenAfter(owner, page, limit) ==
    IF Len(page) = limit THEN [owner |-> owner, key |-> KeyOf(Last(page))] ELSE None

\* Mutant: any well-formed token is taken.
MutDecodable(token, owner) == token \in Token \cup {None}

\* decode_cursor: the token must be well-formed and of the caller's partition.
Decodable(token, owner) == token = None \/ (token \in Token /\ token.owner = owner)

(***************************************************************************)
(* The tokens a client may come with: its listing's own, and by a mix-up   *)
(* one that another owner's listing has at hand, or a mangled one.         *)
(***************************************************************************)
TokensAtHand(o) ==
    {listing[o].token, Malformed} \cup ({listing[q].token : q \in Owners} \ {None})

\* list_projects for one page.
ListPage(o) ==
    /\ listing[o].pc \in {"idle", "paging"}
    /\ \E limit \in Limits, given \in {t \in TokensAtHand(o) : Decodable(t, o)} :
          \E page \in Pages(o, given, limit) :
             LET token == TokenAfter(o, page, limit)
             IN  listing' = [listing EXCEPT ![o] =
                    [pc |-> IF token = None THEN "done" ELSE "paging",
                     items |-> @.items \o page,
                     token |-> token]]
    /\ steady' = IF listing[o].pc = "idle"
                 THEN [steady EXCEPT ![o] = {p \in index : made[p].owner = o}]
                 ELSE steady
    /\ UNCHANGED <<now, made, stage, index>>

\* Tokens a client may make up: well-formed, and of its own partition.
EditedTokens(o) == [owner: {o}, key: (0 .. MaxTime) \X ProjectIds] \ {listing[o].token}

\* list_projects for a page behind an edited token: it is answered like any
\* other.  The page continues nothing, so nothing is promised of what follows.
ListEdited(o) ==
    /\ listing[o].pc \in {"idle", "paging"}
    /\ \E limit \in Limits, given \in {t \in EditedTokens(o) : Decodable(t, o)} :
          \E page \in Pages(o, given, limit) :
             listing' = [listing EXCEPT ![o] =
                            [pc |-> "edited", items |-> page, token |-> None]]
    /\ UNCHANGED <<now, made, stage, index, steady>>

\* InvalidCursorError, from decode_cursor or from the table: the request is
\* answered 400 without a page, and its client ends the listing.
RejectToken(o) ==
    /\ listing[o].pc \in {"idle", "paging"}
    /\ \E given \in TokensAtHand(o) : ~Decodable(given, o)
    /\ listing' = [listing EXCEPT ![o].pc = "rejected"]
    /\ UNCHANGED <<now, made, stage, index, steady>>

Next ==
    \/ Tick
    \/ \E p \in ProjectIds : Make(p) \/ Commit(p) \/ Delete(p) \/ Propagate(p)
    \/ \E o \in Owners : ListPage(o) \/ ListEdited(o) \/ RejectToken(o)

Spec == Init /\ [][Next]_vars
-----------------------------------------------------------------------------
\* Over all the pages of a listing the projects come in strictly descending
\* order of their keys, whatever is created and deleted between two pages; in
\* particular none comes twice.  An edited token, too, gets a page in order.
NewestFirst ==
    \A o \in Owners : \A i, j \in DOMAIN listing[o].items :
        i < j => Newer(KeyOf(listing[o].items[i]), KeyOf(listing[o].items[j]))

\* A listing that is complete has every project of the owner that was in the
\* index from its first page to its last; and no listing, not even one with an
\* edited token, has a project of another owner.
NothingMissed ==
    \A o \in Owners :
        /\ listing[o].pc = "done" => steady[o] \subseteq ToSet(listing[o].items)
        /\ \A p \in ToSet(listing[o].items) : made[p].owner = o
=============================================================================
