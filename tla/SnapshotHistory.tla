--------------------------- MODULE SnapshotHistory ---------------------------
(***************************************************************************)
(* The snapshot history the two UIs and the CLI show, computed from one    *)
(* listing of the store: the parent chain, the HEAD and last-good markers  *)
(* (core/src/snapshot_history.cpp), and the indents of the chain view and  *)
(* the context of a restore preview (app/src/snapshots_vm.cpp).            *)
(*                                                                         *)
(* Nothing of this is state: it is a function of what list() returned, and *)
(* the listing names neither HEAD nor the order's reasons, only documents. *)
(***************************************************************************)
EXTENDS SnapshotStore

\* Mutant: the listing ignores the HEAD chain and goes by time alone.
ByTime ==
    UNION {UNION {{l \in [1 .. Cardinality(Listed(p, w)) -> Listed(p, w)] :
                     \A m, n \in DOMAIN l : m < n => l[m] # l[n] /\ l[m].at >= l[n].at} :
                  w \in Walks(p)} : p \in Picks}

\* Every listing SnapshotList may answer now: rows without repetition, newest
\* first, in directory order where the store leaves the order open.
Listings ==
    UNION {UNION {{l \in [1 .. Cardinality(Listed(p, w)) -> Listed(p, w)] :
                     \A m, n \in DOMAIN l :
                        m < n => l[m] # l[n] /\ ~NewerThan(w, l[n], l[m])} :
                  w \in Walks(p)} : p \in Picks}

ListedIds(l) == {l[n].id : n \in DOMAIN l}

\* byId.emplace: the first row of an id stands for it.
ById(l, i) == l[CHOOSE n \in DOMAIN l : l[n].id = i /\ \A m \in 1 .. n - 1 : l[m].id # i]

\* One step of depthOf's climb, over the rows it has passed: to the row of the
\* parent, until a parent is not listed or was visited before (a parent cycle).
Climb(l, s) ==
    LET parent == s[Len(s)].parent
    IN IF parent \in ListedIds(l) /\ \A k \in DOMAIN s : s[k].id # parent
       THEN Append(s, ById(l, parent)) ELSE s

\* The rows depthOf passes; a climb is over after as many steps as there are rows.
Ancestry(l, row) ==
    LET up[n \in 0 .. Len(l)] == IF n = 0 THEN <<row>> ELSE Climb(l, up[n - 1])
    IN up[Len(l)]

depthOf(l, row) == Len(Ancestry(l, row)) - 1

ClaimedAsParent(l) == {l[n].parent : n \in DOMAIN l} \ {None}
ChainStart(l, row) == row.parent \notin ListedIds(l)

\* The first row of those that qualify carries a marker, 0 when none does.
Marked(S) == IF S = {} THEN 0 ELSE CHOOSE n \in S : \A m \in S : n <= m
HeadRow(l) == Marked({n \in DOMAIN l : l[n].id \notin ClaimedAsParent(l)})
LastGoodRow(l) == Marked({n \in DOMAIN l : l[n].health = "ok"})

buildSnapshotChain(l) ==
    [n \in DOMAIN l |-> [meta |-> l[n], chainStart |-> ChainStart(l, l[n]),
                         depth |-> depthOf(l, l[n]),
                         head |-> n = HeadRow(l), lastGood |-> n = LastGoodRow(l)]]

\* Mutant: the indent is the depth itself, so the newest row sits deepest.
DepthIndents(chain) == [n \in DOMAIN chain |-> chain[n].depth]

\* A group of rows ends at a chain start; a row is indented by its distance
\* from the row that opened its group, never to the left of the margin.
chainIndents(chain) ==
    LET Tip(n) == CHOOSE t \in 1 .. n : /\ t = 1 \/ chain[t - 1].chainStart
                                        /\ \A k \in t .. n - 1 : ~chain[k].chainStart
    IN [n \in DOMAIN chain |->
          IF chain[Tip(n)].depth > chain[n].depth
          THEN chain[Tip(n)].depth - chain[n].depth ELSE 0]

\* headAndLastGood: the two ids every surface marks rows by; several rows may
\* share an id.
HeadId(l) == IF HeadRow(l) = 0 THEN None ELSE l[HeadRow(l)].id
LastGoodId(l) == IF LastGoodRow(l) = 0 THEN None ELSE l[LastGoodRow(l)].id

\* isHeadRow and isLastGoodRow, and the marks of previewContextLines.
IsHead(l, i) == HeadId(l) # None /\ i = HeadId(l)
IsLastGood(l, i) == LastGoodId(l) # None /\ i = LastGoodId(l)

-----------------------------------------------------------------------------
(* Properties.                                                             *)

\* The list the last verb returned is the store as it is now; HEAD's snapshot is
\* in every such list or in none.
JustListed == ret.verb = "list"
HeadListed == JustListed /\ head \in {m.id : m \in Scan}

\* HEAD is found without being told: whatever was pruned, deleted, damaged or
\* written again by a newer daemon, and however the directory was read, the
\* marker is on the snapshot HEAD names as long as that snapshot is listed and
\* no listed snapshot descends from it (buildSnapshotChain's first unclaimed
\* row over orderNewestFirst's order).
HeadIsMarked ==
    HeadListed => \A l \in Listings : head \notin ClaimedAsParent(l) => IsHead(l, head)

\* The chain view shows descent: whatever was pruned, deleted or quarantined,
\* the snapshots HEAD descends from are the top rows, each one step to the right
\* of the one taken from it, unless parent links run in a circle (depthOf and
\* chainIndents over orderNewestFirst's order).
Acyclic(l, row) == LET s == Ancestry(l, row) IN ChainStart(l, s[Len(s)])
HeadChainOnTop ==
    HeadListed => \A l \in Listings :
        LET s == Ancestry(l, ById(l, head))
            indent == chainIndents(buildSnapshotChain(l))
        IN Acyclic(l, s[1]) =>
             \A n \in DOMAIN s : l[n] = s[n] /\ indent[n] = n - 1

-----------------------------------------------------------------------------
(* Statements of the repository's comments and specs that the code does    *)
(* not meet.                                                               *)

\* snapshot-history spec: "with the current HEAD identified".  A put of an
\* earlier state only moves HEAD, so a snapshot taken from HEAD is still listed
\* and the marker goes to it.
MarkerIsHead ==
    HeadListed => \A l \in Listings : IsHead(l, head)

\* snapshot_history.cpp: "Cycles cannot occur in a hash-chained store".  The
\* parent is not part of the hash, so a deleted state that is stored again may
\* name a descendant of its former self.
NoParentCycle == JustListed => \A l \in Listings : \A n \in DOMAIN l : Acyclic(l, l[n])
=============================================================================
