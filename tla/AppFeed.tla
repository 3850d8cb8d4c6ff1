-------------------------------- MODULE AppFeed --------------------------------
(***************************************************************************)
(* `archive app changes` and `archive file find` of a version 2 Archive    *)
(* (app_integration.rs, review.rs), followed by an application that keeps  *)
(* a catalog of its own as docs/integrations/photo-album.md tells it to.   *)
(*                                                                         *)
(* Commits reach HEAD, by a local append or by a sync that brings records  *)
(* of several origins at once; the projection is applied later, by another *)
(* process, or rebuilt.  The two read commands run beside all that, take   *)
(* no lock, and are called once for every page.                            *)
(*                                                                         *)
(* A record is one inventory item: it introduces, or observes again, one   *)
(* File of the Collection.  A File is a number, its place in the order of  *)
(* paths.  Origins are numbers in the order of their ids.  The projection  *)
(* of version 2 removes no File, so every File it has is active.           *)
(***************************************************************************)
EXTENDS Integers, Sequences, FiniteSets

CONSTANTS
    Files,      \* a set of numbers
    Origins,    \* a set of numbers
    Limit,      \* the page size the application asks for
    MaxCommits, MaxRebuilds,
    MaxRestarts \* of the application

ASSUME FilesAreOrdered == Files \subseteq Nat /\ Origins \subseteq Nat
ASSUME LimitIsPositive == Limit \in Nat \ {0}

VARIABLES
    recs,  \* the records of every origin
    heads, \* the commits HEAD has had, each with its accepted frontier
    fdb,   \* the projection: the commit it is at and every File's first record
    app,   \* the application and the command it is running
    redo   \* rebuilds and restarts so far

feedVars == <<recs, heads, fdb, app, redo>>

NoRecord == <<>>
NoToken == [since |-> 0, frontier |-> 0, last |-> 0]
HEAD == Len(heads)

\* file: the row keeps the record that inserted it, whatever is applied later.
\* Records are applied origin by origin.
first_record(first, from, to) ==
    [f \in Files |->
        LET new == {r \in UNION {{o} \X (from[o] + 1..to[o]) : o \in Origins} : recs[r[1]][r[2]] = f}
        IN  IF first[f] # NoRecord \/ new = {} THEN first[f]
            ELSE CHOOSE r \in new : \A q \in new : r[1] < q[1] \/ (r[1] = q[1] /\ r[2] <= q[2])]

NothingApplied == [f \in Files |-> NoRecord]
Zero == [o \in Origins |-> 0]

\* The Files that a commit's history records, whatever the projection holds.
FilesAt(c) == {f \in Files : \E o \in Origins : \E k \in 1..heads[c][o] : recs[o][k] = f}

-----------------------------------------------------------------------------
(* The Archive.                                                            *)

\* external: an append or a sync moves HEAD (modelled in ArchiveSync)
Commit ==
    /\ HEAD < MaxCommits
    /\ \E S \in SUBSET Origins \ {{}} : \E g \in [S -> Files] :
         /\ recs' = [o \in Origins |-> IF o \in S THEN Append(recs[o], g[o]) ELSE recs[o]]
         /\ heads' = Append(heads, [o \in Origins |-> Len(recs'[o])])
    /\ UNCHANGED <<fdb, app, redo>>

apply ==
    /\ fdb.commit < HEAD
    /\ fdb' = [commit |-> HEAD,
               first  |-> first_record(fdb.first, heads[fdb.commit], heads[HEAD])]
    /\ UNCHANGED <<recs, heads, app, redo>>

rebuild ==
    /\ redo.rebuilds < MaxRebuilds
    /\ redo' = [redo EXCEPT !.rebuilds = @ + 1]
    /\ fdb' = [commit |-> HEAD, first |-> first_record(NothingApplied, Zero, heads[HEAD])]
    /\ UNCHANGED <<recs, heads, app>>

-----------------------------------------------------------------------------
(* Pages.  A page is the first Limit rows after the token's last one, and  *)
(* a token is returned only when there are more.                           *)

page(rows, token) ==
    LET after == {f \in rows : f > token.last}
    IN  {f \in after : Cardinality({g \in after : g < f}) < Limit}

has_more(rows, token) == Cardinality({f \in rows : f > token.last}) > Limit

last_item(items) == CHOOSE f \in items : \A g \in items : g <= f

ChangeToken(since, current, items) ==
    [since |-> since, frontier |-> current, last |-> last_item(items)]

\* The token names a commit where the code names its frontier's hash: every
\* commit of this history has a frontier of its own.
ChangesTokenHolds(token, since, current) ==
    token = NoToken \/ (token.since = since /\ token.frontier = current)

\* find_files: the token carries the projection's frontier in its query hash
FileToken(frontier, items) == [since |-> 0, frontier |-> frontier, last |-> last_item(items)]

FileTokenHolds(token, frontier) == token = NoToken \/ token.frontier = frontier

frontier_is_at_or_before(a, b) == \A o \in Origins : heads[a][o] <= heads[b][o]

Bug_require_current_projection(current) == fdb.commit <= current

require_current_projection(current) == fdb.commit = current

\* install_frontier: an origin the base does not have counts from zero
Introduced(since) ==
    {f \in Files : /\ fdb.first[f] # NoRecord
                   /\ fdb.first[f][2] > heads[since][fdb.first[f][1]]}

-----------------------------------------------------------------------------
(* The application.  It anchors itself with `--since HEAD`, pages through  *)
(* `file find`, and from then on polls `app changes` from the checkpoint   *)
(* it saved last.  `want` is what it is doing; `since` is 0 for HEAD.      *)

Idle(want) ==
    [app EXCEPT !.pc = "idle", !.want = want, !.token = NoToken, !.got = {}, !.retained = 0,
                !.mixed = FALSE]

\* introduced_files reads HEAD before it opens the database
canonical_cursor ==
    /\ app.pc = "idle" /\ app.want \in {"anchor", "feed"}
    /\ app' = [app EXCEPT !.pc = "snapshot", !.current = HEAD]
    /\ UNCHANGED <<recs, heads, fdb, redo>>

\* What the application makes of a page: it keeps the first page's checkpoint
\* and commits items and checkpoint together when there is no next page.
Retained == IF app.token = NoToken THEN app.current ELSE app.retained

Anchored == [Idle("list") EXCEPT !.since = app.current]

FeedPage(base, rows) ==
    LET items == page(rows, app.token)
    IN  IF has_more(rows, app.token)
        THEN [app EXCEPT !.pc = "idle", !.got = @ \cup items, !.retained = Retained,
                         !.token = ChangeToken(base, app.current, items)]
        ELSE [Idle("feed") EXCEPT !.have = @ \cup app.got \cup items,
                                  !.since = Retained, !.saved = Retained]

\* A page of changes.  Its errors (the projection is behind, the cursor is not
\* reachable, the continuation is stale) all make the application start the
\* page set again from the checkpoint it has.
introduced_files ==
    /\ app.pc = "snapshot"
    /\ LET base == IF app.want = "anchor" THEN HEAD ELSE app.since
       IN  IF /\ require_current_projection(app.current)
              /\ frontier_is_at_or_before(base, app.current)
              /\ ChangesTokenHolds(app.token, base, app.current)
           THEN app' = IF app.want = "anchor" THEN Anchored
                       ELSE FeedPage(base, Introduced(base))
           ELSE app' = Idle(app.want)
    /\ UNCHANGED <<recs, heads, fdb, redo>>

\* find_files_page reads the projection's status, and compares the token with
\* it, before it opens the transaction that reads the rows.
find_status ==
    /\ app.pc = "idle" /\ app.want = "list"
    /\ IF FileTokenHolds(app.token, fdb.commit)
       THEN app' = [app EXCEPT !.pc = "rows", !.current = fdb.commit]
       ELSE app' = Idle("list")
    /\ UNCHANGED <<recs, heads, fdb, redo>>

find_files_page ==
    /\ app.pc = "rows"
    /\ LET rows  == {f \in Files : fdb.first[f] # NoRecord}
           items == page(rows, app.token)
           mixed == app.mixed \/ (app.token # NoToken /\ fdb.commit # app.retained)
       IN  app' = IF has_more(rows, app.token)
                  THEN [app EXCEPT !.pc = "idle", !.got = @ \cup items, !.mixed = mixed,
                                   !.retained = IF app.token = NoToken THEN fdb.commit ELSE @,
                                   !.token = FileToken(app.current, items)]
                  ELSE [Idle("feed") EXCEPT !.have = @ \cup app.got \cup items, !.mixed = mixed]
    /\ UNCHANGED <<recs, heads, fdb, redo>>

\* The application dies: it keeps what it committed.
AppRestarts ==
    /\ redo.restarts < MaxRestarts
    /\ redo' = [redo EXCEPT !.restarts = @ + 1]
    /\ app' = IF app.saved = 0 THEN [Idle("anchor") EXCEPT !.since = 0]
              ELSE [Idle("feed") EXCEPT !.since = app.saved]
    /\ app' # app
    /\ UNCHANGED <<recs, heads, fdb>>

-----------------------------------------------------------------------------
FeedInit ==
    /\ recs = [o \in Origins |-> <<>>]
    /\ heads = <<Zero>>
    /\ fdb = [commit |-> 1, first |-> NothingApplied]
    /\ app = [pc |-> "idle", want |-> "anchor", since |-> 0, current |-> 0, retained |-> 0,
              token |-> NoToken, got |-> {}, have |-> {}, saved |-> 0, mixed |-> FALSE]
    /\ redo = [rebuilds |-> 0, restarts |-> 0]

FeedNext ==
    \/ Commit
    \/ apply
    \/ rebuild
    \/ canonical_cursor
    \/ introduced_files
    \/ find_status
    \/ find_files_page
    \/ AppRestarts

FeedSpec == FeedInit /\ [][FeedNext]_feedVars

-----------------------------------------------------------------------------
(* "This may repeat items but will not silently omit them" (photo-album.md *)
(* 174): an application that follows the protocol has every File that the  *)
(* history of its checkpoint records, whatever was committed, applied or   *)
(* rebuilt between the pages it read.                                      *)
FeedMissesNothing == app.saved # 0 => FilesAt(app.saved) \subseteq app.have

(* A page set that is followed to its end belongs to one Archive snapshot: *)
(* it has no File that the first page's checkpoint did not have.           *)
FeedShowsOneSnapshot ==
    app'.saved # app.saved => app'.have \ app.have \subseteq FilesAt(app'.saved)

(* The pages an application follows are one snapshot and omit nothing.     *)
FeedIsComplete == [][FeedShowsOneSnapshot /\ FeedMissesNothing']_feedVars

(* "If the relevant frontier advances between pages, the command returns   *)
(* stale_continuation and asks the user to restart" (product.md 1036): a   *)
(* listing never continues with rows of another frontier than its first    *)
(* page's.                                                                 *)
\* TLC refutes it: README, "Met while modelling".
ListingsAreOneFrontier == ~app.mixed

(* The feed returns "active logical Files first introduced after the       *)
(* accepted frontier" (product.md 1054): none that the starting commit's   *)
(* history already records.                                                *)
\* TLC refutes it: README, "Met while modelling".
FeedReturnsOnlyNew ==
    app.want = "feed" /\ app.pc = "snapshot" /\ require_current_projection(app.current)
        => Introduced(app.since) \cap FilesAt(app.since) = {}
=============================================================================
