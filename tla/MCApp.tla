--------------------------------- MODULE MCApp ---------------------------------
(* Small instances of what leaves an Archive: the change feed of the       *)
(* application interface (AppFeed), its access plans (AppAccess) and the   *)
(* migration to a SQLite archive (Migration).  A behaviour is one of them: *)
(* the others stay where they start.                                       *)
EXTENDS AppFeed, AppAccess, Migration, TLC

CONSTANTS l1, l2, h1, h2

VARIABLE part

\* Two Roots on two devices, one Location on each, and two content identities.
MCDeviceOf == [r \in {21, 22} |-> r + 10]
MCRootOf == [l \in {11, 13} |-> IF l = 13 THEN 22 ELSE 21]
MCIdentities == {<<"o1", None>>, <<"o2", None>>}
\* An unknown id, a repeated one and one of another Collection.
MCRequests == {<<1, 9, 2, 1, 3>>}

AppInit == part \in {"feed", "access", "migration"} /\ FeedInit /\ AccessInit /\ MigInit

AppNext ==
    \/ part = "feed" /\ FeedNext /\ UNCHANGED <<part, accessVars, migVars>>
    \/ part = "access" /\ AccessNext /\ UNCHANGED <<part, feedVars, migVars>>
    \/ part = "migration" /\ MigNext /\ UNCHANGED <<part, feedVars, accessVars>>

AppSpec == AppInit /\ [][AppNext]_<<part, feedVars, accessVars, migVars>>

\* The Locations and the contents are interchangeable: the first record is
\* about l1 and h1.
FirstRecord ==
    Records = 1 => \A m \in Machines : \A k \in DOMAIN hist[m] :
                      hist[m][k].loc = l1 /\ hist[m][k].hash = h1

\* Behaviours end when the migration has published the new archive.
NotYetPublished == dest = <<>>

\* The other machine applies what it accepts before anything else happens.
OtherAppliesAtOnce ==
    \A m \in Machines \ {Migrant} :
        view[m].at # known[m] /\ ~Unprojectable(view[m], known[m]) => view'[m] # view[m]

\* While a migration runs, which reads a projection of its own, the migrating
\* machine's stays as it is.
ReadsNoProjection == mig.pc # "idle" => view'[Migrant] = view[Migrant]
=============================================================================
