----------------------------- MODULE Deployment -----------------------------
(***************************************************************************)
(* What the updater promises whoever uses the site.  A release is code     *)
(* together with the schema and the Compose template it needs.  The site   *)
(* changes release only while its gate is closed, as a whole, never to a   *)
(* newer release before the current one has been kept, and goes back only  *)
(* to what has been kept.                                                  *)
(***************************************************************************)
EXTENDS Naturals

CONSTANT Releases     \* releases that exist: numbers ordered by age, 1 the first

VARIABLES
  open,   \* the gate: visitors reach the site
  site,   \* what the site runs
  kept    \* backups: a release and the schema of the data saved with it

siteVars == <<open, site, kept>>

Release(v) == [code |-> v, schema |-> v, template |-> v]

Backup(v) == [code |-> v, schema |-> v]

SiteInit ==
  /\ open = TRUE
  /\ site = Release(1)
  /\ kept = {}

Close ==
  /\ open /\ open' = FALSE
  /\ UNCHANGED <<site, kept>>

Open ==
  /\ ~open /\ open' = TRUE
  /\ UNCHANGED <<site, kept>>

Keep ==
  /\ ~open
  /\ kept' = kept \cup {Backup(site.code)}
  /\ UNCHANGED <<open, site>>

Upgrade ==
  /\ ~open
  /\ Backup(site.code) \in kept
  /\ \E v \in Releases : v > site.code /\ site' = Release(v)
  /\ UNCHANGED <<open, kept>>

GoBack ==
  /\ ~open
  /\ \E v \in Releases : Backup(v) \in kept /\ site' = Release(v)
  /\ UNCHANGED <<open, kept>>

SiteNext == Close \/ Open \/ Keep \/ Upgrade \/ GoBack

SiteSpec == SiteInit /\ [][SiteNext]_siteVars

=============================================================================
