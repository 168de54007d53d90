----------------------------- MODULE MCMigrate ------------------------------
(* Releases for the two runs that show where Migrate breaks its promises:  *)
(* one version beyond the cursor that SQLite can hold, and a release that  *)
(* extends another.                                                        *)
EXTENDS Migrate

MCWide == {<<1>>, <<1, 20>>}
MCShort == {<<1>>, <<1, 2>>}
=============================================================================
