------------------------------- MODULE MCDedupe -------------------------------
(***************************************************************************)
(* Two duplicates of one course beside another course, of which one may    *)
(* carry the stable vector id, and a row that is created meanwhile.        *)
(***************************************************************************)
EXTENDS Dedupe

LegacyTitles == <<"T", "T", "U">>
StableIds == {<<2, "T">>, <<4, "U">>}
=============================================================================
