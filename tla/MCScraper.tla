----------------------------- MODULE MCScraper -----------------------------
(***************************************************************************)
(* Instances of Scraper for TLC: two posts, both usable.   *)
(***************************************************************************)
EXTENDS Scraper

MCUsable2 == {1, 2}
=============================================================================
