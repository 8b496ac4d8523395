----------------------------- MODULE MCPromotion -----------------------------
(* Promotion on small instances: two agents share two trial tasks, so that    *)
(* one may die or be overtaken between its append and its anchor.             *)
EXTENDS Promotion
==============================================================================
