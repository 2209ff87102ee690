------------------------------ MODULE MCArtefacts ------------------------------
(***************************************************************************)
(* What is made under artefacts/ and from it: the Makefile over the static *)
(* image and the other sources, and the two programs that fetch the image  *)
(* and the disk from upstream.  fetch_static leaves the expected image or  *)
(* fails, so to the Makefile the image is a source: one of the two is at   *)
(* work in each behaviour.                                                 *)
(*                                                                         *)
(* The build: one edit and three invocations of make.  The fetching: three *)
(* runs of the two programs together, at most two of them interrupted.     *)
(***************************************************************************)
EXTENDS BuildGraph, FetchStatic

VARIABLE part

\* The part that is not at work stays as it starts.
MCInit ==
  \/ part = "build" /\ Init /\ FetchInit /\ upstream = "good"
  \/ part = "fetch" /\ FetchInit /\ Init

MCNext ==
  \/ part = "build" /\ Next /\ UNCHANGED <<part, filesVars>>
  \/ part = "fetch" /\ FetchNext /\ UNCHANGED <<part, vars>>

MCSpec == MCInit /\ [][MCNext]_<<part, vars, filesVars>>
==============================================================================
