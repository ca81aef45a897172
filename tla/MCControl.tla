----------------------------- MODULE MCControl -----------------------------
(* Instances of Control for TLC. *)
EXTENDS Control

CONSTANTS light, dark, contrast

AllKinds == ButtonKinds \cup {"splitter"}
=============================================================================
