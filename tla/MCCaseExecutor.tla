---------------------------- MODULE MCCaseExecutor ----------------------------
(* A small case for TLC: a write in setup, a read and a write in test and teardown. *)
EXTENDS CaseExecutor

Get  == [safe |-> TRUE]
Put  == [safe |-> FALSE]

WriteOnly == <<Put>>
ReadWrite == <<Get, Put>>
TwoCleanups == <<Put, Get>>
===============================================================================
