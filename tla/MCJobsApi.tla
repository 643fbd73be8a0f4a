----------------------------- MODULE MCJobsApi -----------------------------
(* JobsApi: two programs, one of them without the key. *)
EXTENDS JobsApi

CONSTANTS keyed, stranger

MCPrograms == {keyed, stranger}
MCKeyed == {keyed}

=============================================================================
