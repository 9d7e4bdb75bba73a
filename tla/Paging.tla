------------------------------- MODULE Paging -------------------------------
(***************************************************************************)
(* get_paginated_rows (core/client_helpers.py) over a list that changes      *)
(* between its requests.                                                     *)
(***************************************************************************)
EXTENDS Integers, FiniteSets, Sequences, SequencesExt

CONSTANTS
    Rows,          \* what the server's list may hold
    PageSize,
    MaxPages       \* bounds the pages that are asked for

ASSUME PageSizeAssumption == PageSize \in Nat \ {0}
ASSUME PagesAssumption == MaxPages \in Nat

VARIABLES
    list,          \* the server's list
    reportsTotal,  \* does it answer with `total`?
    pageNo,        \* the page asked for next; 0 when nobody reads
    count,         \* len(rows)
    got,           \* the rows in it
    steady,        \* history: rows there since reading began
    shifted        \* history: a row that had been read was taken out

pageVars == <<list, reportsTotal, pageNo, count, got, steady, shifted>>

PageTypeOK ==
    /\ list \in Seq(Rows) /\ IsInjective(list)
    /\ reportsTotal \in BOOLEAN
    /\ pageNo \in 0 .. MaxPages + 1 /\ count \in Nat
    /\ got \subseteq Rows /\ steady \subseteq Rows
    /\ shifted \in BOOLEAN

InitPage ==
    /\ list = <<>>
    /\ reportsTotal \in BOOLEAN
    /\ pageNo = 0 /\ count = 0 /\ got = {} /\ steady = {} /\ shifted = FALSE

(* Where the page begins that is asked for next. *)
PagesRead == PageSize * (pageNo - 1)

-----------------------------------------------------------------------------
RowAppears(r) ==
    /\ r \notin Range(list) \cup steady \cup got
    /\ \E i \in 1 .. Len(list) + 1 : list' = InsertAt(list, i, r)
    /\ UNCHANGED <<reportsTotal, pageNo, count, got, steady, shifted>>

RowGoes(i) ==
    /\ i \in DOMAIN list
    /\ list' = RemoveAt(list, i)
    /\ steady' = steady \ {list[i]}
    /\ shifted' = (shifted \/ (pageNo > 0 /\ i <= PagesRead))
    /\ UNCHANGED <<reportsTotal, pageNo, count, got>>

StartReading ==
    /\ pageNo = 0
    /\ pageNo' = 1 /\ count' = 0 /\ got' = {}
    /\ steady' = Range(list) /\ shifted' = FALSE
    /\ UNCHANGED <<list, reportsTotal>>

(* The positions of the page asked for, and the rows there. *)
PageAt   == {j \in DOMAIN list : PagesRead < j /\ j <= PagesRead + PageSize}
PageRows == {list[j] : j \in PageAt}

(* Mutant: one row is not worth another request. *)
MutLastPage(length) ==
    length = 0 \/ (reportsTotal /\ count + length + 1 >= Len(list))

(* An empty page, or as many rows as the total of this answer. *)
LastPage(length) == length = 0 \/ (reportsTotal /\ count + length >= Len(list))

ReadPage ==
    /\ pageNo \in 1 .. MaxPages
    /\ got' = got \cup PageRows
    /\ count' = count + Cardinality(PageAt)
    /\ pageNo' = IF LastPage(Cardinality(PageAt)) THEN 0 ELSE pageNo + 1
    /\ UNCHANGED <<list, reportsTotal, steady, shifted>>

(* Any request may fail: nothing is returned. *)
ReadingFails ==
    /\ pageNo > 0
    /\ pageNo' = 0 /\ count' = 0 /\ got' = {} /\ steady' = {}
    /\ UNCHANGED <<list, reportsTotal, shifted>>

NextPage ==
    \/ \E r \in Rows : RowAppears(r)
    \/ \E i \in 1 .. Len(list) : RowGoes(i)
    \/ StartReading \/ ReadPage \/ ReadingFails

SpecPage == InitPage /\ [][NextPage]_pageVars

-----------------------------------------------------------------------------
(* When reading ends, every row that was there all the time has been read, wherever *)
(* others were put in meanwhile; only one taken out from what had been read      *)
(* already can make another one slip through.                                *)
EverySteadyRowRead == pageNo = 0 /\ ~shifted => steady \subseteq got

-----------------------------------------------------------------------------
(* The inductive invariant behind EverySteadyRowRead: what was there when reading    *)
(* began is in the list still, and has been read if it lies in a page read; the  *)
(* rows read are no more than the pages read hold.                           *)
ReadSoFar ==
    /\ steady \subseteq Range(list) \/ pageNo = 0
    /\ pageNo > 0 => count <= PagesRead
    /\ pageNo > 0 /\ ~shifted =>
         \A j \in DOMAIN list : list[j] \in steady /\ j <= PagesRead => list[j] \in got

PageInv == PageTypeOK /\ ReadSoFar /\ EverySteadyRowRead
=============================================================================
