--------------------------------- MODULE Reads ---------------------------------
(***************************************************************************)
(* The vocabulary in which a connector's collection is written down: the   *)
(* reads it makes of its source, in order, and for each read what a failure *)
(* of it, or an item of its answer that cannot be read, does to the        *)
(* coverage of the batch.                                                  *)
(***************************************************************************)
EXTENDS Sequences

\* A row of a batch: an asset, relationship, finding or activity, recorded in a plane.
Rows(things, plane) == things \X {plane}

\* `call' is made for every item of the answers to the calls `per' (once, when
\* `per' is empty).  When it fails the planes `opens' are failed and the planes
\* `blames' partial; an item of its answer that is refused makes the planes
\* `spoils' partial and the item is passed over.
Read(call, per, opens, blames, spoils, rows) ==
    [call |-> call, per |-> per, opens |-> opens, blames |-> blames,
     spoils |-> spoils, rows |-> rows, notes |-> {}, with |-> {}, asks |-> TRUE,
     fatal |-> FALSE]

\* One listing answers for all of `planes'.
List(call, per, planes, rows) == Read(call, per, planes, {}, planes, rows)

\* The detail of an item: without it `planes' are partial.
Detail(call, per, planes, rows) == Read(call, per, {}, planes, {}, rows)

\* What the connector makes of an answer it has: it cannot fail, an item of it can
\* be refused.
Parse(what, per, spoils, rows) ==
    [Read(what, per, {}, {}, spoils, rows) EXCEPT !.asks = FALSE]

\* Planes a readable item can also make partial (what it names is out of scope, say).
Noting(read, planes) == [read EXCEPT !.notes = planes]

\* The rows of `read' need these calls to have seen the item too.
With(read, calls) == [read EXCEPT !.with = calls]

\* A failure, or a refused item, raises out of the collector: no batch is stored.
Fatal(read) == [read EXCEPT !.fatal = TRUE]

\* A plan is what one batch is made of.  `once': things that are recorded only in
\* the plane of the first read that shows them.  `absence': whether what a complete plane
\* does not show is withdrawn (activity is only ever added to).
Plan(reads, once, absence) == [reads |-> reads, once |-> once, absence |-> absence]

\* What must work before anything of the source is read, or the collection raises.
Before(what) == <<Fatal(Read(what, {}, {}, {}, {}, {}))>>

\* A plan that is carried out once all this has worked.
Through(preparation, plan) == [plan EXCEPT !.reads = preparation \o @]

=============================================================================
