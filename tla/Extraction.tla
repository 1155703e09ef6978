----------------------------- MODULE Extraction -----------------------------
(***************************************************************************)
(* What the extractors of all platforms are built from: the requests a     *)
(* call makes, what it does when one of them brings nothing, and the       *)
(* listings a platform answers with.                                       *)
(*                                                                         *)
(* A reply is a record of the fields the extractor looks at; a field that  *)
(* is not there is Missing.  Titles, names, covers and counts are left     *)
(* out.                                                                    *)
(***************************************************************************)
EXTENDS Naturals, Sequences, SequencesExt

CONSTANTS
  Missing,   (* a field, a reply or an optional value that is not there    *)
  PageSize   (* entries of a full page: 40, 20, 15 and 10 in the code      *)

ASSUME ExtractionAssumption == PageSize \in Nat \ {0}

(* A request that must bring what it asks for, or the call ends with an    *)
(* error; one that is done without; and one that must bring a reply, which *)
(* may lack what was asked for: that is taken for an answer of its own.    *)
Required(ask) == [ask |-> ask, policy |-> "required"]
Optional(ask) == [ask |-> ask, policy |-> "optional"]
Unchecked(ask) == [ask |-> ask, policy |-> "unchecked"]

(* What a call returns.                                                    *)
Failure == [ok |-> FALSE]
Success(value) == [ok |-> TRUE, value |-> value]

(* A page as the caller sees it.                                           *)
Listing(entries, more) ==
  Success([items |-> [i \in DOMAIN entries |-> entries[i].id], more |-> more])

(* The page in a reply: without a list, an empty one that is the last.     *)
PageIn(body) == IF body = Missing THEN [list |-> <<>>, more |-> FALSE] ELSE body

(* filter: what passes of a list, in order.                                *)
Filtered(list, Test(_)) ==
  LET upto[n \in 0..Len(list)] ==
        IF n = 0 THEN <<>>
        ELSE IF Test(list[n]) THEN Append(upto[n - 1], list[n]) ELSE upto[n - 1]
  IN  upto[Len(list)]

(* The entries that have what the extractor needs of an entry.             *)
Whole(entry) == entry.whole
Readable(entries) == Filtered(entries, Whole)

(* The same, where rooms that are off are left out.                        *)
OnAir(entry) == entry.live /\ entry.whole

(* A category and what is in it.                                           *)
Category(id, subs) == [id |-> id, subs |-> [i \in DOMAIN subs |-> subs[i].id]]

(* A room, and the formats it may be played in.                            *)
Detail(status, data, danmaku) ==
  Success([status |-> status, data |-> data, danmaku |-> danmaku])

Urls(urls, format) ==
  IF urls = <<>> THEN Failure ELSE Success([urls |-> urls, format |-> format])

Qualities(list) == Success(list)

(* A platform (external) answers a request for a page of its listing: the  *)
(* entries, whether there are more, the page's number, how many pages and  *)
(* how many entries there are.                                             *)
PageOf(entries, offset) ==
  LET last == offset + PageSize
      pages == (Len(entries) + PageSize - 1) \div PageSize
  IN  [list  |-> SubSeq(entries, offset + 1, IF last < Len(entries) THEN last ELSE Len(entries)),
       more  |-> last < Len(entries),
       page  |-> offset \div PageSize + 1,
       pages |-> pages,
       found |-> Len(entries)]

NumberedPage(entries, page) == PageOf(entries, (page - 1) * PageSize)

(* Mutant: pages are counted from zero.                                    *)
RowsThrough(page) == page * PageSize

(* Where a page begins, for the platforms that are asked by row:           *)
(* page.saturating_sub(1) * rows.                                          *)
RowsBefore(page) == (page - 1) * PageSize

=============================================================================
