------------------------------ MODULE MCCorporate ------------------------------
(***************************************************************************)
(* One fund in scope and one out of it, three days, an issuer, an exchange *)
(* and a vendor.                                                           *)
(***************************************************************************)
EXTENDS CorporateWorkflow

Issuer == 1
Exchange == 2
Days == 1..3
Kinds == {"CASH_DIVIDEND", "SPLIT"}

MCOptions ==
  [windows |-> {<<1, 3>>}, entities |-> {1}, misspelled |-> {7}, preferred |-> <<Issuer, Exchange>>, tolerance |-> 1, near |-> 1]

MCVendorRows ==
  {[vendor |-> TRUE, id |-> 10 * x[1] + x[2], entity |-> 1, kind |-> "CASH_DIVIDEND", date |-> x[1], value |-> x[2], pay |-> x[1]] :
     x \in {<<1, 2>>, <<2, 2>>, <<2, 4>>, <<3, 2>>}}
  \cup {[vendor |-> TRUE, id |-> 50, entity |-> 1, kind |-> "SPLIT", date |-> 2, value |-> 2, pay |-> Absent],
        [vendor |-> TRUE, id |-> 70, entity |-> 2, kind |-> "CASH_DIVIDEND", date |-> 2, value |-> 2, pay |-> 2]}

Rec(source, kind, date, value) ==
  [source |-> source, entity |-> 1, kind |-> kind, date |-> date, value |-> value, pay |-> Absent, announced |-> Absent]

(* Agreeing within the tolerance, disagreeing, a near day, a refused value.*)
MCIssuerSets ==
  {{Rec(Issuer, "CASH_DIVIDEND", 2, v)} : v \in {-1, 2, 3, 4}}
  \cup {{Rec(Issuer, "CASH_DIVIDEND", 1, 2), Rec(Issuer, "CASH_DIVIDEND", 3, 2)},
        {Rec(Issuer, "SPLIT", 2, 2), Rec(Issuer, "CASH_DIVIDEND", 3, 3)}}

TypedRow(line, date, value) ==
  [line |-> line, width |-> Width, source |-> Exchange, entity |-> 1, kind |-> "CASH_DIVIDEND", date |-> date,
   value |-> value, pay |-> Absent, document |-> 1]

MCCurated ==
  {<<>>, <<TypedRow(2, 2, 3)>>, <<TypedRow(2, 2, 3), TypedRow(3, 2, 3)>>,
   <<[TypedRow(2, 2, 3) EXCEPT !.source = Issuer]>>}

Sel(source, kind, date) == [source |-> source, kind |-> kind, date |-> date]

SameDay == {Sel(s, "CASH_DIVIDEND", Absent) : s \in {Issuer, Vendor}}
OnDay(d) == {Sel(s, k, d) : s \in {Issuer, Vendor}, k \in Kinds}

Lists ==
  {<<{}, {}>>, <<SameDay, {}>>, <<{}, SameDay>>,
   <<{Sel(Vendor, "CASH_DIVIDEND", Absent)}, {Sel(Issuer, "CASH_DIVIDEND", Absent)}>>,
   <<SameDay \cup OnDay(3), {}>>, <<SameDay, {Sel(Issuer, "CASH_DIVIDEND", 3)}>>}

Entry(kind, date, value, lists) ==
  [action |-> [kind |-> kind, entity |-> 1, date |-> date, value |-> value, pay |-> Absent, stock |-> Absent, unread |-> {}],
   sources |-> {Issuer, Exchange}, announced |-> Absent, supersedes |-> lists[1], keeps |-> lists[2]]

MCStructural ==
  {<<>>}
  \cup {<<Entry(k, d, 5, l)>> : k \in Structural, d \in {2, 3}, l \in Lists}
  \cup {<<Entry("SPINOFF", 2, 5, l), Entry("DELISTING", d, 5, <<SameDay \cup OnDay(3), {}>>)>> :
          l \in {<<{}, SameDay>>, <<SameDay, {}>>}, d \in {2, 3}}
  \cup {<<Entry("DELISTING", 2, Absent, <<{}, {}>>)>>, <<[Entry("SPINOFF", 2, 5, <<{}, {}>>) EXCEPT !.action.entity = 7]>>,
        <<Entry("MERGER", 0, 5, <<{}, {}>>)>>, <<Entry("DELISTING", 4, 5, <<{}, {}>>)>>}

MCOwner ==
  {<<>>, <<[entity |-> 1, content |-> "fund", reads |-> TRUE, records |-> {Rec(Exchange, "CASH_DIVIDEND", 3, 2)}]>>,
   <<[entity |-> 2, content |-> "other", reads |-> TRUE, records |-> {}]>>}

=============================================================================
