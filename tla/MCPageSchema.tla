---------------------------- MODULE MCPageSchema ----------------------------
(* Small instances of PageSchema: which operations the requests ask for.    *)
EXTENDS PageSchema

CONSTANTS
    Second,                 \* a column added later
    Whole, Fraction, Huge,  \* numbers: of two decimals, of more, of too many digits
    Day, Moment             \* a date, and a time of that day

SomeNumbers == {Whole, Fraction, Huge}
SomeDates == {Day, Moment}
SlotKeeps ==
    [v \in {Whole, Fraction, Day, Moment} |->
        IF v \in SomeNumbers THEN Whole ELSE Day]

Cell(c, v) == [NoData EXCEPT ![c] = v]
Patch(c, t, ix, ar) ==
    [op |-> "column", col |-> c, type |-> t, confirm |-> TRUE, indexed |-> ix, archived |-> ar]

\* Restructuring: two columns compete for the slots, the page is renamed.
SchemaCalls ==
    {[op |-> "add", col |-> Second, type |-> FirstType, indexed |-> "on"],
     [op |-> "page", dateKey |-> FirstColumn, named |-> FALSE],
     [op |-> "archive"], [op |-> "schema"],
     Patch(FirstColumn, "same", "on", "same"),
     Patch(FirstColumn, "same", "off", "same"),
     Patch(FirstColumn, "DATE", "same", "same")}
       \union
    {[op |-> "create", data |-> Cell(FirstColumn, v)] : v \in {Fraction, Huge, Moment}}
       \union
    {[op |-> "edit", rec |-> q, data |-> Cell(FirstColumn, Null)] : q \in Records}
       \union
    {[op |-> "delete", rec |-> q] : q \in Records}

\* References from one record of the page to another.
RefCalls ==
    {[op |-> "create", data |-> Cell(FirstColumn, o)] : o \in Records \union {Null}}
       \union
    {[op |-> "delete", rec |-> q] : q \in Records}

=============================================================================
