------------------------------- MODULE MCBinList -------------------------------
(***************************************************************************)
(* Small instances of BinList.                                             *)
(***************************************************************************)
EXTENDS BinList

Six   == Number(<<4, 1, 4, 7, 2, 0>>)
Five  == Number(<<1, 4, 7, 2, 0>>)
Seven == Number(<<4, 1, 4, 7, 2, 0, 9>>)
Card  == Number(<<4, 1, 4, 7, 2, 0, 9, 9, 9>>)

Content(cells) == [kind |-> "content", cells |-> cells]
Says(name, value) == [kind |-> "directive", name |-> name, value |-> value]

MCLines ==
  {Says("pad", "yes"), Says("pad", "no"), Says("confidence", "low"), Says("niveau", "country"),
   Content(<<Word("bin"), Word("bank")>>),
   Content(<<Word("emetteur"), Word("bin"), Word("niveau")>>),
   Content(<<Six, Word("chase")>>), Content(<<Five, Word("chase")>>),
   Content(<<Seven, Blank>>), Content(<<Damaged, Word("chase")>>),
   Content(<<Card, Word("chase")>>), Content(<<Word("citi"), Six, Word("chase")>>)}

None == [k \in {} |-> ""]
MCSidecars == {None, [k \in {"pad"} |-> "yes"], [k \in {"pad"} |-> "maybe"]}
MCDatasets == {"d1"}
MCSpellings == [k \in {"emetteur"} |-> "bank"]
MCKnown    == {"bin", "bank", "country"}
================================================================================
