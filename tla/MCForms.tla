------------------------------ MODULE MCForms -------------------------------
(* A text for Forms in which a `do' has a string among its forms.          *)
EXTENDS Forms

Word(t) == [kind |-> "token", token |-> t]

Brackets(words) == [kind |-> "(", items |-> [i \in DOMAIN words |-> Word(words[i])]]

Worth == [n \in Number |-> 1]

TextsWithString == {<<Brackets(<<"do", "1", "string">>), Word("1")>>}

=============================================================================
