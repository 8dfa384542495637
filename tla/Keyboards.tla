------------------------------- MODULE Keyboards -------------------------------
(***************************************************************************)
(* What the menus of the bot are made of.  A keyboard is the sequence of    *)
(* the callback data of its buttons, row by row; links are left out.  An    *)
(* answer is one way a handler may answer a press: the keyboard it shows or *)
(* none, the things that must exist and those that must not for it to       *)
(* answer that way, and the things it erases or makes.  A handler is the    *)
(* set of its answers.  Ids are 1 and uuids u: a screen is about one object *)
(* of a kind.                                                               *)
(***************************************************************************)
EXTENDS Naturals, Sequences, SequencesExt, FiniteSets

\* Everything an answer depends on: the rows and panel accounts handlers look
\* up, the person's access to the staff's menus and two switches of the brand.
Kinds == {"member", "staff", "referrals", "support",
          "service", "subscription", "claim", "plan", "order", "unpaid", "method", "picker",
          "wallet", "currency", "coin", "payment", "receipt",
          "challenge", "material", "item", "ticket", "category", "article",
          "provider", "account", "admin_account", "form", "card", "crypto",
          "person", "link", "plan_row", "tier", "rule"}

Answer(keyboard, keeps) ==
    [keyboard |-> keyboard, keeps |-> keeps, needs |-> {}, lacks |-> {},
     erases |-> {}, makes |-> {}, fails |-> FALSE]

\* edit_message_with_keyboard, which sends the message anew when it cannot be
\* edited: either way the user looks at the new keyboard.
ShowOne(keyboards) == {Answer(k, FALSE) : k \in keyboards}
Show(keyboard) == ShowOne({keyboard})

\* callback.answer alone, or a message without buttons below the keyboard.
Alert == {Answer(<<>>, TRUE)}

\* The handler never does what the button says: it always shows an error.
Errs(answers) == {[a EXCEPT !.fails = TRUE] : a \in answers}
\* An exception the dispatcher catches, or the branch for data it does not know.
Fail == Errs(Alert)

\* The answers while the thing exists, and those once it does not.
Of(kind, found, lost) ==
    {[a EXCEPT !.needs = @ \cup {kind}] : a \in found}
        \cup {[a EXCEPT !.lacks = @ \cup {kind}] : a \in lost}

Found(kind, answers) == Of(kind, answers, Alert)

Erase(kind, answers) == {[a EXCEPT !.erases = @ \cup {kind}] : a \in answers}
Make(kind, answers) == {[a EXCEPT !.makes = @ \cup {kind}] : a \in answers}
Toggle(kind, answers) == Of(kind, Erase(kind, answers), Make(kind, answers))

\* Keyboards made of parts: a part is the set of the forms it may take.
Row(buttons) == {buttons}
May(buttons) == {<<>>, buttons}
Parts ++ More == {p \o m : p \in Parts, m \in More}

\* "previous" and "next" of a list of several pages.
Pages(prefix) == {<<>>, <<prefix \o "2">>, <<prefix \o "1">>, <<prefix \o "1", prefix \o "2">>}

\* get_back_keyboard
Back(data) == Show(<<data>>)
=============================================================================
