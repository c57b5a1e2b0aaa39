-------------------------------- MODULE Names --------------------------------
(***************************************************************************)
(* How the service puts names to orders (service.go, the four listings and *)
(* details): it collects the ids of menus, tables and users, asks master   *)
(* data and the account service for them, and fills in what comes back.    *)
(*                                                                         *)
(* An id counts as collected when its digits occur in the list, joined by  *)
(* commas, of those collected before (strings.Contains): 1 is not asked    *)
(* for once 12 is.                                                         *)
(*                                                                         *)
(* The names of this module differ from those of Filters, the other end of *)
(* a page, so that one module can speak of both.                           *)
(***************************************************************************)
EXTENDS SequencesExt, Integers

CONSTANTS
  Pages,      \* rows that the repository may return, see Row
  MaxDigits   \* bound: digits of an id

\* A row is the header of an order joined with its lines, of which it has one at
\* least.
Row == [table : Nat \ {0}, user : Nat \ {0}, menus : Seq(Nat \ {0}) \ {<<>>}]

ASSUME NamesAssumption == Pages \subseteq Seq(Row) /\ MaxDigits \in Nat

\* The listing and the detail of the staff, the listing and the detail of a user.
Kinds   == {"list", "one", "history", "ownOne"}
Details == {"one", "ownOne"}
Staff   == {"list", "one"}

VARIABLES
  stage,        \* "collect", "menus", "users", "fill", "done", "failed" or "panic"
  kind, rows,   \* the endpoint, and what the repository returned to it
  known,        \* what the peers know, by the name of their list
  asked,        \* the ids they are asked for
  named         \* the ids that got a name

namesVars == <<stage, kind, rows, known, asked, named>>

Nothing == [menus |-> {}, tables |-> {}, users |-> {}]

MenusOf(page)  == FoldLeft(LAMBDA list, row : list \o row.menus, <<>>, page)
TablesOf(page) == [i \in DOMAIN page |-> page[i].table]
UsersOf(page)  == [i \in DOMAIN page |-> page[i].user]

NamesInit ==
  /\ stage = "collect"
  /\ rows \in Pages
  /\ kind \in IF Len(rows) = 1 THEN Kinds ELSE Kinds \ Details
  /\ known \in [menus : SUBSET Range(MenusOf(rows)), tables : SUBSET Range(TablesOf(rows)),
                users : SUBSET Range(UsersOf(rows))]
  /\ asked = Nothing /\ named = Nothing

-------------------------------------------------------------------------------
(* Collecting.                                                             *)

Power(digits) == FoldFunction(LAMBDA ten, p : ten * p, 1, [d \in 1..digits |-> 10])

Digits(id) == CHOOSE d \in 1..MaxDigits : Power(d - 1) <= id /\ id < Power(d)

\* The digits of id occur in those of other.
Within(id, other) ==
  \E k \in 0..MaxDigits - 1 : (other \div Power(k)) % Power(Digits(id)) = id

\* Mutant: the arguments of strings.Contains are swapped.
CollectSwapped(ids) ==
  FoldLeft(LAMBDA list, id : IF \E other \in list : Within(other, id)
                             THEN list ELSE list \cup {id}, {}, ids)

Collect(ids) ==
  FoldLeft(LAMBDA list, id : IF \E other \in list : Within(id, other)
                             THEN list ELSE list \cup {id}, {}, ids)

Ids == [menus |-> Collect(MenusOf(rows)),
        tables |-> IF kind \in Details THEN Range(TablesOf(rows)) ELSE Collect(TablesOf(rows)),
        users |-> IF kind = "list" THEN Collect(UsersOf(rows))
                  ELSE IF kind = "one" THEN Range(UsersOf(rows)) ELSE {}]

\* Nobody is asked when there is no row.
CollectIds ==
  /\ stage = "collect"
  /\ asked' = Ids
  /\ stage' = IF Ids.menus = {} \/ Ids.tables = {} THEN "done" ELSE "menus"
  /\ UNCHANGED <<kind, rows, known, named>>

-------------------------------------------------------------------------------
(* Asking and filling in.                                                  *)

MenusAnswered ==
  /\ stage = "menus"
  /\ stage' = IF kind \in Staff THEN "users" ELSE "fill"
  /\ UNCHANGED <<kind, rows, known, asked, named>>

UsersAnswered ==
  /\ stage = "users" /\ stage' = "fill"
  /\ UNCHANGED <<kind, rows, known, asked, named>>

\* InternalRequest fails, or the body cannot be read: so does the whole call.
PeerFails ==
  /\ stage \in {"menus", "users"} /\ stage' = "failed"
  /\ UNCHANGED <<kind, rows, known, asked, named>>

Returned == [list \in DOMAIN Nothing |-> asked[list] \cap known[list]]

\* Details take the first table and the first user of the answers unseen.
IsIndexOutOfRange ==
  /\ kind \in Details
  /\ Returned.tables = {} \/ (kind = "one" /\ Returned.users = {})

\* Mutant: the names of the users are not filled in.
FillWithoutUsers ==
  /\ stage = "fill" /\ stage' = "done"
  /\ ~ IsIndexOutOfRange
  /\ named' = [Returned EXCEPT !.users = {}]
  /\ UNCHANGED <<kind, rows, known, asked>>

\* A user's own orders carry the name in the token.
Fill ==
  /\ stage = "fill" /\ stage' = "done"
  /\ ~ IsIndexOutOfRange
  /\ named' = [Returned EXCEPT !.users = IF kind \in Staff THEN @ ELSE Range(UsersOf(rows))]
  /\ UNCHANGED <<kind, rows, known, asked>>

Panic ==
  /\ stage = "fill" /\ stage' = "panic"
  /\ IsIndexOutOfRange
  /\ UNCHANGED <<kind, rows, known, asked, named>>

NamesEnded == stage \in {"done", "failed", "panic"} /\ UNCHANGED namesVars

NamesNext ==
  \/ CollectIds \/ MenusAnswered \/ UsersAnswered \/ PeerFails \/ Fill \/ Panic
  \/ NamesEnded

NamesSpec == NamesInit /\ [][NamesNext]_namesVars

-------------------------------------------------------------------------------
(* Properties.                                                             *)

\* The ids on the page, by the name of the list they are asked in.
Shown == [menus |-> Range(MenusOf(rows)), tables |-> Range(TablesOf(rows)),
          users |-> Range(UsersOf(rows))]

\* An id that is shown without a name is unknown to the peer, or its digits occur
\* in another id of the page: the substring test costs no other names.
NamelessIsExplained ==
  stage = "done" =>
    \A list \in DOMAIN Nothing : \A id \in Shown[list] \ named[list] :
      \/ id \notin known[list]
      \/ \E other \in Shown[list] \ {id} : Within(id, other)

\* A detail shows the table and the user, if they are known, whatever their ids
\* are: it names what the listing may leave out.  The process dies of a detail
\* only if a peer does not know one of the two.
DetailsAreNamed ==
  kind \in Details =>
    /\ stage = "done" => /\ Shown.tables \cap known.tables \subseteq named.tables
                         /\ Shown.users \cap known.users \subseteq named.users
    /\ stage = "panic" => \/ ~ Shown.tables \subseteq known.tables
                          \/ ~ Shown.users \subseteq known.users
===============================================================================
