------------------------------ MODULE PageProofs ------------------------------
(***************************************************************************)
(* Proofs about the two ends of a listing: Filters, how a query string     *)
(* becomes SQL, and Names, how the rows that come back are given names.    *)
(***************************************************************************)
EXTENDS Filters, Names, Lemmas, SequenceTheorems

-------------------------------------------------------------------------------
(* The fields that are left after mapping.                                 *)

\* f gives, for the first positions of fields, the fields that are kept.
Keeps(f, fields) ==
  f = [s \in SUBSET DOMAIN fields |->
         IF s = {} THEN <<>>
         ELSE IF fields[Max(s)] # Missing THEN Append(f[s \ {Max(s)}], fields[Max(s)])
         ELSE f[s \ {Max(s)}]]

LEMMA FilteredUnfolded ==
  ASSUME NEW fields
  PROVE  Filtered(fields) = (CHOOSE f : Keeps(f, fields))[DOMAIN fields]
BY DEF Filtered, FoldLeft, MapThenFoldSet, Keeps

LEMMA KeepsExist ==
  ASSUME NEW A, NEW fields \in Seq(A)
  PROVE  \E f : Keeps(f, fields)
<1>. DEFINE n == Len(fields)
            V == Seq(A)
            step == [i \in 1..n |-> [kept \in V |->
                       IF fields[i] # Missing THEN Append(kept, fields[i]) ELSE kept]]
            none == <<>>
<1>1. n \in Nat /\ DOMAIN fields = 1..n /\ none \in V
  OBVIOUS
<1>2. step \in [1..n -> [V -> V]]
  OBVIOUS
<1>3. PICK f \in [SUBSET (1..n) -> V] : GoesThrough(f, n, none, step)
  <2>. HIDE DEF n, V, step, none
  <2>. QED BY <1>1, <1>2, RecursionOnPositions
<1>4. \A s \in SUBSET (1..n) : s # {} => Max(s) \in s
  <2>. HIDE DEF n, V, step, none
  <2>. QED BY <1>1, <1>2, RecursionOnPositions
<1>5. ASSUME NEW s \in SUBSET (1..n), s # {}
      PROVE  f[s] = IF fields[Max(s)] # Missing THEN Append(f[s \ {Max(s)}], fields[Max(s)])
                    ELSE f[s \ {Max(s)}]
  <2>1. Max(s) \in 1..n /\ f[s \ {Max(s)}] \in Seq(A)
    BY <1>4, <1>5
  <2>. QED BY <1>3, <1>5, <2>1 DEF GoesThrough
<1>6. f[{}] = <<>>
  BY <1>3 DEF GoesThrough
<1>. DEFINE h == [s \in SUBSET DOMAIN fields |->
                    IF s = {} THEN <<>>
                    ELSE IF fields[Max(s)] # Missing THEN Append(f[s \ {Max(s)}], fields[Max(s)])
                    ELSE f[s \ {Max(s)}]]
<1>7. \A s \in SUBSET (1..n) : h[s] = f[s]
  BY <1>1, <1>5, <1>6
<1>8. f = h
  <2>1. DOMAIN h = SUBSET (1..n) /\ h = [s \in SUBSET (1..n) |-> h[s]]
    BY <1>1
  <2>2. f = [s \in SUBSET (1..n) |-> f[s]]
    BY <1>3
  <2>. HIDE DEF h, n, V
  <2>. QED BY <2>1, <2>2, <1>7
<1>. QED BY <1>8 DEF Keeps

\* Fields are kept as they are, or fewer are left.
LEMMA FilteredIs ==
  ASSUME NEW A, NEW fields \in Seq(A)
  PROVE  /\ Filtered(fields) \in Seq(A)
         /\ (\A i \in DOMAIN fields : fields[i] # Missing) => Filtered(fields) = fields
         /\ (\E i \in DOMAIN fields : fields[i] = Missing) => Len(Filtered(fields)) < Len(fields)
<1>. DEFINE n == Len(fields)
            f == CHOOSE g : Keeps(g, fields)
<1>1. n \in Nat /\ DOMAIN fields = 1..n /\ \A i \in 1..n : fields[i] \in A
  OBVIOUS
<1>2. Keeps(f, fields) /\ Filtered(fields) = f[1..n]
  BY <1>1, KeepsExist, FilteredUnfolded
<1>. HIDE DEF f
<1>3. f[1..0] = <<>>
  BY <1>1, <1>2 DEF Keeps
<1>4. ASSUME NEW k \in Nat, k < n
      PROVE  f[1..(k + 1)] = IF fields[k + 1] # Missing THEN Append(f[1..k], fields[k + 1])
                             ELSE f[1..k]
  <2>1. 1..(k + 1) \in SUBSET DOMAIN fields
    BY <1>1, <1>4
  <2>2. Max(1..(k + 1)) = k + 1 /\ (1..(k + 1)) \ {k + 1} = 1..k /\ 1..(k + 1) # {}
    BY LastPosition
  <2>3. \A s \in SUBSET DOMAIN fields : s # {} =>
          f[s] = IF fields[Max(s)] # Missing THEN Append(f[s \ {Max(s)}], fields[Max(s)])
                 ELSE f[s \ {Max(s)}]
    <3>1. Keeps(f, fields)
      BY <1>2
    <3>. QED BY ONLY <3>1 DEF Keeps
  <2>4. f[1..(k + 1)] = IF fields[Max(1..(k + 1))] # Missing
                        THEN Append(f[(1..(k + 1)) \ {Max(1..(k + 1))}], fields[Max(1..(k + 1))])
                        ELSE f[(1..(k + 1)) \ {Max(1..(k + 1))}]
    <3>1. 1..(k + 1) # {}
      BY <2>2
    <3>. QED BY ONLY <2>1, <2>3, <3>1
  <2>. QED BY <2>2, <2>4
<1>. DEFINE F == {k \in Nat : k <= n =>
                    /\ f[1..k] \in Seq(A) /\ Len(f[1..k]) <= k
                    /\ (\A i \in 1..k : fields[i] # Missing) =>
                         Len(f[1..k]) = k /\ \A i \in 1..k : f[1..k][i] = fields[i]
                    /\ (\E i \in 1..k : fields[i] = Missing) => Len(f[1..k]) < k}
<1>5. 0 \in F
  <2>. DEFINE u == f[1..0]
  <2>1. u \in Seq(A) /\ Len(u) = 0
    BY <1>3
  <2>. HIDE DEF u
  <2>. QED BY <2>1 DEF u
<1>6. ASSUME NEW k \in Nat, k \in F PROVE k + 1 \in F
  <2>. SUFFICES ASSUME k + 1 <= n PROVE k + 1 \in F
    OBVIOUS
  <2>. DEFINE u == f[1..k]
              v == f[1..(k + 1)]
  <2>1. /\ u \in Seq(A) /\ Len(u) <= k
        /\ (\A i \in 1..k : fields[i] # Missing) =>
             Len(u) = k /\ \A i \in 1..k : u[i] = fields[i]
        /\ (\E i \in 1..k : fields[i] = Missing) => Len(u) < k
    BY <1>6
  <2>2. v = IF fields[k + 1] # Missing THEN Append(u, fields[k + 1]) ELSE u
    BY <1>4
  <2>3. fields[k + 1] \in A
    BY <1>1
  <2>. HIDE DEF u, v
  <2>4. v \in Seq(A) /\ Len(v) <= k + 1
    BY <2>1, <2>2, <2>3
  <2>5. ASSUME \A i \in 1..(k + 1) : fields[i] # Missing
        PROVE  Len(v) = k + 1 /\ \A i \in 1..(k + 1) : v[i] = fields[i]
    BY <2>1, <2>2, <2>3, <2>5
  <2>6. ASSUME \E i \in 1..(k + 1) : fields[i] = Missing PROVE Len(v) < k + 1
    BY <2>1, <2>2, <2>3, <2>6
  <2>. QED BY <2>4, <2>5, <2>6 DEF u, v
<1>7. n \in F
  <2>. HIDE DEF F
  <2>. QED BY <1>1, <1>5, <1>6, NatSetInduction
<1>8. /\ f[1..n] \in Seq(A)
      /\ (\A i \in 1..n : fields[i] # Missing) => Len(f[1..n]) = n /\ \A i \in 1..n : f[1..n][i] = fields[i]
      /\ (\E i \in 1..n : fields[i] = Missing) => Len(f[1..n]) < n
  BY <1>1, <1>7
<1>. QED BY <1>1, <1>2, <1>8
-------------------------------------------------------------------------------
(* The queries.                                                            *)

Columns == {"t.id", "t.order_status", "t.order_for"}

LEMMA MissingIsNoColumn == Missing \notin Columns
BY Zenon DEF Missing, Columns

LEMMA MappedIs ==
  ASSUME NEW fields \in Seq(STRING)
  PROVE  /\ Mapped(fields) \in Seq(Columns \cup {Missing}) /\ Len(Mapped(fields)) = Len(fields)
         /\ \A i \in DOMAIN fields :
              IF fields[i] \in DOMAIN mappingFields
              THEN Mapped(fields)[i] = mappingFields[fields[i]] /\ Mapped(fields)[i] # Missing
              ELSE Mapped(fields)[i] = Missing
<1>1. \A field \in DOMAIN mappingFields : mappingFields[field] \in Columns
  BY DEF mappingFields, Columns
<1>. QED BY <1>1, MissingIsNoColumn DEF Mapped

LEMMA TypedColumns == DOMAIN mappingFieldType = Columns
BY DEF mappingFieldType, Columns

\* The values that are compared with the fields, by position, and the conditions
\* that compare them.
Used(fields, values) ==
  {i \in DOMAIN Filtered(fields) :
     Len(Filtered(fields)) = Len(values) /\ Usable(Filtered(fields)[i], values[i])}

Condition(fields, i) ==
  [column |-> Filtered(fields)[i], op |-> Operator(Filtered(fields)[i]), arg |-> <<"searchValue", i>>]

IsQuery(q) ==
  q = [conditions |-> q.conditions, wheres |-> q.wheres, args |-> q.args, order |-> q.order,
       limited |-> q.limited, alias |-> q.alias]

\* q is base with the conditions for fields and values: nothing else is compared,
\* and everything compared has its argument.
Describes(q, base, fields, values) ==
  /\ q.conditions = base.conditions \cup {Condition(fields, i) : i \in Used(fields, values)}
  /\ \A a \in DOMAIN base.args : a \in DOMAIN q.args /\ q.args[a] = base.args[a]
  /\ \A i \in Used(fields, values) :
       <<"searchValue", i>> \in DOMAIN q.args /\ q.args[<<"searchValue", i>>] = values[i]
  /\ q.wheres = base.wheres \/ (q.wheres = 1 /\ base.wheres = 0)
  /\ Used(fields, values) # {} => q.wheres # 0
  /\ q.alias = base.alias

\* The names of the arguments that a query has before it is filtered.
BaseArgs == {<<"user_id", 0>>, <<"start_date", 0>>, <<"end_date", 0>>}

LEMMA BaseArgsAre ==
  \A a \in BaseArgs : a[1] # "searchValue" /\ a[1] # "size" /\ a[1] # "offset"
BY DEF BaseArgs

LEMMA WhereDescribes ==
  ASSUME NEW fields, NEW values, NEW base, IsQuery(base), DOMAIN base.args \subseteq BaseArgs,
         Filtered(fields) \in Seq(Columns \cup {Missing})
  PROVE  /\ IsQuery(Where(fields, values, base))
         /\ Describes(Where(fields, values, base), base, fields, values)
         /\ Where(fields, values, base).limited = base.limited
         /\ Where(fields, values, base).order = base.order
         /\ \A a \in DOMAIN Where(fields, values, base).args :
              a[1] # "size" /\ a[1] # "offset"
<1>. DEFINE columns == Filtered(fields)
            q == Where(fields, values, base)
<1>1. CASE columns # <<>> /\ Len(columns) = Len(values)
  <2>. DEFINE one == OneWhere(base)
              names == {<<"searchValue", i>> : i \in Used(fields, values)}
  <2>1. Used(fields, values) = {i \in DOMAIN columns : Usable(columns[i], values[i])}
    BY <1>1 DEF Used
  <2>2. q = Compared(columns, values, Used(fields, values), base)
    BY <1>1, <2>1 DEF Where
  <2>3. /\ IsQuery(one) /\ one.conditions = base.conditions /\ one.args = base.args
        /\ one.limited = base.limited /\ one.alias = base.alias /\ one.order = base.order
        /\ one.wheres = IF base.wheres = 0 THEN 1 ELSE base.wheres
    BY DEF OneWhere, IsQuery
  <2>4. /\ IsQuery(q) /\ q.wheres = one.wheres /\ q.limited = one.limited /\ q.alias = one.alias
        /\ q.order = one.order
        /\ q.conditions = one.conditions \cup {Condition(fields, i) : i \in Used(fields, values)}
        /\ q.args = [a \in DOMAIN one.args \cup names |->
                       IF a[1] = "searchValue" THEN values[a[2]] ELSE one.args[a]]
    BY <2>2, <2>3 DEF Compared, IsQuery, Condition
  <2>. HIDE DEF q, one
  <2>5. /\ DOMAIN q.args = DOMAIN base.args \cup names
        /\ \A a \in DOMAIN q.args :
             q.args[a] = IF a[1] = "searchValue" THEN values[a[2]] ELSE one.args[a]
    BY <2>3, <2>4
  <2>6. \A a \in DOMAIN base.args : a \in DOMAIN q.args /\ q.args[a] = base.args[a]
    BY <2>3, <2>5, BaseArgsAre
  <2>7. \A i \in Used(fields, values) :
          <<"searchValue", i>> \in DOMAIN q.args /\ q.args[<<"searchValue", i>>] = values[i]
    BY <2>5
  <2>8. \A a \in DOMAIN q.args : a[1] # "size" /\ a[1] # "offset"
    BY <2>5, BaseArgsAre
  <2>9. q.wheres = base.wheres \/ (q.wheres = 1 /\ base.wheres = 0)
    BY <2>3, <2>4
  <2>10. q.wheres # 0
    BY <2>3, <2>4
  <2>. HIDE DEF names
  <2>. QED BY <2>3, <2>4, <2>6, <2>7, <2>8, <2>9, <2>10 DEF Describes, q
<1>2. CASE ~ (columns # <<>> /\ Len(columns) = Len(values))
  <2>1. q = base
    BY <1>2 DEF Where
  <2>2. Used(fields, values) = {}
    BY <1>2 DEF Used
  <2>. HIDE DEF q
  <2>. QED BY <2>1, <2>2, BaseArgsAre DEF Describes, q
<1>. QED BY <1>1, <1>2

\* The loop of the count does the same as that of the page.
LEMMA CountWhereDescribes ==
  ASSUME NEW fields, NEW values, NEW base, IsQuery(base), DOMAIN base.args \subseteq BaseArgs,
         Filtered(fields) \in Seq(Columns \cup {Missing})
  PROVE  /\ Describes(CountWhere(fields, values, base), base, fields, values)
         /\ CountWhere(fields, values, base).limited = base.limited
         /\ CountWhere(fields, values, base).order = base.order
<1>1. CountWhere(fields, values, base) = Where(fields, values, base)
  BY Zenon DEF CountWhere, Where
<1>. QED BY <1>1, WhereDescribes

\* The order that a sort becomes.
OrderOf(sort) == IF sort[1] # Missing /\ sort[2] # Missing THEN sort ELSE <<>>

LEMMA LimitedDescribes ==
  ASSUME NEW sort, NEW fields, NEW values, NEW base, DOMAIN base.args \subseteq BaseArgs,
         NEW q, IsQuery(q), Describes(q, base, fields, values), q.limited = FALSE, q.order = <<>>,
         \A a \in DOMAIN q.args : a[1] # "size" /\ a[1] # "offset"
  PROVE  /\ Describes(Limited(Ordered(sort, q)), base, fields, values)
         /\ Limited(Ordered(sort, q)).order = OrderOf(sort)
         /\ Limited(Ordered(sort, q)).limited =>
              {<<"size", 0>>, <<"offset", 0>>} \subseteq DOMAIN Limited(Ordered(sort, q)).args
<1>. DEFINE o == Ordered(sort, q)
            r == Limited(o)
<1>1. /\ IsQuery(o) /\ o.conditions = q.conditions /\ o.args = q.args /\ o.limited = q.limited
      /\ o.alias = q.alias /\ o.wheres = q.wheres /\ o.order = OrderOf(sort)
  BY DEF Ordered, OrderOf, IsQuery
<1>. HIDE DEF o
<1>2. CASE r = o
  <2>1. Describes(o, base, fields, values) /\ o.limited = FALSE
    BY <1>1 DEF Describes
  <2>. HIDE DEF r
  <2>. QED BY <1>1, <1>2, <2>1 DEF r, o
<1>3. CASE r # o
  <2>1. r = [o EXCEPT !.limited = TRUE,
                     !.args = [a \in DOMAIN @ \cup {<<"size", 0>>, <<"offset", 0>>} |->
                                 CASE a[1] = "size"   -> params.size
                                   [] a[1] = "offset" -> (params.page - 1) * params.size
                                   [] OTHER -> @[a]]]
    BY <1>3 DEF Limited
  <2>2. /\ r.conditions = o.conditions /\ r.alias = o.alias /\ r.wheres = o.wheres
        /\ r.order = o.order
        /\ DOMAIN r.args = DOMAIN o.args \cup {<<"size", 0>>, <<"offset", 0>>}
        /\ \A a \in DOMAIN o.args : r.args[a] = o.args[a]
    BY <1>1, <2>1 DEF IsQuery
  <2>. HIDE DEF r
  <2>. QED BY <1>1, <2>2 DEF Describes, r, o
<1>. QED BY <1>2, <1>3

LEMMA RecordIsQuery ==
  ASSUME NEW conditions, NEW wheres, NEW args, NEW order, NEW limited, NEW alias,
         NEW q, q = [conditions |-> conditions, wheres |-> wheres, args |-> args,
                     order |-> order, limited |-> limited, alias |-> alias]
  PROVE  /\ IsQuery(q) /\ q.conditions = conditions /\ q.wheres = wheres /\ q.args = args
         /\ q.order = order /\ q.limited = limited /\ q.alias = alias
BY DEF IsQuery

\* The queries that the texts of the two listings begin with.
LEMMA TextsAre ==
  /\ OfUser = [conditions |-> {[column |-> "user_id", op |-> "=", arg |-> <<"user_id", 0>>]},
               wheres |-> 1, args |-> [a \in {<<"user_id", 0>>} |-> "user"], order |-> <<>>,
               limited |-> FALSE, alias |-> TRUE]
  /\ InRange = [conditions |-> Between, wheres |-> 1, args |-> RangeArgs(Named), order |-> <<>>,
                limited |-> FALSE, alias |-> TRUE]
  /\ Unrestricted = [conditions |-> {}, wheres |-> 0, args |-> RangeArgs(Named), order |-> <<>>,
                     limited |-> FALSE, alias |-> TRUE]
<1>1. IsQuery(NoQuery)
  BY RecordIsQuery DEF NoQuery
<1>2. /\ NoQuery.conditions = {} /\ NoQuery.wheres = 0 /\ NoQuery.order = <<>>
      /\ NoQuery.limited = FALSE /\ NoQuery.alias = TRUE
  BY RecordIsQuery DEF NoQuery
<1>3. /\ OfUser = [NoQuery EXCEPT
                      !.conditions = {[column |-> "user_id", op |-> "=", arg |-> <<"user_id", 0>>]},
                      !.wheres = 1, !.args = [a \in {<<"user_id", 0>>} |-> "user"]]
      /\ InRange = [NoQuery EXCEPT !.conditions = Between, !.wheres = 1, !.args = RangeArgs(Named)]
      /\ Unrestricted = [NoQuery EXCEPT !.args = RangeArgs(Named)]
  BY Zenon DEF OfUser, InRange, Unrestricted
<1>4. /\ InRange = [conditions |-> Between, wheres |-> 1, args |-> RangeArgs(Named),
                    order |-> NoQuery.order, limited |-> NoQuery.limited, alias |-> NoQuery.alias]
      /\ Unrestricted = [conditions |-> NoQuery.conditions, wheres |-> NoQuery.wheres,
                         args |-> RangeArgs(Named), order |-> NoQuery.order,
                         limited |-> NoQuery.limited, alias |-> NoQuery.alias]
  BY <1>1, <1>3 DEF IsQuery
<1>5. OfUser = [conditions |-> {[column |-> "user_id", op |-> "=", arg |-> <<"user_id", 0>>]},
                wheres |-> 1, args |-> [a \in {<<"user_id", 0>>} |-> "user"],
                order |-> NoQuery.order, limited |-> NoQuery.limited, alias |-> NoQuery.alias]
  BY <1>1, <1>3 DEF IsQuery
<1>. QED BY <1>2, <1>4, <1>5

\* The conditions of the user and of the range, which are there before the filter.
LEMMA BaseIs ==
  /\ IsQuery(Base) /\ DOMAIN Base.args \subseteq BaseArgs
  /\ Base.limited = FALSE /\ Base.alias = TRUE /\ Base.order = <<>>
  /\ Base.wheres = IF Base.conditions = {} THEN 0 ELSE 1
  /\ \A c \in Base.conditions : c.arg \in DOMAIN Base.args /\ c.column \notin Columns
  /\ IF request.kind = "staff" /\ HasRange
     THEN /\ Base.conditions = Between
          /\ Base.args[<<"start_date", 0>>] = Named.startDate
          /\ Base.args[<<"end_date", 0>>] = Named.endDate
     ELSE \A c \in Base.conditions : c.column # "t.created_at"
<1>2. CASE request.kind = "history"
  <2>1. /\ IsQuery(OfUser) /\ OfUser.limited = FALSE /\ OfUser.alias = TRUE /\ OfUser.wheres = 1
        /\ OfUser.order = <<>>
        /\ OfUser.conditions = {[column |-> "user_id", op |-> "=", arg |-> <<"user_id", 0>>]}
        /\ DOMAIN OfUser.args = {<<"user_id", 0>>}
    BY TextsAre, RecordIsQuery
  <2>2. Base = OfUser
    BY <1>2 DEF Base
  <2>3. DOMAIN OfUser.args \subseteq BaseArgs /\ OfUser.conditions # {}
    BY <2>1 DEF BaseArgs
  <2>4. \A c \in OfUser.conditions : c.column = "user_id" /\ c.arg = <<"user_id", 0>>
    BY <2>1
  <2>5. "user_id" \notin Columns
    BY DEF Columns
  <2>. QED BY <1>2, <2>1, <2>2, <2>3, <2>4, <2>5
<1>3. CASE request.kind # "history"
  <2>1. /\ DOMAIN RangeArgs(Named) = {<<"start_date", 0>>, <<"end_date", 0>>}
        /\ RangeArgs(Named)[<<"start_date", 0>>] = Named.startDate
        /\ RangeArgs(Named)[<<"end_date", 0>>] = Named.endDate
    BY DEF RangeArgs
  <2>2. /\ Between # {}
        /\ \A c \in Between : c.arg \in DOMAIN RangeArgs(Named) /\ c.column \notin Columns
    BY <2>1 DEF Between, Columns
  <2>3. CASE request.kind = "staff" /\ HasRange
    <3>1. Base = InRange
      BY <2>3 DEF Base
    <3>2. /\ IsQuery(InRange) /\ InRange.limited = FALSE /\ InRange.alias = TRUE
          /\ InRange.order = <<>> /\ InRange.wheres = 1
          /\ InRange.args = RangeArgs(Named) /\ InRange.conditions = Between
      BY TextsAre, RecordIsQuery
    <3>. QED BY <2>1, <2>2, <2>3, <3>1, <3>2 DEF BaseArgs
  <2>4. CASE ~ (request.kind = "staff" /\ HasRange)
    <3>1. Base = Unrestricted
      BY <1>3, <2>4 DEF Base
    <3>2. /\ IsQuery(Unrestricted) /\ Unrestricted.limited = FALSE /\ Unrestricted.alias = TRUE
          /\ Unrestricted.order = <<>> /\ Unrestricted.wheres = 0
          /\ Unrestricted.args = RangeArgs(Named) /\ Unrestricted.conditions = {}
      BY TextsAre, RecordIsQuery
    <3>. QED BY <2>1, <2>4, <3>1, <3>2 DEF BaseArgs
  <2>. QED BY <2>3, <2>4
<1>. QED BY <1>2, <1>3

\* The count, whose text is its own, begins with the same conditions and arguments.
LEMMA CountBaseIs ==
  /\ IsQuery(CountBase) /\ CountBase.conditions = Base.conditions /\ CountBase.args = Base.args
  /\ CountBase.wheres = Base.wheres /\ CountBase.limited = FALSE /\ CountBase.order = <<>>
  /\ CountBase.alias = (request.kind # "history")
<1>1. CASE request.kind = "history"
  <2>1. IsQuery(OfUser) /\ OfUser.limited = FALSE /\ OfUser.order = <<>>
    BY TextsAre, RecordIsQuery
  <2>2. Base = OfUser /\ CountBase = [OfUser EXCEPT !.alias = FALSE]
    BY <1>1 DEF Base, CountBase
  <2>. QED BY <1>1, <2>1, <2>2 DEF IsQuery
<1>2. CASE request.kind # "history"
  <2>1. CountBase = Base
    BY <1>2 DEF Base, CountBase
  <2>. QED BY <1>2, <2>1, BaseIs
<1>. QED BY <1>1, <1>2

\* What the conditions of a query compare, those of the base first.
LEMMA ArgsOf ==
  ASSUME NEW q, NEW base, NEW fields, NEW values, Describes(q, base, fields, values),
         \A c \in base.conditions : c.arg \in DOMAIN base.args /\ c.column \notin Columns
  PROVE  /\ \A c \in base.conditions : c.arg \in DOMAIN q.args /\ ArgOf(q, c) = base.args[c.arg]
         /\ \A i \in Used(fields, values) :
              /\ Condition(fields, i).arg \in DOMAIN q.args
              /\ Condition(fields, i).column = Filtered(fields)[i]
              /\ Condition(fields, i).column \in Columns
              /\ ArgOf(q, Condition(fields, i)) = values[i]
         /\ OnColumns(q) = {Condition(fields, i) : i \in Used(fields, values)}
<1>1. \A c \in base.conditions : c.arg \in DOMAIN q.args /\ ArgOf(q, c) = base.args[c.arg]
  BY DEF Describes, ArgOf
<1>2. ASSUME NEW i \in Used(fields, values)
      PROVE  /\ Condition(fields, i).arg = <<"searchValue", i>>
             /\ Condition(fields, i).column = Filtered(fields)[i]
             /\ Condition(fields, i).column \in Columns
  BY TypedColumns DEF Used, Usable, Condition
<1>3. \A i \in Used(fields, values) : /\ Condition(fields, i).arg \in DOMAIN q.args
                                      /\ ArgOf(q, Condition(fields, i)) = values[i]
  BY <1>2 DEF Describes, ArgOf
<1>4. OnColumns(q) = {Condition(fields, i) : i \in Used(fields, values)}
  BY <1>2, TypedColumns DEF OnColumns, Describes
<1>. QED BY <1>1, <1>2, <1>3, <1>4

-------------------------------------------------------------------------------
(* What Postgres makes of a query.                                         *)

LEMMA SortIs ==
  ASSUME request \in Parameters, request.kind # "report"
  PROVE  (OrderOf(SortOf(request.sort)) = <<>> \/ OrderOf(SortOf(request.sort)) \in Sorts)
           <=> ~ SortRefused
<1>. DEFINE sort == SortOf(request.sort)
<1>1. \E S : sort \in Seq(S) /\ Len(sort) = 2
  <2>1. request.sort \in Seq(Seq(STRING))
    BY DEF Parameters, Optional
  <2>2. request.sort # <<>> => request.sort[1] \in Seq(STRING)
    BY <2>1
  <2>3. ASSUME NEW a, NEW b PROVE <<a, b>> \in Seq({a, b}) /\ Len(<<a, b>>) = 2
    OBVIOUS
  <2>4. CASE request.sort = <<>>
    BY <2>3, <2>4 DEF SortOf
  <2>5. CASE request.sort # <<>> /\ Len(request.sort[1]) = 2
    BY <2>2, <2>5 DEF SortOf
  <2>6. CASE request.sort # <<>> /\ Len(request.sort[1]) # 2
    BY <2>3, <2>6 DEF SortOf
  <2>. QED BY <2>4, <2>5, <2>6
<1>2. Range(sort) = {sort[1], sort[2]} /\ sort # <<>>
  BY <1>1 DEF Range
<1>. HIDE DEF sort
<1>. QED BY <1>2 DEF OrderOf, SortRefused, sort

LEMMA QueryIsExecutable ==
  ASSUME NEW q, NEW base, NEW fields, NEW values, Describes(q, base, fields, values),
         base.conditions = Base.conditions, base.args = Base.args, base.wheres = Base.wheres,
         q.limited => {<<"size", 0>>, <<"offset", 0>>} \subseteq DOMAIN q.args
  PROVE  /\ Executable(q) <=> /\ OnColumns(q) # {} => q.alias
                              /\ q.order = <<>> \/ q.order \in Sorts
         /\ OnColumns(q) = {Condition(fields, i) : i \in Used(fields, values)}
<1>0. /\ \A c \in base.conditions : c.arg \in DOMAIN base.args /\ c.column \notin Columns
      /\ base.wheres = IF base.conditions = {} THEN 0 ELSE 1
  BY BaseIs
<1>1. /\ \A c \in base.conditions : c.arg \in DOMAIN q.args
      /\ \A i \in Used(fields, values) : Condition(fields, i).arg \in DOMAIN q.args
      /\ OnColumns(q) = {Condition(fields, i) : i \in Used(fields, values)}
  BY <1>0, ArgsOf
<1>2. /\ q.conditions = base.conditions \cup {Condition(fields, i) : i \in Used(fields, values)}
      /\ q.wheres = base.wheres \/ (q.wheres = 1 /\ base.wheres = 0)
      /\ Used(fields, values) # {} => q.wheres # 0
  BY DEF Describes
<1>3. \A c \in q.conditions : c.arg \in DOMAIN q.args
  BY <1>1, <1>2
<1>4. q.wheres \in IF q.conditions = {} THEN {0, 1} ELSE {1}
  BY <1>0, <1>2
<1>. QED BY <1>1, <1>3, <1>4 DEF Executable

\* The report is always executed.
LEMMA ReportIsExecutable ==
  ASSUME NEW q, q = [NoQuery EXCEPT !.conditions = Between, !.wheres = 1, !.args = RangeArgs(dates)]
  PROVE  Executable(q)
<1>1. /\ q.conditions = Between /\ q.args = RangeArgs(dates) /\ q.wheres = 1
      /\ q.limited = FALSE /\ q.alias = TRUE /\ q.order = <<>>
  BY DEF NoQuery
<1>2. Between # {} /\ \A c \in Between : c.arg \in DOMAIN RangeArgs(dates)
  BY DEF Between, RangeArgs
<1>. QED BY <1>1, <1>2 DEF Executable

-------------------------------------------------------------------------------
(* What a request has become at each step.                                 *)

Fields == IF pc \in {"dates", "map"} THEN request.searchKey ELSE Mapped(request.searchKey)

\* The query for the page, and the query for its count, as they were sent.
ListBuilt ==
  /\ Describes(list, Base, params.fields, params.values)
  /\ list.limited => {<<"size", 0>>, <<"offset", 0>>} \subseteq DOMAIN list.args
  /\ list.order = OrderOf(SortOf(request.sort))

CountBuilt ==
  /\ Describes(count, CountBase, params.fields, params.values)
  /\ count.limited = FALSE /\ count.order = <<>>

ParamsInv ==
  /\ pc \in {"dates", "map", "filter", "count", "done", "serverError"} /\ request.kind # "report" =>
       /\ {"fields", "values", "sort"} \subseteq DOMAIN params
       /\ params.fields = Fields /\ params.values = request.searchValue
       /\ params.sort = SortOf(request.sort)
  /\ \/ pc = "report"
     \/ pc \in {"map", "filter"} /\ request.kind = "staff" /\ HasRange
     \/ Sent /\ request.kind = "report"
     \/ Sent /\ request.kind = "staff" /\ HasRange
     => dates \in QueryParser /\ InOrder(dates)

QueriesInv ==
  /\ ~ Sent => count = NoQuery
  /\ pc = "count" => count = NoQuery /\ Executable(list)
  /\ Sent /\ request.kind = "report" =>
       /\ pc = "done" /\ count = NoQuery
       /\ list = [NoQuery EXCEPT !.conditions = Between, !.wheres = 1, !.args = RangeArgs(dates)]
  /\ Sent /\ request.kind # "report" => ListBuilt
  /\ pc = "done" /\ request.kind # "report" =>
       /\ Executable(list)
       /\ (count = NoQuery /\ request.kind = "staff") \/ (CountBuilt /\ Executable(count))
  /\ pc = "serverError" =>
       \/ count = NoQuery /\ ~ Executable(list)
       \/ CountBuilt /\ ~ Executable(count)

FInv ==
  /\ request \in Parameters
  /\ pc \in {"parse", "dates", "map", "filter", "count", "report", "done", "badRequest", "serverError"}
  /\ pc = "report" => request.kind = "report"
  /\ pc \in {"parse", "map", "filter", "count"} => request.kind # "report"
  /\ ParamsInv /\ QueriesInv

LEMMA InitPage == Init => FInv
<1>. SUFFICES ASSUME Init PROVE FInv
  OBVIOUS
<1>1. request \in Parameters
  BY FiltersAssumption DEF Init
<1>. QED BY <1>1 DEF Init, FInv, ParamsInv, QueriesInv, Sent, Parameters

\* With one spelling of each date, both readings are the same.
LEMMA OneSpelling ==
  ASSUME request \in Parameters, HasRange, request.otherStartDate \o request.otherEndDate = <<>>,
         NEW range \in QueryParser
  PROVE  range = Named
<1>. DEFINE start == request.startDate
            end == request.endDate
<1>1. start \in Seq(STRING) /\ end \in Seq(STRING) /\ Len(start) <= 1 /\ Len(end) <= 1
  BY DEF Parameters, Optional
<1>2. request.otherStartDate = <<>> /\ request.otherEndDate = <<>>
  <2>1. request.otherStartDate \in Seq(STRING) /\ request.otherEndDate \in Seq(STRING)
    BY DEF Parameters, Optional
  <2>. QED BY <2>1
<1>3. start # <<>> /\ end # <<>>
  BY DEF HasRange, Named, ByName
<1>4. Len(start) = 1 /\ Len(end) = 1
  <2>1. \A s \in Seq(STRING) : s # <<>> => Len(s) \in Nat \ {0}
    BY Zenon, EmptySeq
  <2>2. Len(start) \in Nat \ {0} /\ Len(end) \in Nat \ {0}
    BY Zenon, <1>1, <1>3, <2>1
  <2>3. \A n \in Nat \ {0} : n <= 1 => n = 1
    OBVIOUS
  <2>. QED BY Zenon, <1>1, <2>2, <2>3
<1>5. start \o request.otherStartDate = start /\ end \o request.otherEndDate = end
  BY <1>1, <1>2, ConcatEmptySeq
<1>6. Range(start) = {start[1]} /\ Range(end) = {end[1]}
  BY <1>1, <1>4 DEF Range
<1>7. /\ InAnySpelling(start, request.otherStartDate) = {Named.startDate}
      /\ InAnySpelling(end, request.otherEndDate) = {Named.endDate}
  BY <1>3, <1>5, <1>6 DEF InAnySpelling, Named, ByName
<1>8. range \in [startDate : {Named.startDate}, endDate : {Named.endDate}]
  BY <1>7 DEF QueryParser
<1>9. Named = [startDate |-> Named.startDate, endDate |-> Named.endDate]
  BY DEF Named
<1>. QED BY <1>8, <1>9

\* Everything that is read of the request stays as it is.
LEMMA RequestKept ==
  ASSUME request' = request
  PROVE  /\ HasRange' = HasRange /\ Named' = Named /\ QueryParser' = QueryParser
         /\ Base' = Base /\ CountBase' = CountBase
<1>1. Named' = Named
  BY DEF Named
<1>2. QueryParser' = QueryParser
  BY DEF QueryParser
<1>3. HasRange' = HasRange /\ InRange' = InRange /\ Unrestricted' = Unrestricted
  BY <1>1 DEF HasRange, InRange, Unrestricted
<1>4. Base' = Base
  BY <1>3 DEF Base
<1>5. CountBase' = CountBase
  BY <1>3 DEF CountBase
<1>. QED BY <1>1, <1>2, <1>3, <1>4, <1>5

LEMMA NextPage == FInv /\ [Next]_vars => FInv'
<1>. SUFFICES ASSUME FInv, [Next]_vars PROVE FInv'
  OBVIOUS
<1>0. request' = request
  BY DEF Next, vars, ParseQueryParams, ParseFails, SkipDates, ValidateDates, DatesRefused, Report,
         BuildMappingField, BuildFilterQuery, BuildCountQuery, Terminating
<1>1. CASE UNCHANGED vars
  BY <1>1, RequestKept
     DEF vars, FInv, ParamsInv, QueriesInv, ListBuilt, CountBuilt, Sent, Fields, Describes,
         Executable, OnColumns, InOrder, RangeArgs
<1>2. CASE ParseQueryParams
  <2>1. /\ pc = "parse" /\ pc' = IF request.kind = "staff" THEN "dates" ELSE "map"
        /\ UNCHANGED <<request, dates, list, count>>
    BY <1>2 DEF ParseQueryParams
  <2>2. /\ {"fields", "values", "sort"} \subseteq DOMAIN params'
        /\ params'.fields = request.searchKey /\ params'.values = request.searchValue
        /\ params'.sort = SortOf(request.sort)
    BY <1>2 DEF ParseQueryParams
  <2>3. request.kind # "report" /\ (request.kind # "staff" => request.kind = "history")
    BY <2>1 DEF FInv, Parameters
  <2>4. Fields' = request.searchKey
    BY <2>1 DEF Fields
  <2>. QED BY <2>1, <2>2, <2>3, <2>4 DEF FInv, ParamsInv, QueriesInv, Sent
<1>3. CASE ParseFails \/ DatesRefused
  <2>1. pc' = "badRequest" /\ ~ Sent /\ UNCHANGED <<request, list, count>>
    BY <1>3 DEF ParseFails, DatesRefused, Sent
  <2>. QED BY <2>1 DEF FInv, ParamsInv, QueriesInv, Sent
<1>4. CASE ValidateDates \/ SkipDates
  <2>1. /\ pc = "dates" /\ pc' = IF request.kind = "report" THEN "report" ELSE "map"
        /\ UNCHANGED <<request, params, list, count>>
        /\ request.kind = "report" \/ HasRange => dates' \in QueryParser /\ InOrder(dates')
    BY <1>4 DEF ValidateDates, SkipDates, AfterDates
  <2>2. request.kind # "report" => Fields' = Fields
    BY <2>1 DEF Fields
  <2>3. dates' \in QueryParser /\ InOrder(dates') <=> (dates \in QueryParser /\ InOrder(dates))'
    BY <1>0, RequestKept DEF InOrder
  <2>. QED BY <1>0, <2>1, <2>2, <2>3, RequestKept DEF FInv, ParamsInv, QueriesInv, Sent
<1>5. CASE Report
  <2>1. /\ pc = "report" /\ UNCHANGED <<request, params, dates, count>>
        /\ list' = [NoQuery EXCEPT !.conditions = Between, !.wheres = 1, !.args = RangeArgs(dates)]
        /\ Query(list', "done")
    BY <1>5 DEF Report
  <2>2. pc' = "done"
    BY <2>1, ReportIsExecutable DEF Query
  <2>3. request.kind = "report" /\ count = NoQuery /\ dates \in QueryParser /\ InOrder(dates)
    BY <2>1 DEF FInv, ParamsInv, QueriesInv, Sent
  <2>4. (dates \in QueryParser /\ InOrder(dates))' /\ RangeArgs(dates)' = RangeArgs(dates)
    BY <2>1, <2>3, RequestKept DEF InOrder, RangeArgs
  <2>. QED BY <2>1, <2>2, <2>3, <2>4 DEF FInv, ParamsInv, QueriesInv, Sent
<1>6. CASE BuildMappingField
  <2>1. /\ pc = "map" /\ pc' = "filter" /\ UNCHANGED <<request, dates, list, count>>
        /\ params' = [params EXCEPT !.fields = Mapped(@)]
    BY <1>6 DEF BuildMappingField
  <2>2. /\ {"fields", "values", "sort"} \subseteq DOMAIN params'
        /\ params'.fields = Mapped(request.searchKey) /\ params'.values = request.searchValue
        /\ params'.sort = SortOf(request.sort)
    BY <2>1 DEF FInv, ParamsInv, Fields
  <2>3. InOrder(dates)' = InOrder(dates)
    BY <2>1 DEF InOrder
  <2>. QED BY <2>1, <2>2, <2>3, RequestKept DEF FInv, ParamsInv, QueriesInv, Sent, Fields
<1>7. CASE BuildFilterQuery
  <2>1. PICK base, fields, values, sort :
          base = Base /\ fields = params.fields /\ values = params.values /\ sort = params.sort
    OBVIOUS
  <2>2. /\ pc = "filter" /\ UNCHANGED <<request, params, dates, count>>
        /\ list' = Limited(Ordered(sort, Where(fields, values, base)))
        /\ \/ Executable(list') /\ pc' = "count"
           \/ Executable(list') /\ pc' = "done" /\ request.kind = "staff"
           \/ ~ Executable(list') /\ pc' = "serverError"
    BY <1>7, <2>1 DEF BuildFilterQuery, Query
  <2>3. /\ request.kind # "report" /\ fields = Mapped(request.searchKey) /\ count = NoQuery
        /\ sort = SortOf(request.sort)
    BY <2>1, <2>2 DEF FInv, ParamsInv, QueriesInv, Sent, Fields
  <2>4. Filtered(fields) \in Seq(Columns \cup {Missing})
    BY <2>3, MappedIs, FilteredIs DEF FInv, Parameters
  <2>5. /\ IsQuery(base) /\ DOMAIN base.args \subseteq BaseArgs /\ base.limited = FALSE
        /\ base.order = <<>>
    BY <2>1, BaseIs
  <2>6. PICK q : q = Where(fields, values, base)
    OBVIOUS
  <2>7. /\ IsQuery(q) /\ Describes(q, base, fields, values) /\ q.limited = FALSE /\ q.order = <<>>
        /\ \A a \in DOMAIN q.args : a[1] # "size" /\ a[1] # "offset"
    BY <2>4, <2>5, <2>6, WhereDescribes
  <2>8. /\ Describes(list', base, fields, values) /\ list'.order = OrderOf(sort)
        /\ list'.limited => {<<"size", 0>>, <<"offset", 0>>} \subseteq DOMAIN list'.args
    BY <2>2, <2>5, <2>6, <2>7, LimitedDescribes
  <2>9. Base' = base /\ params'.fields = fields /\ params'.values = values /\ Fields' = Fields
    BY <2>1, <2>2, RequestKept DEF Fields
  <2>10. ListBuilt'
    BY <2>2, <2>3, <2>8, <2>9 DEF Describes, ListBuilt
  <2>11. Executable(list') <=> Executable(list)'
    BY DEF Executable, OnColumns
  <2>12. InOrder(dates)' = InOrder(dates)
    BY <2>2 DEF InOrder
  <2>13. ParamsInv'
    BY <2>2, <2>3, <2>9, <2>12, RequestKept DEF FInv, ParamsInv, Sent
  <2>14. QueriesInv'
    BY <2>2, <2>3, <2>10, <2>11 DEF QueriesInv, Sent
  <2>. QED BY <2>2, <2>3, <2>13, <2>14 DEF FInv
<1>8. CASE BuildCountQuery
  <2>1. PICK base, first, fields, values :
          /\ base = CountBase /\ first = Base
          /\ fields = params.fields /\ values = params.values
    OBVIOUS
  <2>2. /\ pc = "count" /\ UNCHANGED <<request, params, dates, list>>
        /\ count' = CountWhere(fields, values, base)
        /\ \/ Executable(count') /\ pc' = "done"
           \/ ~ Executable(count') /\ pc' = "serverError"
    BY <1>8, <2>1 DEF BuildCountQuery, Query
  <2>3. /\ request.kind # "report" /\ fields = Mapped(request.searchKey)
        /\ Executable(list) /\ ListBuilt
    BY <2>1, <2>2 DEF FInv, ParamsInv, QueriesInv, Sent, Fields
  <2>4. Filtered(fields) \in Seq(Columns \cup {Missing})
    BY <2>3, MappedIs, FilteredIs DEF FInv, Parameters
  <2>5. /\ IsQuery(base) /\ DOMAIN base.args \subseteq BaseArgs /\ base.limited = FALSE
        /\ base.order = <<>>
    BY <2>1, BaseIs, CountBaseIs
  <2>6. /\ count'.limited = FALSE /\ count'.order = <<>>
        /\ Describes(count', base, fields, values)
    BY <2>2, <2>4, <2>5, CountWhereDescribes
  <2>7. /\ Base' = first /\ CountBase' = base /\ Fields' = Fields
        /\ params'.fields = fields /\ params'.values = values
    BY <2>1, <2>2, RequestKept DEF Fields
  <2>8. CountBuilt'
    BY <2>6, <2>7 DEF CountBuilt, Describes
  <2>9. ListBuilt'
    BY <2>1, <2>2, <2>3, <2>7 DEF ListBuilt, Describes
  <2>10. (Executable(list)' <=> Executable(list)) /\ (Executable(count)' <=> Executable(count'))
    BY <2>2 DEF Executable, OnColumns
  <2>11. InOrder(dates)' = InOrder(dates)
    BY <2>2 DEF InOrder
  <2>12. ParamsInv'
    BY <2>2, <2>3, <2>7, <2>11, RequestKept DEF FInv, ParamsInv, Sent
  <2>13. QueriesInv'
    BY <2>2, <2>3, <2>8, <2>9, <2>10 DEF QueriesInv, Sent
  <2>. QED BY <2>2, <2>3, <2>12, <2>13 DEF FInv
<1>9. CASE Terminating
  BY <1>1, <1>9 DEF Terminating
<1>. QED BY <1>1, <1>2, <1>3, <1>4, <1>5, <1>6, <1>7, <1>8, <1>9 DEF Next

LEMMA PageInv == Spec => []FInv
BY InitPage, NextPage, PTL DEF Spec

-------------------------------------------------------------------------------
(* The properties of queries.                                              *)

\* The range of a report was validated, and so was that of a listing unless the
\* client spelled a date in two ways.
THEOREM RangesAreValid == Spec => []RangeIsValidated
<1>1. ASSUME FInv, Sent PROVE RangeIsValidated
  <2>. DEFINE dated == {d \in list.conditions : d.column = "t.created_at"}
              range == {<<c.op, ArgOf(list, c)>> : c \in dated}
  <2>1. CASE request.kind = "report"
    <3>1. /\ list.conditions = Between /\ list.args = RangeArgs(dates)
          /\ dates \in QueryParser /\ InOrder(dates)
      BY <1>1, <2>1 DEF FInv, ParamsInv, QueriesInv, NoQuery
    <3>2. /\ DOMAIN RangeArgs(dates) = {<<"start_date", 0>>, <<"end_date", 0>>}
          /\ RangeArgs(dates)[<<"start_date", 0>>] = dates.startDate
          /\ RangeArgs(dates)[<<"end_date", 0>>] = dates.endDate
      BY DEF RangeArgs
    <3>3. \A c \in Between : c.column = "t.created_at" /\ ArgOf(list, c) = RangeArgs(dates)[c.arg]
      BY <3>1, <3>2 DEF Between, ArgOf
    <3>4. range = {<<c.op, RangeArgs(dates)[c.arg]>> : c \in Between}
      BY <3>1, <3>3
    <3>5. range = {<<">=", dates.startDate>>, <<"<=", dates.endDate>>}
      BY <3>2, <3>4 DEF Between
    <3>. QED BY <2>1, <3>1, <3>5 DEF RangeIsValidated
  <2>2. CASE request.kind # "report"
    <3>1. PICK base, fields, values :
            base = Base /\ fields = params.fields /\ values = params.values
      OBVIOUS
    <3>2. Describes(list, base, fields, values)
      BY <1>1, <2>2, <3>1 DEF FInv, QueriesInv, ListBuilt
    <3>3. \A c \in base.conditions : c.arg \in DOMAIN base.args /\ c.column \notin Columns
      BY <3>1, BaseIs
    <3>4. /\ \A c \in base.conditions : ArgOf(list, c) = base.args[c.arg]
          /\ \A i \in Used(fields, values) : Condition(fields, i).column # "t.created_at"
      BY <3>2, <3>3, ArgsOf DEF Columns
    <3>5. dated = {c \in base.conditions : c.column = "t.created_at"}
      BY <3>2, <3>4 DEF Describes
    <3>6. CASE request.kind = "staff" /\ HasRange
      <4>1. /\ base.conditions = Between
            /\ base.args[<<"start_date", 0>>] = Named.startDate
            /\ base.args[<<"end_date", 0>>] = Named.endDate
        BY <3>1, <3>6, BaseIs
      <4>2. \A c \in Between : c.column = "t.created_at" /\ ArgOf(list, c) = base.args[c.arg]
        BY <3>4, <4>1 DEF Between
      <4>3. range = {<<c.op, base.args[c.arg]>> : c \in Between}
        BY <3>5, <4>1, <4>2
      <4>4. range = {<<">=", Named.startDate>>, <<"<=", Named.endDate>>}
        BY <4>1, <4>3 DEF Between
      <4>5. ASSUME request.otherStartDate \o request.otherEndDate = <<>> PROVE InOrder(Named)
        <5>1. dates \in QueryParser /\ InOrder(dates)
          BY <1>1, <3>6 DEF FInv, ParamsInv
        <5>2. dates = Named
          BY <1>1, <3>6, <4>5, <5>1, OneSpelling DEF FInv
        <5>. QED BY <5>1, <5>2
      <4>. QED BY <3>6, <4>4, <4>5 DEF RangeIsValidated
    <3>7. CASE ~ (request.kind = "staff" /\ HasRange)
      <4>1. dated = {}
        BY <3>1, <3>5, <3>7, BaseIs
      <4>. QED BY <2>2, <3>7, <4>1 DEF RangeIsValidated
    <3>. QED BY <3>6, <3>7
  <2>. QED BY <2>1, <2>2
<1>2. FInv => RangeIsValidated
  BY <1>1 DEF RangeIsValidated
<1>. QED BY <1>2, PageInv, PTL

\* The count, built from a text and by a loop of its own, belongs to the rows.
THEOREM CountsMatch == Spec => []CountMatchesList
<1>1. ASSUME FInv, count # NoQuery PROVE ConditionsOf(count) = ConditionsOf(list)
  <2>1. PICK base, first, fields, values :
          /\ base = CountBase /\ first = Base
          /\ fields = params.fields /\ values = params.values
    OBVIOUS
  <2>2. Describes(count, base, fields, values) /\ Describes(list, first, fields, values)
    BY <1>1, <2>1 DEF FInv, QueriesInv, Sent, ListBuilt, CountBuilt
  <2>3. /\ \A c \in first.conditions : c.arg \in DOMAIN first.args /\ c.column \notin Columns
        /\ base.conditions = first.conditions /\ base.args = first.args
    BY <2>1, BaseIs, CountBaseIs
  <2>4. /\ count.conditions = list.conditions
        /\ list.conditions = first.conditions \cup {Condition(fields, i) : i \in Used(fields, values)}
    BY <2>2, <2>3 DEF Describes
  <2>5. \A c \in list.conditions : ArgOf(count, c) = ArgOf(list, c)
    BY <2>2, <2>3, <2>4, ArgsOf
  <2>. QED BY <2>4, <2>5 DEF ConditionsOf
<1>2. FInv => CountMatchesList
  BY <1>1 DEF CountMatchesList
<1>. QED BY <1>2, PageInv, PTL

\* A 500 for the text of a query is owed to a sort that Postgres does not know or to
\* the count of a history that is filtered by a column, and to nothing else.
THEOREM StatementsAreExecutable == Spec => []StatementsExecutable
<1>1. ASSUME FInv, Sent, request.kind # "report"
      PROVE  /\ Executable(list) <=> ~ SortRefused
             /\ CountBuilt => (Executable(count) <=> (request.kind = "history" => OnColumns(list) = {}))
             /\ request.kind = "staff" \/ request.kind = "history"
  <2>1. PICK base, first, fields, values :
          /\ base = CountBase /\ first = Base
          /\ fields = params.fields /\ values = params.values
    OBVIOUS
  <2>2. /\ Describes(list, first, fields, values) /\ list.order = OrderOf(SortOf(request.sort))
        /\ list.limited => {<<"size", 0>>, <<"offset", 0>>} \subseteq DOMAIN list.args
    BY <1>1, <2>1 DEF FInv, QueriesInv, ListBuilt
  <2>3. list.alias = TRUE
    BY <2>1, <2>2, BaseIs DEF Describes
  <2>4. /\ Executable(list) <=> (list.order = <<>> \/ list.order \in Sorts)
        /\ OnColumns(list) = {Condition(fields, i) : i \in Used(fields, values)}
    BY <2>1, <2>2, <2>3, QueryIsExecutable
  <2>5. Executable(list) <=> ~ SortRefused
    BY <1>1, <2>2, <2>4, SortIs DEF FInv
  <2>6. ASSUME CountBuilt
        PROVE  Executable(count) <=> (request.kind = "history" => OnColumns(list) = {})
    <3>1. /\ Describes(count, base, fields, values) /\ count.limited = FALSE /\ count.order = <<>>
      BY <2>1, <2>6 DEF CountBuilt
    <3>2. /\ base.conditions = Base.conditions /\ base.args = Base.args
          /\ base.wheres = Base.wheres /\ base.alias = (request.kind # "history")
      BY <2>1, CountBaseIs
    <3>3. /\ Executable(count) <=> (OnColumns(count) # {} => count.alias)
          /\ OnColumns(count) = {Condition(fields, i) : i \in Used(fields, values)}
      BY <3>1, <3>2, QueryIsExecutable
    <3>4. count.alias = (request.kind # "history")
      BY <3>1, <3>2 DEF Describes
    <3>. QED BY <2>4, <3>3, <3>4
  <2>7. request.kind = "staff" \/ request.kind = "history"
    BY <1>1 DEF FInv, Parameters
  <2>. QED BY <2>5, <2>6, <2>7
<1>2. FInv => StatementsExecutable
  <2>. SUFFICES ASSUME FInv PROVE StatementsExecutable
    OBVIOUS
  <2>1. CASE pc \notin {"done", "serverError"}
    BY <2>1 DEF StatementsExecutable
  <2>2. CASE pc \in {"done", "serverError"} /\ request.kind = "report"
    BY <2>2 DEF FInv, QueriesInv, Sent, StatementsExecutable, SortRefused
  <2>3. CASE pc \in {"done", "serverError"} /\ request.kind # "report"
    BY <1>1, <2>3 DEF FInv, QueriesInv, Sent, StatementsExecutable
  <2>. QED BY <2>1, <2>2, <2>3
<1>. QED BY <1>2, PageInv, PTL

\* No field is compared with the value of another.
THEOREM FiltersAreRequested == Spec => []FilterIsTheRequest
<1>1. ASSUME FInv, Sent, request.kind # "report",
             Len(request.searchKey) = Len(request.searchValue)
      PROVE  {<<c.column, ArgOf(list, c)>> : c \in OnColumns(list)} =
               IF Range(request.searchKey) \subseteq DOMAIN mappingFields THEN Asked ELSE {}
  <2>1. PICK base, keys, fields, values :
          /\ base = Base /\ keys = request.searchKey
          /\ fields = params.fields /\ values = params.values
    OBVIOUS
  <2>2. /\ keys \in Seq(STRING) /\ values \in Seq(STRING) /\ Len(keys) = Len(values)
        /\ fields = Mapped(keys) /\ values = request.searchValue
        /\ Describes(list, base, fields, values)
    BY <1>1, <2>1 DEF FInv, ParamsInv, QueriesInv, ListBuilt, Sent, Fields, Parameters
  <2>3. /\ fields \in Seq(Columns \cup {Missing}) /\ Len(fields) = Len(keys)
        /\ \A i \in DOMAIN keys :
             IF keys[i] \in DOMAIN mappingFields
             THEN fields[i] = mappingFields[keys[i]] /\ fields[i] # Missing
             ELSE fields[i] = Missing
    BY <2>2, MappedIs
  <2>4. /\ Filtered(fields) \in Seq(Columns \cup {Missing})
        /\ (\A i \in DOMAIN fields : fields[i] # Missing) => Filtered(fields) = fields
        /\ (\E i \in DOMAIN fields : fields[i] = Missing) => Len(Filtered(fields)) < Len(fields)
    BY <2>3, FilteredIs
  <2>5. \A c \in base.conditions : c.arg \in DOMAIN base.args /\ c.column \notin Columns
    BY <2>1, BaseIs
  <2>6. {<<c.column, ArgOf(list, c)>> : c \in OnColumns(list)} =
          {<<Filtered(fields)[i], values[i]>> : i \in Used(fields, values)}
    <3>1. /\ OnColumns(list) = {Condition(fields, i) : i \in Used(fields, values)}
          /\ \A i \in Used(fields, values) :
               /\ Condition(fields, i).column = Filtered(fields)[i]
               /\ ArgOf(list, Condition(fields, i)) = values[i]
      BY <2>2, <2>5, ArgsOf
    <3>. QED BY <3>1
  <2>7. DOMAIN fields = DOMAIN keys /\ Range(keys) = {keys[i] : i \in DOMAIN keys}
    BY <2>2, <2>3 DEF Range
  <2>8. CASE Range(keys) \subseteq DOMAIN mappingFields
    <3>1. \A i \in DOMAIN keys : /\ keys[i] \in DOMAIN mappingFields
                                 /\ fields[i] = mappingFields[keys[i]] /\ fields[i] # Missing
      BY <2>3, <2>7, <2>8
    <3>2. Filtered(fields) = fields
      BY <2>4, <2>7, <3>1
    <3>3. Used(fields, values) =
            {i \in DOMAIN keys : /\ keys[i] \in DOMAIN mappingFields
                                 /\ Usable(mappingFields[keys[i]], values[i])}
      BY <2>2, <2>3, <2>7, <3>1, <3>2 DEF Used
    <3>4. {<<fields[i], values[i]>> : i \in Used(fields, values)} = Asked
      BY <2>1, <2>2, <3>1, <3>3 DEF Asked
    <3>. QED BY <2>1, <2>6, <2>8, <3>2, <3>4
  <2>9. CASE ~ Range(keys) \subseteq DOMAIN mappingFields
    <3>1. \E i \in DOMAIN fields : fields[i] = Missing
      BY <2>3, <2>7, <2>9
    <3>2. Used(fields, values) = {}
      BY <2>2, <2>3, <2>4, <3>1 DEF Used
    <3>. QED BY <2>1, <2>6, <2>9, <3>2
  <2>. QED BY <2>8, <2>9
<1>2. FInv => FilterIsTheRequest
  BY <1>1 DEF FilterIsTheRequest
<1>. QED BY <1>2, PageInv, PTL

-------------------------------------------------------------------------------
(* The ids that are collected.                                             *)

\* What is collected when id comes after the list.
With(sofar, id) ==
  IF \E other \in sofar : Within(id, other) THEN sofar ELSE sofar \cup {id}

\* f gives, for the first positions of ids, the ids collected from them.
Collects(f, ids) ==
  f = [s \in SUBSET DOMAIN ids |->
         IF s = {} THEN {} ELSE With(f[s \ {Max(s)}], ids[Max(s)])]

LEMMA CollectUnfolded ==
  ASSUME NEW ids
  PROVE  Collect(ids) = (CHOOSE f : Collects(f, ids))[DOMAIN ids]
BY DEF Collect, FoldLeft, MapThenFoldSet, Collects, Max, Max, With

LEMMA CollectsExist ==
  ASSUME NEW A, NEW ids \in Seq(A)
  PROVE  \E f : Collects(f, ids)
<1>. DEFINE n == Len(ids)
            V == SUBSET A
            step == [i \in 1..n |-> [sofar \in V |-> With(sofar, ids[i])]]
            none == {}
<1>1. n \in Nat /\ DOMAIN ids = 1..n /\ none \in V
  OBVIOUS
<1>2. step \in [1..n -> [V -> V]]
  BY DEF With
<1>3. PICK f \in [SUBSET (1..n) -> V] : GoesThrough(f, n, none, step)
  <2>. HIDE DEF n, V, step, none
  <2>. QED BY <1>1, <1>2, RecursionOnPositions
<1>4. \A s \in SUBSET (1..n) : s # {} => Max(s) \in s
  <2>. HIDE DEF n, V, step, none
  <2>. QED BY <1>1, <1>2, RecursionOnPositions
<1>. DEFINE h == [s \in SUBSET DOMAIN ids |->
                    IF s = {} THEN {} ELSE With(f[s \ {Max(s)}], ids[Max(s)])]
<1>5. ASSUME NEW s \in SUBSET (1..n) PROVE h[s] = f[s]
  <2>1. CASE s = {}
    BY <1>1, <1>3, <2>1 DEF GoesThrough
  <2>2. CASE s # {}
    <3>1. Max(s) \in 1..n /\ f[s \ {Max(s)}] \in V
      BY <1>4, <2>2
    <3>. QED BY <1>1, <1>3, <2>2, <3>1 DEF GoesThrough
  <2>. QED BY <2>1, <2>2
<1>6. f = h
  <2>1. DOMAIN h = SUBSET (1..n) /\ h = [s \in SUBSET (1..n) |-> h[s]]
    BY <1>1
  <2>2. f = [s \in SUBSET (1..n) |-> f[s]]
    BY <1>3
  <2>. HIDE DEF h, n, V
  <2>. QED BY <2>1, <2>2, <1>5
<1>. QED BY <1>6 DEF Collects

\* An id is collected, or its digits occur in one that is.
LEMMA CollectIs ==
  ASSUME NEW A, NEW ids \in Seq(A)
  PROVE  /\ Collect(ids) \subseteq Range(ids)
         /\ \A id \in Range(ids) :
              id \in Collect(ids) \/ \E other \in Collect(ids) : Within(id, other)
<1>. DEFINE n == Len(ids)
            f == CHOOSE g : Collects(g, ids)
<1>1. n \in Nat /\ DOMAIN ids = 1..n /\ Range(ids) = {ids[i] : i \in 1..n}
  BY DEF Range
<1>2. Collects(f, ids) /\ Collect(ids) = f[1..n]
  BY <1>1, CollectsExist, CollectUnfolded
<1>. HIDE DEF f
<1>3. f[1..0] = {}
  BY <1>1, <1>2 DEF Collects
<1>4. ASSUME NEW k \in Nat, k < n
      PROVE  f[1..(k + 1)] = With(f[1..k], ids[k + 1])
  <2>1. 1..(k + 1) \in SUBSET DOMAIN ids
    BY <1>1, <1>4
  <2>2. Max(1..(k + 1)) = k + 1 /\ (1..(k + 1)) \ {k + 1} = 1..k /\ 1..(k + 1) # {}
    BY LastPosition
  <2>. QED BY <1>2, <2>1, <2>2 DEF Collects
<1>. DEFINE F == {k \in Nat : k <= n =>
                    /\ f[1..k] \subseteq Range(ids)
                    /\ \A i \in 1..k : \/ ids[i] \in f[1..k]
                                       \/ \E other \in f[1..k] : Within(ids[i], other)}
<1>5. 0 \in F
  BY <1>3
<1>6. ASSUME NEW k \in Nat, k \in F PROVE k + 1 \in F
  <2>. SUFFICES ASSUME k + 1 <= n PROVE k + 1 \in F
    OBVIOUS
  <2>. DEFINE u == f[1..k]
              v == f[1..(k + 1)]
  <2>1. /\ u \subseteq Range(ids)
        /\ \A i \in 1..k : ids[i] \in u \/ \E other \in u : Within(ids[i], other)
    BY <1>6
  <2>2. v = With(u, ids[k + 1])
    BY <1>4
  <2>3. ids[k + 1] \in Range(ids)
    BY <1>1
  <2>. HIDE DEF u, v
  <2>4. v \subseteq Range(ids)
    BY <2>1, <2>2, <2>3 DEF With
  <2>5. ASSUME NEW i \in 1..(k + 1)
        PROVE  ids[i] \in v \/ \E other \in v : Within(ids[i], other)
    BY <2>1, <2>2 DEF With
  <2>. QED BY <2>4, <2>5 DEF u, v
<1>7. n \in F
  <2>. HIDE DEF F
  <2>. QED BY <1>1, <1>5, <1>6, NatSetInduction
<1>. QED BY <1>1, <1>2, <1>7

\* f gives, for the first rows of a page, their menus.
Lists(f, page) ==
  f = [s \in SUBSET DOMAIN page |->
         IF s = {} THEN <<>> ELSE f[s \ {Max(s)}] \o page[Max(s)].menus]

LEMMA MenusUnfolded ==
  ASSUME NEW page
  PROVE  MenusOf(page) = (CHOOSE f : Lists(f, page))[DOMAIN page]
BY DEF MenusOf, FoldLeft, MapThenFoldSet, Lists, Max, Max

LEMMA ListsExist ==
  ASSUME NEW A, NEW page, NEW n \in Nat, DOMAIN page = 1..n,
         \A i \in 1..n : page[i].menus \in Seq(A)
  PROVE  \E f : Lists(f, page)
<1>. DEFINE V == Seq(A)
            step == [i \in 1..n |-> [menus \in V |-> menus \o page[i].menus]]
            none == <<>>
<1>1. none \in V
  OBVIOUS
<1>2. step \in [1..n -> [V -> V]]
  OBVIOUS
<1>3. PICK f \in [SUBSET (1..n) -> V] : GoesThrough(f, n, none, step)
  <2>. HIDE DEF V, step, none
  <2>. QED BY <1>1, <1>2, RecursionOnPositions
<1>4. \A s \in SUBSET (1..n) : s # {} => Max(s) \in s
  <2>. HIDE DEF V, step, none
  <2>. QED BY <1>1, <1>2, RecursionOnPositions
<1>. DEFINE h == [s \in SUBSET DOMAIN page |->
                    IF s = {} THEN <<>> ELSE f[s \ {Max(s)}] \o page[Max(s)].menus]
<1>5. ASSUME NEW s \in SUBSET (1..n) PROVE h[s] = f[s]
  <2>1. CASE s = {}
    BY <1>3, <2>1 DEF GoesThrough
  <2>2. CASE s # {}
    <3>1. Max(s) \in 1..n /\ f[s \ {Max(s)}] \in V
      BY <1>4, <2>2
    <3>. QED BY <1>3, <2>2, <3>1 DEF GoesThrough
  <2>. QED BY <2>1, <2>2
<1>6. f = h
  <2>1. DOMAIN h = SUBSET (1..n) /\ h = [s \in SUBSET (1..n) |-> h[s]]
    OBVIOUS
  <2>2. f = [s \in SUBSET (1..n) |-> f[s]]
    BY <1>3
  <2>. HIDE DEF h, V
  <2>. QED BY <2>1, <2>2, <1>5
<1>. QED BY <1>6 DEF Lists

\* The menus of a page are a list, and there are some if there is a row.
LEMMA MenusAre ==
  ASSUME NEW page \in Seq(Row)
  PROVE  /\ MenusOf(page) \in Seq(Nat \ {0})
         /\ page # <<>> => MenusOf(page) # <<>>
<1>. DEFINE n == Len(page)
            f == CHOOSE g : Lists(g, page)
<1>1. n \in Nat /\ DOMAIN page = 1..n
  OBVIOUS
<1>2. \A i \in 1..n : page[i].menus \in Seq(Nat \ {0}) /\ page[i].menus # <<>>
  <2>1. ASSUME NEW row \in Row PROVE row.menus \in Seq(Nat \ {0}) /\ row.menus # <<>>
    BY DEF Row
  <2>. QED BY <1>1, <2>1
<1>3. Lists(f, page) /\ MenusOf(page) = f[1..n]
  <2>1. \E g : Lists(g, page)
    <3>. HIDE DEF n
    <3>. QED BY <1>1, <1>2, ListsExist
  <2>. QED BY <1>1, <2>1, MenusUnfolded
<1>. HIDE DEF f
<1>4. f[1..0] = <<>>
  BY <1>1, <1>3 DEF Lists
<1>5. ASSUME NEW k \in Nat, k < n
      PROVE  f[1..(k + 1)] = f[1..k] \o page[k + 1].menus
  <2>1. 1..(k + 1) \in SUBSET DOMAIN page
    BY <1>1, <1>5
  <2>2. Max(1..(k + 1)) = k + 1 /\ (1..(k + 1)) \ {k + 1} = 1..k /\ 1..(k + 1) # {}
    BY LastPosition
  <2>. QED BY <1>3, <2>1, <2>2 DEF Lists
<1>. DEFINE F == {k \in Nat : k <= n => /\ f[1..k] \in Seq(Nat \ {0})
                                        /\ k > 0 => Len(f[1..k]) > 0}
<1>6. 0 \in F
  <2>1. <<>> \in Seq(Nat \ {0})
    OBVIOUS
  <2>. QED BY <1>4, <2>1
<1>7. ASSUME NEW k \in Nat, k \in F PROVE k + 1 \in F
  <2>. SUFFICES ASSUME k + 1 <= n PROVE k + 1 \in F
    OBVIOUS
  <2>. DEFINE u == f[1..k]
              v == f[1..(k + 1)]
              w == page[k + 1].menus
  <2>1. u \in Seq(Nat \ {0})
    BY <1>7
  <2>2. v = u \o w
    <3>1. k < n
      BY <1>1
    <3>. HIDE DEF n
    <3>. QED BY <1>5, <3>1
  <2>3. w \in Seq(Nat \ {0}) /\ w # <<>>
    BY <1>2
  <2>. HIDE DEF u, v, w
  <2>4. v \in Seq(Nat \ {0}) /\ Len(v) = Len(u) + Len(w)
    BY <2>1, <2>2, <2>3, ConcatProperties
  <2>5. Len(w) > 0 /\ Len(w) \in Nat /\ Len(u) \in Nat
    BY <2>1, <2>3
  <2>. QED BY <2>4, <2>5 DEF u, v
<1>8. n \in F
  <2>. HIDE DEF F
  <2>. QED BY <1>1, <1>6, <1>7, NatSetInduction
<1>. QED BY <1>1, <1>3, <1>8

\* So are its tables and its users, one for each row.
LEMMA ColumnsAre ==
  ASSUME NEW page \in Seq(Row)
  PROVE  /\ TablesOf(page) \in Seq(Nat \ {0}) /\ UsersOf(page) \in Seq(Nat \ {0})
         /\ page # <<>> => TablesOf(page) # <<>> /\ UsersOf(page) # <<>>
<1>1. ASSUME NEW row \in Row PROVE row.table \in Nat \ {0} /\ row.user \in Nat \ {0}
  BY DEF Row
<1>2. \A i \in DOMAIN page : page[i].table \in Nat \ {0} /\ page[i].user \in Nat \ {0}
  BY <1>1
<1>. QED BY <1>2 DEF TablesOf, UsersOf

-------------------------------------------------------------------------------
(* What a page asks for and what is named.                                 *)

NamesInv ==
  /\ rows \in Seq(Row) /\ kind \in Kinds
  /\ kind \in Details => Len(rows) = 1
  /\ stage \in {"collect", "menus", "users", "fill", "done", "failed", "panic"}
  /\ stage \notin {"collect", "done"} => asked = Ids
  /\ stage # "done" => named = Nothing
  /\ stage = "panic" => IsIndexOutOfRange
  /\ stage = "done" =>
       \/ rows = <<>> /\ named = Nothing
       \/ /\ asked = Ids
          /\ named = [Returned EXCEPT
                        !.users = IF kind \in Staff THEN @ ELSE Range(UsersOf(rows))]

LEMMA InitNames == NamesInit => NamesInv
BY NamesAssumption DEF NamesInit, NamesInv, Kinds, Details

\* A page with rows asks for menus and tables.
LEMMA RowsAskForNames ==
  ASSUME rows \in Seq(Row), rows # <<>>
  PROVE  Ids.menus # {} /\ Ids.tables # {}
<1>1. /\ MenusOf(rows) \in Seq(Nat \ {0}) /\ MenusOf(rows) # <<>>
      /\ TablesOf(rows) \in Seq(Nat \ {0}) /\ TablesOf(rows) # <<>>
  BY MenusAre, ColumnsAre
<1>2. ASSUME NEW ids \in Seq(Nat \ {0}), ids # <<>>
      PROVE  Collect(ids) # {} /\ Range(ids) # {}
  <2>1. ids[1] \in Range(ids)
    BY <1>2 DEF Range
  <2>. QED BY <2>1, CollectIs
<1>. QED BY <1>1, <1>2 DEF Ids

LEMMA NextNames == NamesInv /\ [NamesNext]_namesVars => NamesInv'
<1>. SUFFICES ASSUME NamesInv, [NamesNext]_namesVars PROVE NamesInv'
  OBVIOUS
<1>0. UNCHANGED <<kind, rows, known>>
  BY DEF NamesNext, namesVars, CollectIds, MenusAnswered, UsersAnswered, PeerFails, Fill,
         Panic, NamesEnded
<1>1. Ids' = Ids
  BY <1>0 DEF Ids
<1>2. CASE UNCHANGED <<stage, asked, named>>
  <2>1. Returned' = Returned /\ IsIndexOutOfRange' = IsIndexOutOfRange
    BY <1>0, <1>2 DEF Returned, IsIndexOutOfRange
  <2>. QED BY <1>0, <1>1, <1>2, <2>1 DEF NamesInv
<1>3. CASE CollectIds
  BY <1>0, <1>1, <1>3, RowsAskForNames DEF CollectIds, NamesInv
<1>4. CASE MenusAnswered \/ UsersAnswered \/ PeerFails
  BY <1>0, <1>1, <1>4 DEF MenusAnswered, UsersAnswered, PeerFails, NamesInv
<1>5. CASE Fill
  <2>1. Returned' = Returned
    BY <1>0, <1>5 DEF Fill, Returned
  <2>. QED BY <1>0, <1>1, <1>5, <2>1 DEF Fill, NamesInv
<1>6. CASE Panic
  <2>1. IsIndexOutOfRange'
    BY <1>0, <1>6 DEF Panic, IsIndexOutOfRange, Returned
  <2>. QED BY <1>0, <1>1, <1>6, <2>1 DEF Panic, NamesInv
<1>. QED BY <1>2, <1>3, <1>4, <1>5, <1>6 DEF NamesNext, namesVars, NamesEnded

LEMMA NamesAre == NamesSpec => []NamesInv
<1>1. NamesInit => NamesInv
  BY InitNames
<1>. QED BY <1>1, NextNames, PTL DEF NamesSpec

-------------------------------------------------------------------------------
(* The properties of names.                                                *)

\* A detail shows the table and the user, if they are known; the process dies of
\* one only if a peer does not know one of the two.
THEOREM DetailsAreAlwaysNamed == NamesSpec => []DetailsAreNamed
<1>1. ASSUME NamesInv, kind \in Details PROVE DetailsAreNamed
  <2>1. /\ Len(rows) = 1 /\ rows \in Seq(Row) /\ rows # <<>>
    BY <1>1 DEF NamesInv
  <2>2. Ids.tables = Shown.tables /\ (kind = "one" => Ids.users = Shown.users)
    BY <1>1 DEF Ids, Shown, Details
  <2>3. Shown.tables # {} /\ Shown.users # {}
    BY <2>1 DEF Shown, TablesOf, UsersOf, Range
  <2>4. /\ Returned.tables = asked.tables \cap known.tables
        /\ Returned.users = asked.users \cap known.users
    BY DEF Returned, Nothing
  <2>5. ASSUME stage = "done"
        PROVE  /\ Shown.tables \cap known.tables \subseteq named.tables
               /\ Shown.users \cap known.users \subseteq named.users
    <3>1. /\ asked = Ids
          /\ named = [Returned EXCEPT
                        !.users = IF kind \in Staff THEN @ ELSE Range(UsersOf(rows))]
      BY <1>1, <2>1, <2>5 DEF NamesInv
    <3>2. /\ named.tables = Returned.tables
          /\ named.users = IF kind \in Staff THEN Returned.users ELSE Range(UsersOf(rows))
      BY <3>1 DEF Returned, Nothing
    <3>3. kind \in Staff => kind = "one"
      BY <1>1 DEF Staff, Details
    <3>. QED BY <2>2, <2>4, <3>1, <3>2, <3>3 DEF Shown
  <2>6. ASSUME stage = "panic"
        PROVE  \/ ~ Shown.tables \subseteq known.tables
               \/ ~ Shown.users \subseteq known.users
    BY <1>1, <2>2, <2>3, <2>4, <2>6 DEF NamesInv, IsIndexOutOfRange
  <2>. QED BY <2>5, <2>6 DEF DetailsAreNamed
<1>2. NamesInv => DetailsAreNamed
  BY <1>1 DEF DetailsAreNamed
<1>. QED BY <1>2, NamesAre, PTL

\* An id that is shown without a name is unknown to the peer, or its digits occur
\* in another id of the page.
THEOREM NamelessAreExplained == NamesSpec => []NamelessIsExplained
<1>1. ASSUME NamesInv, stage = "done" PROVE NamelessIsExplained
  <2>1. CASE rows = <<>>
    <3>1. MenusOf(rows) = <<>>
      <4>1. \E f : Lists(f, rows)
        <5>1. DOMAIN rows = 1..0 /\ \A i \in 1..0 : rows[i].menus \in Seq(Nat)
          BY <2>1
        <5>. QED BY <5>1, ListsExist
      <4>2. PICK g : Lists(g, rows) /\ MenusOf(rows) = g[DOMAIN rows]
        BY <4>1, MenusUnfolded
      <4>3. DOMAIN rows = {}
        BY <2>1
      <4>. QED BY <4>2, <4>3 DEF Lists
    <3>2. Range(MenusOf(rows)) = {} /\ Range(TablesOf(rows)) = {}
          /\ Range(UsersOf(rows)) = {}
      BY <2>1, <3>1 DEF Range, TablesOf, UsersOf
    <3>. QED BY <3>2 DEF NamelessIsExplained, Shown, Nothing
  <2>2. CASE rows # <<>>
    <3>1. /\ asked = Ids
          /\ named = [Returned EXCEPT
                        !.users = IF kind \in Staff THEN @ ELSE Range(UsersOf(rows))]
      BY <1>1, <2>2 DEF NamesInv
    <3>2. /\ named.menus = asked.menus \cap known.menus
          /\ named.tables = asked.tables \cap known.tables
          /\ named.users = IF kind \in Staff THEN asked.users \cap known.users
                           ELSE Range(UsersOf(rows))
      BY <3>1 DEF Returned, Nothing
    <3>3. /\ MenusOf(rows) \in Seq(Nat \ {0}) /\ TablesOf(rows) \in Seq(Nat \ {0})
          /\ UsersOf(rows) \in Seq(Nat \ {0})
      BY <1>1, MenusAre, ColumnsAre DEF NamesInv
    <3>4. ASSUME NEW ids \in Seq(Nat \ {0}), NEW id \in Range(ids)
          PROVE  id \in Collect(ids) \/ \E other \in Range(ids) \ {id} : Within(id, other)
      <4>1. Collect(ids) \subseteq Range(ids)
            /\ (id \in Collect(ids) \/ \E other \in Collect(ids) : Within(id, other))
        BY CollectIs
      <4>. QED BY <4>1
    <3>5. ASSUME NEW id \in Shown.menus \ named.menus, id \in known.menus
          PROVE  \E other \in Shown.menus \ {id} : Within(id, other)
      BY <3>1, <3>2, <3>3, <3>4, <3>5 DEF Shown, Ids
    <3>6. ASSUME NEW id \in Shown.tables \ named.tables, id \in known.tables
          PROVE  \E other \in Shown.tables \ {id} : Within(id, other)
      BY <3>1, <3>2, <3>3, <3>4, <3>6 DEF Shown, Ids
    <3>7. ASSUME NEW id \in Shown.users \ named.users, id \in known.users
          PROVE  \E other \in Shown.users \ {id} : Within(id, other)
      <4>1. kind = "list" \/ kind = "one"
        BY <3>2, <3>7 DEF Shown, Staff
      <4>. QED BY <3>1, <3>2, <3>3, <3>4, <3>7, <4>1 DEF Shown, Ids, Staff
    <3>. QED BY <3>5, <3>6, <3>7 DEF NamelessIsExplained, Nothing
  <2>. QED BY <2>1, <2>2
<1>2. NamesInv => NamelessIsExplained
  BY <1>1 DEF NamelessIsExplained
<1>. QED BY <1>2, NamesAre, PTL
===============================================================================
