------------------------------ MODULE MysqlStmt ------------------------------
(***************************************************************************)
(* A prepared statement.  MysqlStmt keeps the values of its parameters and *)
(* of its result columns in std::vectors, one per type, and gives the      *)
(* client library pointers into them.  A bind call that makes a vector     *)
(* grow moves it when its capacity is exhausted: pointers bound before     *)
(* that lead to freed memory.                                              *)
(*                                                                         *)
(* The vector of the strings and the vector of their lengths grow together *)
(* and are one buffer here; a string's bind holds the address of its       *)
(* length, whatever becomes of its characters.                             *)
(***************************************************************************)
EXTENDS Integers, Sequences, FiniteSetsExt

VARIABLES
    stmt,     \* the statement: its parameters and result columns, in order
    params,   \* params[i]: the generation of its buffer parameter i points into
    columns,  \* columns[i]: the same of result column i
    buffer,   \* the buffers of both sides, per type: [size, capacity, generation]
    given,    \* given[i]: the server has read the value bound to parameter i
    out,      \* out[i]: the caller's variable holds column i of the row fetched
    phase     \* "new", "bound", "executed", "row" (fetched) or "end" (no more)

vars == <<stmt, params, columns, buffer, given, out, phase>>

Types == {"int", "int64", "uint64", "string"}
Sides == {"param", "result"}

-----------------------------------------------------------------------------
(* The statements of the server, by the types of what they bind *)

Statement(p, r) == [params |-> p, results |-> r]

RegisterUser == Statement(<<"string", "string", "string", "string">>, << >>)
LogLogin == Statement(<<"int", "string", "int">>, << >>)
Login == Statement(<<"string">>, <<"int", "string", "string", "string">>)
IndexFile == Statement(<<"int", "string", "string", "uint64", "int", "string">>, << >>)
Unindex == Statement(<<"int", "string">>, << >>)
LookupFile == Statement(<<"int", "string">>, <<"string", "string", "uint64", "int", "string">>)
UnderPrefix == Statement(<<"int", "string">>, <<"string">>)
ListIndexed == Statement(<<"int", "string", "string">>,
                         <<"string", "string", "uint64", "string">>)

Statements == {RegisterUser, LogLogin, Login, IndexFile, Unindex, LookupFile,
               UnderPrefix, ListIndexed}

-----------------------------------------------------------------------------
(* Binding *)

\* std::vector::resize(n) of libstdc++, called when the size is below n.
Resize(b, n) ==
    IF n <= b.capacity THEN [b EXCEPT !.size = n]
    ELSE [size |-> n,
          capacity |-> b.size + Max({b.size, n - b.size}),
          generation |-> b.generation + 1]

\* The buffer with room for an entry i.
Grown(b, i) == IF b.size < i THEN Resize(b, i) ELSE b

\* bindInt, bindInt64, bindUInt64, bindString, each with bindParam.
BindParam ==
    LET i == Len(params) + 1
        t == stmt.params[i]
        b == Grown(buffer["param"][t], i)
    IN  /\ phase = "new"
        /\ i <= Len(stmt.params)
        /\ buffer' = [buffer EXCEPT !["param"][t] = b]
        /\ params' = Append(params, b.generation)
        /\ UNCHANGED <<stmt, columns, given, out, phase>>

\* bindResultInt, bindResultInt64, bindResultUInt64, bindResultString.
BindResult ==
    LET i == Len(columns) + 1
        t == stmt.results[i]
        b == Grown(buffer["result"][t], i)
    IN  /\ phase = "new"
        /\ Len(params) = Len(stmt.params)
        /\ i <= Len(stmt.results)
        /\ buffer' = [buffer EXCEPT !["result"][t] = b]
        /\ columns' = Append(columns, b.generation)
        /\ UNCHANGED <<stmt, params, given, out, phase>>

-----------------------------------------------------------------------------
(* Execution *)

\* The pointers of one side that still lead into its buffer.
Live(side, types, pointers) ==
    {i \in DOMAIN pointers : pointers[i] = buffer[side][types[i]].generation}

\* Freed memory may still hold the value of a parameter.
Execute ==
    /\ phase = "new"
    /\ Len(params) = Len(stmt.params)
    /\ Len(columns) = Len(stmt.results)
    /\ given' \in {g \in SUBSET DOMAIN params : Live("param", stmt.params, params) \subseteq g}
    /\ phase' = "executed"
    /\ UNCHANGED <<stmt, params, columns, buffer, out>>

\* The library writes the row through its pointers; fetch copies the buffers to
\* the caller's variables.  An entry the library has not written is still 0 or
\* of length 0.
Fetch ==
    /\ phase \in {"executed", "row"}
    /\ stmt.results # << >>
    /\ phase' = "row"
    /\ out' = Live("result", stmt.results, columns)
    /\ UNCHANGED <<stmt, params, columns, buffer, given>>

\* fetch returns MYSQL_NO_DATA: the caller's variables stay as they are.
FetchNoRow ==
    /\ phase \in {"executed", "row"}
    /\ stmt.results # << >>
    /\ phase' = "end"
    /\ UNCHANGED <<stmt, params, columns, buffer, given, out>>

-----------------------------------------------------------------------------
(* Specification *)

\* The constructor prepares the statement.
Init ==
    /\ stmt \in Statements
    /\ params = << >>
    /\ columns = << >>
    /\ buffer = [s \in Sides |-> [t \in Types |-> [size |-> 0, capacity |-> 0, generation |-> 0]]]
    /\ given = {}
    /\ out = {}
    /\ phase = "new"

Next == BindParam \/ BindResult \/ Execute \/ Fetch \/ FetchNoRow

Spec == Init /\ [][Next]_vars

-----------------------------------------------------------------------------
(* Properties *)

\* When fetch returns 0 there is a row of the query that was asked, and every bound
\* variable holds its column.  login violates it: binding its column 3, salt, makes
\* the lengths move, that of password_hash is then written to freed memory, and
\* the caller gets an empty hash, which no password matches.
FetchDelivers == phase = "row" => given = DOMAIN params /\ out = DOMAIN stmt.results
=============================================================================
