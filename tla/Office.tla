------------------------------- MODULE Office -------------------------------
(***************************************************************************)
(* The office's modules side by side: imports without a batch column       *)
(* (Batches), imports of past retail sales (Imports) and of clients'       *)
(* invoices (ClientImports), a browser's session (Sessions), the users     *)
(* (Users).                                                                *)
(*                                                                         *)
(* They share no row: expenses and receipts, products and retail invoices, *)
(* business clients, tokens, users.  A behaviour of the office is one of   *)
(* each, interleaved; what is said of one of them is checked on the        *)
(* behaviours in which only that one moves.                                *)
(***************************************************************************)
EXTENDS Batches, Imports, ClientImports, Sessions, Users

VARIABLE part       \* the one that moves

officeVars == <<part, batchesVars, importsVars, clientsVars, sessionsVars, usersVars>>

Init ==
    /\ part \in {"batches", "imports", "clients", "sessions", "users"}
    /\ BatchesInit /\ ImportsInit /\ ClientsInit /\ SessionsInit /\ UsersInit

BatchesMove ==
    /\ part = "batches" /\ BatchesNext
    /\ UNCHANGED <<part, importsVars, clientsVars, sessionsVars, usersVars>>

ImportsMove ==
    /\ part = "imports" /\ ImportsNext
    /\ UNCHANGED <<part, batchesVars, clientsVars, sessionsVars, usersVars>>

ClientsMove ==
    /\ part = "clients" /\ ClientsNext
    /\ UNCHANGED <<part, batchesVars, importsVars, sessionsVars, usersVars>>

SessionsMove ==
    /\ part = "sessions" /\ SessionsNext
    /\ UNCHANGED <<part, batchesVars, importsVars, clientsVars, usersVars>>

UsersMove ==
    /\ part = "users" /\ UsersNext
    /\ UNCHANGED <<part, batchesVars, importsVars, clientsVars, sessionsVars>>

Next == BatchesMove \/ ImportsMove \/ ClientsMove \/ SessionsMove \/ UsersMove

\* Only what Batches does has an end that is asked about.
Spec == Init /\ [][Next]_officeVars /\ BatchesFairness
=============================================================================
