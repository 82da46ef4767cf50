------------------------------- MODULE Ajustes -------------------------------
(***************************************************************************)
(* The configuration all gateways share (services/platform_settings.py):   *)
(* named values that an administrator edits while others do, sealed with   *)
(* the key of the server if they are marked secret.                        *)
(*                                                                         *)
(* A text is what is between it and the value somebody typed: the keys it  *)
(* was sealed with, innermost first; Nulo is the empty text.  Two values   *)
(* typed one after the other differ.  A request reads a row and writes     *)
(* later what it changed, over the row as it is by then (READ COMMITTED).  *)
(* Descriptions and the listing are left out.                              *)
(***************************************************************************)
EXTENDS Naturals, Sequences

CONSTANTS Claves,
          Ajenas,         \* rows of origen equipo or identidad
          LlavesServidor, \* values SETTINGS_ENCRYPTION_KEY can take
          Peticiones,     \* requests the server can be busy with at once
          MaxCapas,       \* bound: seals on one text
          Nulo

VARIABLES ajustes,        \* the table, by clave
          llave,          \* SETTINGS_ENCRYPTION_KEY, or Nulo
          peticiones,     \* what each session read and will write
          pisadas         \* history: rows written over unread since their value was typed

ajustesVars == <<ajustes, llave, pisadas>>

ASSUME AjustesAssumption ==
  /\ Ajenas \subseteq Claves
  /\ MaxCapas \in Nat \ {0}
  /\ Nulo \notin LlavesServidor

Textos == {Nulo} \cup UNION {[1..n -> LlavesServidor] : n \in 0..MaxCapas}

Filas == [valor : Textos, es_secreto : BOOLEAN]

Ausente == [fila |-> "ausente"]

Esta(c) == ajustes[c] \in Filas

Libre == [fase |-> "libre"]

\* suya: the row that was read has not been deleted.
Ediciones ==
  [fase : {"edita"}, clave : Claves, leida : Filas \cup {Ausente},
   nueva : Filas \cup {Ausente}, escrito : BOOLEAN, suya : BOOLEAN]

\* Seeded without values: the origen of a row is what _require_editable asks for.
AjustesInit ==
  /\ ajustes \in [Claves -> {[valor |-> Nulo, es_secreto |-> s] : s \in BOOLEAN}]
  /\ llave \in LlavesServidor \cup {Nulo}
  /\ pisadas = {}

-----------------------------------------------------------------------------
(* SecretBox.                                                              *)

Descifra(texto) == texto # <<>> /\ texto[Len(texto)] = llave

EnClaro(texto) == SubSeq(texto, 1, Len(texto) - 1)

\* _store, when it does not raise.
Guardable(texto, secreto) ==
  secreto /\ texto # Nulo => llave # Nulo /\ Len(texto) < MaxCapas

Store(texto, secreto) ==
  IF secreto /\ texto # Nulo THEN Append(texto, llave) ELSE texto

\* valor_publico.
Publico(c) == Esta(c) /\ ~ajustes[c].es_secreto

\* para_un_gateway raises if a text does not open.
SeEntrega(c) ==
  Esta(c) /\ c \notin Ajenas /\ ajustes[c].es_secreto /\ ajustes[c].valor # Nulo
    => Descifra(ajustes[c].valor)

-----------------------------------------------------------------------------
Edita(p, c, nueva, escrito) ==
  /\ peticiones[p] = Libre
  /\ peticiones' = [peticiones EXCEPT ![p] =
       [fase |-> "edita", clave |-> c, leida |-> ajustes[c], nueva |-> nueva,
        escrito |-> escrito, suya |-> TRUE]]
  /\ UNCHANGED ajustesVars

CreateAjuste(p, c) ==
  /\ ~Esta(c)
  /\ \E texto \in {Nulo, <<>>}, s \in BOOLEAN :
       /\ Guardable(texto, s)
       /\ Edita(p, c, [valor |-> Store(texto, s), es_secreto |-> s], TRUE)

\* FAULTY variant (see README, "Faulty variants"): a row that changes its mark
\* keeps its text.
ReescritoSinSello(fila, secreto) == fila.valor

\* The text of a row that changes its mark and not its value.
Reescrito(fila, secreto) ==
  IF secreto = fila.es_secreto \/ fila.valor = Nulo THEN fila.valor
  ELSE IF secreto THEN Store(fila.valor, TRUE) ELSE EnClaro(fila.valor)

\* The text it starts from opens, and the one it ends with can be sealed.
Reescribible(fila, secreto) ==
  secreto # fila.es_secreto /\ fila.valor # Nulo =>
    IF secreto THEN Guardable(fila.valor, TRUE) ELSE Descifra(fila.valor)

UpdateAjuste(p, c) ==
  /\ Esta(c) /\ c \notin Ajenas
  /\ \E s \in BOOLEAN :
       \/ \E texto \in {Nulo, <<>>} :
            /\ Guardable(texto, s)
            /\ Edita(p, c, [valor |-> Store(texto, s), es_secreto |-> s], TRUE)
       \/ /\ Reescribible(ajustes[c], s)
          /\ Edita(p, c, [valor |-> Reescrito(ajustes[c], s), es_secreto |-> s], FALSE)

DeleteAjuste(p, c) ==
  Esta(c) /\ c \notin Ajenas /\ Edita(p, c, Ausente, FALSE)

\* Requests that had read a row that goes.
Huerfanas(p, c) ==
  [r \in Peticiones |->
     IF r = p THEN Libre
     ELSE IF peticiones[r].fase = "edita" /\ peticiones[r].clave = c
     THEN [peticiones[r] EXCEPT !.suya = FALSE] ELSE peticiones[r]]

\* The clave is UNIQUE, and an UPDATE needs its row.
LaBaseAceptaAjuste(q) ==
  \/ q.nueva = Ausente
  \/ IF q.leida = Ausente THEN ~Esta(q.clave) ELSE q.suya

\* The UPDATE: the columns left different from the ones that were read.
MezclaAjuste(q) ==
  [valor |-> IF q.escrito \/ q.nueva.valor # q.leida.valor
             THEN q.nueva.valor ELSE ajustes[q.clave].valor,
   es_secreto |-> IF q.nueva.es_secreto # q.leida.es_secreto
                  THEN q.nueva.es_secreto ELSE ajustes[q.clave].es_secreto]

CommitAjuste(p) ==
  LET q == peticiones[p]
      fresca == ajustes[q.clave] = q.leida
  IN  /\ q.fase = "edita" /\ LaBaseAceptaAjuste(q)
      /\ IF q.nueva = Ausente /\ q.suya
         THEN /\ ajustes' = [ajustes EXCEPT ![q.clave] = Ausente]
              /\ pisadas' = pisadas \ {q.clave}
              /\ peticiones' = Huerfanas(p, q.clave)
         ELSE /\ ajustes' = IF q.nueva = Ausente THEN ajustes
                            ELSE [ajustes EXCEPT ![q.clave] =
                                    IF q.leida = Ausente THEN q.nueva ELSE MezclaAjuste(q)]
              /\ pisadas' = IF q.nueva = Ausente \/ (fresca /\ ~q.escrito) THEN pisadas
                            ELSE IF fresca THEN pisadas \ {q.clave}
                            ELSE pisadas \cup {q.clave}
              /\ peticiones' = [peticiones EXCEPT ![p] = Libre]
      /\ UNCHANGED llave

\* An IntegrityError, or an UPDATE of a row that is gone.
RollbackAjuste(p) ==
  /\ peticiones[p].fase = "edita" /\ ~LaBaseAceptaAjuste(peticiones[p])
  /\ peticiones' = [peticiones EXCEPT ![p] = Libre]
  /\ UNCHANGED ajustesVars

\* The server is started again with another key; its requests are lost.
Reinicia ==
  /\ llave' \in (LlavesServidor \cup {Nulo}) \ {llave}
  /\ peticiones' = [p \in Peticiones |-> Libre]
  /\ UNCHANGED <<ajustes, pisadas>>

AjustesNext ==
  \/ Reinicia
  \/ \E p \in Peticiones :
       \/ CommitAjuste(p) \/ RollbackAjuste(p)
       \/ \E c \in Claves :
            CreateAjuste(p, c) \/ UpdateAjuste(p, c) \/ DeleteAjuste(p, c)

-----------------------------------------------------------------------------
\* A value is sealed once if its row is marked secret and not at all if it is
\* not ("marking as secret a row that stayed in the clear does not protect it"),
\* except in a row that a request wrote over without having read it, until its
\* value is typed again.
SelladosSegunMarca ==
  \A c \in Claves \ pisadas :
    Esta(c) /\ ajustes[c].valor # Nulo =>
      Len(ajustes[c].valor) = IF ajustes[c].es_secreto THEN 1 ELSE 0
=============================================================================
