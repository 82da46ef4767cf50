------------------------- MODULE Enrolamiento_proofs -------------------------
(***************************************************************************)
(* Type correctness (with the foreign key of the tokens and one owner to a *)
(* credential), SelladosSegunMarca, CanjeEntero and VivosAcotados of the   *)
(* shared settings and the enrolment, for any number of settings, keys,    *)
(* gateways, tokens and requests.                                          *)
(***************************************************************************)
EXTENDS Enrolamiento, FiniteSetTheorems, SequenceTheorems, TLAPS

USE AjustesAssumption

\* A text is sealed as its row is marked.
Sellada(f) == f.valor # Nulo => Len(f.valor) = IF f.es_secreto THEN 1 ELSE 0

\* Values are typed sealed; what is not typed is as sealed as it was read; and a
\* request knows when the row it read is gone.
Fiel(q, filas) ==
  /\ q.escrito => q.nueva \in Filas /\ Sellada(q.nueva)
  /\ q.leida = Ausente => q.escrito
  /\ ~q.escrito /\ q.nueva \in Filas => (Sellada(q.leida) => Sellada(q.nueva))
  /\ q.leida \in Filas /\ q.suya => filas[q.clave] \in Filas

PorEscribir ==
  \A p \in Peticiones : peticiones[p].fase = "edita" => Fiel(peticiones[p], ajustes)

Emisiones == [fase : {"emite"}, token : Tokens, gateway : Gateways, vencidos : SUBSET Tokens]
Canjes == [fase : {"canjea"}, token : Tokens, gateway : Gateways]
Rotaciones == [fase : {"rota"}, gateway : Gateways]
Revocaciones == [fase : {"revoca"}, gateway : Gateways, habia : BOOLEAN]

Posibles == {Libre} \cup Ediciones \cup Enrolamientos

-----------------------------------------------------------------------------
LEMMA Fases ==
  /\ Libre.fase = "libre"
  /\ \A q \in Ediciones : q.fase = "edita"
  /\ \A q \in Emisiones : q.fase = "emite"
  /\ \A q \in Canjes : q.fase = "canjea"
  /\ \A q \in Rotaciones : q.fase = "rota"
  /\ \A q \in Revocaciones : q.fase = "revoca"
  /\ Enrolamientos = Emisiones \cup Canjes \cup Rotaciones \cup Revocaciones
BY DEF Libre, Ediciones, Emisiones, Canjes, Rotaciones, Revocaciones, Enrolamientos

LEMMA DeFase ==
  ASSUME NEW q \in Posibles
  PROVE  /\ q.fase = "edita" => q \in Ediciones
         /\ q.fase = "emite" => q \in Emisiones
         /\ q.fase = "canjea" => q \in Canjes
         /\ q.fase = "rota" => q \in Rotaciones
         /\ q.fase = "revoca" => q \in Revocaciones
BY Fases DEF Posibles

LEMMA AusenteNoEsFila == Ausente \notin Filas
BY DEF Ausente, Filas

-----------------------------------------------------------------------------
(* Texts.                                                                  *)

LEMMA TextoSeq ==
  /\ \A t \in Textos : t # Nulo =>
       t \in Seq(LlavesServidor) /\ Len(t) \in Nat /\ Len(t) <= MaxCapas
  /\ \A t \in Seq(LlavesServidor), n \in 0..MaxCapas : Len(t) = n => t \in Textos
<1>1. ASSUME NEW t \in Textos, t # Nulo
      PROVE  t \in Seq(LlavesServidor) /\ Len(t) \in Nat /\ Len(t) <= MaxCapas
  <2>1. PICK n \in 0..MaxCapas : t \in [1..n -> LlavesServidor]
    BY <1>1 DEF Textos
  <2> QED BY <2>1
<1>2. ASSUME NEW t \in Seq(LlavesServidor), Len(t) \in 0..MaxCapas
      PROVE  t \in Textos
  <2>1. Len(t) \in 0..MaxCapas /\ t \in [1..Len(t) -> LlavesServidor]
    BY <1>2, LenProperties
  <2> QED BY <2>1 DEF Textos
<1> QED BY <1>1, <1>2

LEMMA Vacio ==
  /\ <<>> \in Seq(LlavesServidor) /\ Len(<<>>) = 0
  /\ \A t \in Seq(LlavesServidor) : t # <<>> => Len(t) \in Nat \ {0}
BY EmptySeq

LEMMA Anade ==
  ASSUME NEW t \in Seq(LlavesServidor), NEW k \in LlavesServidor
  PROVE  Append(t, k) \in Seq(LlavesServidor) /\ Len(Append(t, k)) = Len(t) + 1
BY AppendProperties

\* A value somebody types.
LEMMA EscritaSellada ==
  ASSUME NEW t \in {Nulo, <<>>}, NEW s \in BOOLEAN, Guardable(t, s),
         llave \in LlavesServidor \cup {Nulo}
  PROVE  LET f == [valor |-> Store(t, s), es_secreto |-> s]
         IN  f \in Filas /\ Sellada(f)
<1>1. CASE t = Nulo
  BY <1>1 DEF Store, Filas, Sellada, Textos
<1>2. CASE t # Nulo /\ ~s
  <2>1. t = <<>>
    BY <1>2
  <2>2. t \in Textos /\ Len(t) = 0
    BY <2>1, Vacio, TextoSeq, 0 \in 0..MaxCapas
  <2> QED BY <1>2, <2>2 DEF Store, Filas, Sellada
<1>3. CASE t # Nulo /\ s
  <2>1. llave \in LlavesServidor
    BY <1>3 DEF Guardable
  <2>2. Append(t, llave) \in Seq(LlavesServidor) /\ Len(Append(t, llave)) = 1
    <3>1. t = <<>>
      BY <1>3
    <3> QED BY <2>1, <3>1, Vacio, Anade
  <2>3. Append(t, llave) \in Textos
    BY <2>2, TextoSeq, 1 \in 0..MaxCapas
  <2> QED BY <1>3, <2>2, <2>3 DEF Store, Filas, Sellada
<1> QED BY <1>1, <1>2, <1>3

\* The text of a row that changes its mark.
LEMMA ReescritaSellada ==
  ASSUME NEW l \in Filas, NEW s \in BOOLEAN, Reescribible(l, s),
         llave \in LlavesServidor \cup {Nulo}
  PROVE  LET f == [valor |-> Reescrito(l, s), es_secreto |-> s]
         IN  f \in Filas /\ (Sellada(l) => Sellada(f))
<1>1. l.valor \in Textos /\ l.es_secreto \in BOOLEAN
  BY DEF Filas
<1>2. CASE s = l.es_secreto \/ l.valor = Nulo
  BY <1>1, <1>2 DEF Reescrito, Filas, Sellada
<1>3. CASE s = TRUE /\ l.es_secreto = FALSE /\ l.valor # Nulo
  <2>1. /\ llave \in LlavesServidor /\ Len(l.valor) < MaxCapas
    BY <1>3 DEF Reescribible, Guardable
  <2>2. l.valor \in Seq(LlavesServidor) /\ Len(l.valor) \in Nat
    BY <1>1, <1>3, TextoSeq
  <2>3. /\ Append(l.valor, llave) \in Seq(LlavesServidor)
        /\ Len(Append(l.valor, llave)) = Len(l.valor) + 1
    BY <2>1, <2>2, Anade
  <2>4. Append(l.valor, llave) \in Textos
    <3>1. Len(l.valor) + 1 \in 0..MaxCapas
      BY <2>1, <2>2
    <3> QED BY <2>3, <3>1, TextoSeq
  <2>5. Reescrito(l, s) = Append(l.valor, llave)
    BY <1>3 DEF Reescrito, Store
  <2> QED BY <1>3, <2>2, <2>3, <2>4, <2>5 DEF Filas, Sellada
<1>4. CASE s = FALSE /\ l.es_secreto = TRUE /\ l.valor # Nulo
  <2>1. l.valor # <<>>
    BY <1>4 DEF Reescribible, Descifra
  <2>2. l.valor \in Seq(LlavesServidor) /\ Len(l.valor) \in Nat \ {0} /\ Len(l.valor) <= MaxCapas
    BY <1>1, <1>4, <2>1, TextoSeq, Vacio
  <2>3. \A i \in 1..(Len(l.valor) - 1) : l.valor[i] \in LlavesServidor
    BY <2>2, ElementOfSeq
  <2>4. /\ EnClaro(l.valor) \in Seq(LlavesServidor)
        /\ Len(EnClaro(l.valor)) = Len(l.valor) - 1
    BY <2>2, <2>3, SubSeqProperties DEF EnClaro
  <2>5. EnClaro(l.valor) \in Textos
    <3>1. Len(l.valor) - 1 \in 0..MaxCapas
      BY <2>2
    <3> QED BY <2>4, <3>1, TextoSeq
  <2>6. Reescrito(l, s) = EnClaro(l.valor)
    BY <1>4 DEF Reescrito
  <2> QED BY <1>4, <2>2, <2>4, <2>5, <2>6 DEF Filas, Sellada
<1> QED BY <1>1, <1>2, <1>3, <1>4

-----------------------------------------------------------------------------
(* The shared settings.                                                    *)

AjustesTipo ==
  /\ ajustes \in [Claves -> Filas \cup {Ausente}]
  /\ llave \in LlavesServidor \cup {Nulo}
  /\ pisadas \subseteq Claves
  /\ peticiones \in [Peticiones -> Posibles]

AjustesInv == AjustesTipo /\ PorEscribir /\ SelladosSegunMarca

LEMMA SelladosEs ==
  SelladosSegunMarca <=> \A c \in Claves \ pisadas : Esta(c) => Sellada(ajustes[c])
BY DEF SelladosSegunMarca, Sellada

\* Requests that go on editing what they were, of rows that are still there.
LEMMA PorEscribirQueda ==
  ASSUME AjustesTipo, PorEscribir,
         \A r \in Peticiones :
           peticiones'[r].fase = "edita" => peticiones'[r] = peticiones[r],
         \A c \in Claves : Esta(c) => Esta(c)'
  PROVE  PorEscribir'
<1> SUFFICES ASSUME NEW r \in Peticiones, peticiones'[r].fase = "edita"
             PROVE  Fiel(peticiones'[r], ajustes')
  BY DEF PorEscribir, Esta
<1>1. peticiones'[r] = peticiones[r]
  OBVIOUS
<1>2. peticiones[r].clave \in Claves
  BY <1>1, DeFase DEF AjustesTipo, Ediciones
<1>3. Fiel(peticiones[r], ajustes)
  BY <1>1 DEF PorEscribir
<1> QED BY <1>1, <1>2, <1>3 DEF Fiel, Esta

LEMMA EditaPaso ==
  ASSUME AjustesInv, NEW p \in Peticiones, NEW c \in Claves,
         NEW nueva \in Filas \cup {Ausente}, NEW escrito \in BOOLEAN,
         Edita(p, c, nueva, escrito),
         escrito => nueva \in Filas /\ Sellada(nueva),
         ajustes[c] = Ausente => escrito,
         ~escrito /\ nueva \in Filas => (Sellada(ajustes[c]) => Sellada(nueva))
  PROVE  AjustesInv'
<1> DEFINE q == [fase |-> "edita", clave |-> c, leida |-> ajustes[c], nueva |-> nueva,
                 escrito |-> escrito, suya |-> TRUE]
<1>1. /\ peticiones' = [peticiones EXCEPT ![p] = q] /\ ajustes' = ajustes
      /\ pisadas' = pisadas /\ llave' = llave
  BY DEF Edita, ajustesVars
<1>2. /\ q \in Ediciones /\ q.clave = c /\ q.leida = ajustes[c] /\ q.nueva = nueva
      /\ q.escrito = escrito /\ q.suya = TRUE
  BY DEF Ediciones, AjustesInv, AjustesTipo
<1> HIDE DEF q
<1>3. AjustesTipo'
  BY <1>1, <1>2 DEF AjustesInv, AjustesTipo, Posibles
<1>4. SelladosSegunMarca'
  BY <1>1 DEF AjustesInv, SelladosSegunMarca, Esta
<1>5. ASSUME NEW r \in Peticiones, peticiones'[r].fase = "edita"
      PROVE  Fiel(peticiones'[r], ajustes')
  <2>1. CASE r = p
    <3>1. peticiones'[r] = q
      BY <1>1, <2>1 DEF AjustesInv, AjustesTipo
    <3> QED BY <1>1, <1>2, <3>1 DEF Esta, Fiel
  <2>2. CASE r # p
    <3>1. peticiones'[r] = peticiones[r]
      BY <1>1, <2>2 DEF AjustesInv, AjustesTipo
    <3> QED BY <1>1, <1>5, <3>1 DEF AjustesInv, PorEscribir, Esta
  <2> QED BY <2>1, <2>2
<1>6. PorEscribir'
  BY <1>5 DEF PorEscribir, Esta
<1> QED BY <1>3, <1>4, <1>6 DEF AjustesInv

LEMMA CreaPaso ==
  ASSUME AjustesInv, NEW p \in Peticiones, NEW c \in Claves, CreateAjuste(p, c)
  PROVE  AjustesInv'
<1>1. PICK t \in {Nulo, <<>>}, s \in BOOLEAN :
        Guardable(t, s) /\ Edita(p, c, [valor |-> Store(t, s), es_secreto |-> s], TRUE)
  BY DEF CreateAjuste
<1> DEFINE f == [valor |-> Store(t, s), es_secreto |-> s]
<1>2. f \in Filas /\ Sellada(f)
  BY <1>1, EscritaSellada DEF AjustesInv, AjustesTipo
<1> HIDE DEF f
<1>3. Edita(p, c, f, TRUE)
  BY <1>1 DEF f
<1> QED BY <1>2, <1>3, EditaPaso

LEMMA UpdatePaso ==
  ASSUME AjustesInv, NEW p \in Peticiones, NEW c \in Claves, UpdateAjuste(p, c)
  PROVE  AjustesInv'
<1>1. ajustes[c] \in Filas /\ ajustes[c] # Ausente
  BY AusenteNoEsFila DEF UpdateAjuste, Esta
<1>2. ASSUME NEW s \in BOOLEAN, NEW t \in {Nulo, <<>>}, Guardable(t, s),
             Edita(p, c, [valor |-> Store(t, s), es_secreto |-> s], TRUE)
      PROVE  AjustesInv'
  <2> DEFINE f == [valor |-> Store(t, s), es_secreto |-> s]
  <2>1. f \in Filas /\ Sellada(f)
    BY <1>2, EscritaSellada DEF AjustesInv, AjustesTipo
  <2>2. Edita(p, c, f, TRUE)
    BY <1>2
  <2> HIDE DEF f
  <2> QED BY <2>1, <2>2, EditaPaso
<1>3. ASSUME NEW s \in BOOLEAN, Reescribible(ajustes[c], s),
             Edita(p, c, [valor |-> Reescrito(ajustes[c], s), es_secreto |-> s], FALSE)
      PROVE  AjustesInv'
  <2> DEFINE f == [valor |-> Reescrito(ajustes[c], s), es_secreto |-> s]
  <2>1. f \in Filas /\ (Sellada(ajustes[c]) => Sellada(f))
    BY <1>1, <1>3, ReescritaSellada DEF AjustesInv, AjustesTipo
  <2>2. Edita(p, c, f, FALSE)
    BY <1>3
  <2> HIDE DEF f
  <2> QED BY <1>1, <2>1, <2>2, EditaPaso
<1> QED BY <1>2, <1>3 DEF UpdateAjuste

LEMMA BorraPaso ==
  ASSUME AjustesInv, NEW p \in Peticiones, NEW c \in Claves, DeleteAjuste(p, c)
  PROVE  AjustesInv'
<1>1. ajustes[c] # Ausente /\ Edita(p, c, Ausente, FALSE)
  BY AusenteNoEsFila DEF DeleteAjuste, Esta
<1> QED BY <1>1, AusenteNoEsFila, EditaPaso

LEMMA SinEdicionPaso ==
  ASSUME AjustesInv, Reinicia \/ \E p \in Peticiones : RollbackAjuste(p)
  PROVE  AjustesInv'
<1>1. AjustesTipo'
  BY DEF AjustesInv, AjustesTipo, RollbackAjuste, Reinicia, ajustesVars, Posibles
<1>2. ajustes' = ajustes /\ pisadas' = pisadas
  BY DEF RollbackAjuste, Reinicia, ajustesVars
<1>3. \A r \in Peticiones : peticiones'[r].fase = "edita" => peticiones'[r] = peticiones[r]
  BY Fases DEF AjustesInv, AjustesTipo, RollbackAjuste, Reinicia
<1>4. PorEscribir'
  BY <1>2, <1>3, PorEscribirQueda DEF AjustesInv, Esta
<1>5. SelladosSegunMarca'
  BY <1>2 DEF AjustesInv, SelladosSegunMarca, Esta
<1> QED BY <1>1, <1>4, <1>5 DEF AjustesInv

\* The row goes, and who had read it knows.
LEMMA CommitBorra ==
  ASSUME AjustesInv, NEW p \in Peticiones, CommitAjuste(p),
         peticiones[p].nueva = Ausente, peticiones[p].suya
  PROVE  AjustesInv'
<1> DEFINE c == peticiones[p].clave
<1>1. c \in Claves
  BY DeFase DEF CommitAjuste, AjustesInv, AjustesTipo, Ediciones
<1>2. /\ ajustes' = [ajustes EXCEPT ![c] = Ausente] /\ pisadas' = pisadas \ {c}
      /\ peticiones' = Huerfanas(p, c) /\ llave' = llave
  BY DEF CommitAjuste
<1> HIDE DEF c
<1>3. \A x \in Claves : ajustes'[x] = IF x = c THEN Ausente ELSE ajustes[x]
  BY <1>1, <1>2 DEF AjustesInv, AjustesTipo
<1>4. ASSUME NEW r \in Peticiones, peticiones[r].fase = "edita"
      PROVE  LET x == peticiones[r]
                 h == [x EXCEPT !.suya = FALSE]
             IN  /\ x \in Ediciones /\ h \in Ediciones /\ h.suya = FALSE
                 /\ h.nueva = x.nueva /\ h.leida = x.leida /\ h.escrito = x.escrito
  <2>1. peticiones[r] \in Ediciones
    BY <1>4, DeFase DEF AjustesInv, AjustesTipo
  <2> QED BY <2>1 DEF Ediciones
<1>5. \A r \in Peticiones : peticiones'[r] =
        IF r = p THEN Libre
        ELSE IF peticiones[r].fase = "edita" /\ peticiones[r].clave = c
        THEN [peticiones[r] EXCEPT !.suya = FALSE] ELSE peticiones[r]
  BY <1>2 DEF Huerfanas
<1>6. \A r \in Peticiones : peticiones'[r] \in Posibles
  BY <1>4, <1>5 DEF AjustesInv, AjustesTipo, Posibles
<1>7. AjustesTipo'
  BY <1>2, <1>6 DEF AjustesInv, AjustesTipo, Huerfanas
<1>8. SelladosSegunMarca'
  BY <1>2, <1>3, AusenteNoEsFila DEF AjustesInv, SelladosSegunMarca, Esta
<1>9. ASSUME NEW r \in Peticiones, peticiones'[r].fase = "edita"
      PROVE  Fiel(peticiones'[r], ajustes')
  <2>1. r # p /\ peticiones[r].fase = "edita"
    BY <1>5, <1>9, Fases
  <2>2. Fiel(peticiones[r], ajustes)
    BY <2>1 DEF AjustesInv, PorEscribir
  <2>3. CASE peticiones[r].clave = c
    <3>1. peticiones'[r] = [peticiones[r] EXCEPT !.suya = FALSE]
      BY <1>5, <2>1, <2>3
    <3> QED BY <1>4, <2>1, <2>2, <3>1 DEF Fiel
  <2>4. CASE peticiones[r].clave # c
    <3>1. peticiones'[r] = peticiones[r] /\ peticiones[r].clave \in Claves
      BY <1>4, <1>5, <2>1, <2>4 DEF Ediciones
    <3> QED BY <1>3, <2>2, <2>4, <3>1 DEF Esta, Fiel
  <2> QED BY <2>3, <2>4
<1>10. PorEscribir'
  BY <1>9 DEF PorEscribir, Esta
<1> QED BY <1>7, <1>8, <1>10 DEF AjustesInv

\* What a row becomes; it is as sealed as it is marked if it was read as it is, or
\* had its value typed.
LEMMA EscritaQueda ==
  ASSUME NEW a \in Filas, NEW l \in Filas, NEW n \in Filas, NEW e \in BOOLEAN
  PROVE  LET m == [valor |-> IF e \/ n.valor # l.valor THEN n.valor ELSE a.valor,
                   es_secreto |-> IF n.es_secreto # l.es_secreto
                                  THEN n.es_secreto ELSE a.es_secreto]
         IN  m \in Filas /\ (a = l => m = n)
BY DEF Filas

LEMMA CommitEscribe ==
  ASSUME AjustesInv, NEW p \in Peticiones, CommitAjuste(p),
         ~(peticiones[p].nueva = Ausente /\ peticiones[p].suya)
  PROVE  AjustesInv'
<1> DEFINE q == peticiones[p]
           c == q.clave
<1>1. q \in Ediciones /\ q.fase = "edita"
  BY DeFase DEF CommitAjuste, AjustesInv, AjustesTipo
<1>2. /\ c \in Claves /\ q.leida \in Filas \cup {Ausente} /\ q.nueva \in Filas \cup {Ausente}
      /\ q.escrito \in BOOLEAN /\ q.suya \in BOOLEAN
      /\ ajustes[c] \in Filas \cup {Ausente}
  BY <1>1 DEF Ediciones, AjustesInv, AjustesTipo
<1>3. /\ q.escrito => q.nueva \in Filas /\ Sellada(q.nueva)
      /\ q.leida = Ausente => q.escrito
      /\ ~q.escrito /\ q.nueva \in Filas => (Sellada(q.leida) => Sellada(q.nueva))
      /\ q.leida \in Filas /\ q.suya => Esta(c)
  BY <1>1 DEF AjustesInv, PorEscribir, Fiel, Esta
<1>4. /\ peticiones' = [peticiones EXCEPT ![p] = Libre] /\ llave' = llave
      /\ \A r \in Peticiones : peticiones'[r].fase = "edita" => peticiones'[r] = peticiones[r]
  BY Fases DEF CommitAjuste, AjustesInv, AjustesTipo
<1>5. peticiones' \in [Peticiones -> Posibles]
  BY <1>4 DEF AjustesInv, AjustesTipo, Posibles
<1>6. CASE q.nueva = Ausente
  <2>1. ajustes' = ajustes /\ pisadas' = pisadas
    BY <1>6 DEF CommitAjuste
  <2>2. PorEscribir'
    BY <1>4, <2>1, PorEscribirQueda DEF AjustesInv, Esta
  <2> QED BY <1>4, <1>5, <2>1, <2>2 DEF AjustesInv, AjustesTipo, SelladosSegunMarca, Esta
<1>7. CASE q.nueva # Ausente
  <2> DEFINE f == IF q.leida = Ausente THEN q.nueva ELSE MezclaAjuste(q)
  <2>1. /\ ajustes' = [ajustes EXCEPT ![c] = f]
        /\ pisadas' = IF ajustes[c] = q.leida /\ ~q.escrito THEN pisadas
                      ELSE IF ajustes[c] = q.leida THEN pisadas \ {c} ELSE pisadas \cup {c}
        /\ IF q.leida = Ausente THEN ~Esta(c) ELSE q.suya
    BY <1>7 DEF CommitAjuste, LaBaseAceptaAjuste
  <2>2. q.nueva \in Filas
    BY <1>2, <1>7
  <2>3. f \in Filas /\ (ajustes[c] = q.leida => f = q.nueva)
    <3>1. CASE q.leida = Ausente
      BY <2>2, <3>1
    <3>2. CASE q.leida # Ausente
      <4>1. q.leida \in Filas /\ ajustes[c] \in Filas
        BY <1>2, <1>3, <2>1, <3>2 DEF Esta
      <4> QED BY <1>2, <2>2, <3>2, <4>1, EscritaQueda DEF MezclaAjuste
    <3> QED BY <3>1, <3>2
  <2> HIDE DEF f, q, c
  <2>4. ajustes' \in [Claves -> Filas \cup {Ausente}]
    BY <2>1, <2>3 DEF AjustesInv, AjustesTipo
  <2>5. \A x \in Claves : ajustes'[x] = IF x = c THEN f ELSE ajustes[x]
    BY <1>2, <2>1 DEF AjustesInv, AjustesTipo
  <2>6. PorEscribir'
    BY <1>4, <2>3, <2>5, PorEscribirQueda DEF AjustesInv, Esta
  <2>7. c \in pisadas' \/ Sellada(f)
    <3>1. CASE ajustes[c] # q.leida
      BY <2>1, <3>1
    <3>2. CASE ajustes[c] = q.leida /\ q.escrito
      BY <1>3, <2>3, <3>2
    <3>3. CASE ajustes[c] = q.leida /\ ~q.escrito /\ c \notin pisadas
      <4>1. Sellada(q.leida)
        BY <1>2, <1>3, <3>3, SelladosEs DEF AjustesInv, Esta
      <4> QED BY <1>3, <2>2, <2>3, <3>3, <4>1
    <3>4. CASE ajustes[c] = q.leida /\ ~q.escrito /\ c \in pisadas
      BY <2>1, <3>4
    <3> QED BY <3>1, <3>2, <3>3, <3>4
  <2>8. \A x \in Claves \ pisadas' : Esta(x)' => Sellada(ajustes'[x])
    BY <2>1, <2>5, <2>7, SelladosEs DEF AjustesInv, Esta
  <2>9. SelladosSegunMarca'
    BY <2>8 DEF SelladosSegunMarca, Sellada
  <2>10. pisadas' \subseteq Claves
    BY <1>2, <2>1 DEF AjustesInv, AjustesTipo
  <2> QED BY <1>4, <1>5, <2>4, <2>6, <2>9, <2>10 DEF AjustesInv, AjustesTipo
<1> QED BY <1>6, <1>7

LEMMA AjustesPaso ==
  ASSUME AjustesInv, AjustesNext
  PROVE  AjustesInv'
BY CreaPaso, UpdatePaso, BorraPaso, SinEdicionPaso, CommitBorra, CommitEscribe
   DEF AjustesNext

LEMMA AjustesQuietos ==
  ASSUME AjustesInv, UNCHANGED ajustesVars, peticiones' \in [Peticiones -> Posibles],
         \A r \in Peticiones :
           peticiones'[r].fase = "edita" => peticiones'[r] = peticiones[r]
  PROVE  AjustesInv'
<1>1. ajustes' = ajustes /\ pisadas' = pisadas /\ llave' = llave
  BY DEF ajustesVars
<1>2. PorEscribir'
  BY <1>1, PorEscribirQueda DEF AjustesInv, Esta
<1> QED BY <1>1, <1>2 DEF AjustesInv, AjustesTipo, SelladosSegunMarca, Esta

-----------------------------------------------------------------------------
(* The enrolment.                                                          *)

\* TypeOK, less the settings.
EnrolaTipo ==
  /\ gateways \in [Gateways -> Credenciales \cup {Nulo, Borrado}]
  /\ tokens \in [Tokens -> Emitidos \cup {SinEmitir, Borrado}]
  /\ emitidas \in 0..MaxCredenciales
  /\ canjes \in [Tokens -> Nat]
  /\ \A t \in Tokens : tokens[t] \in Emitidos => Existe(tokens[t].gateway)
  /\ \A g, h \in Gateways : gateways[g] \in Credenciales /\ gateways[g] = gateways[h] => g = h

\* Credentials are put on file in order.
Numeradas == \A g \in Gateways : gateways[g] \in Credenciales => gateways[g] <= emitidas

\* A token that is being issued is nobody else's, and on no table yet.
Emitiendo ==
  /\ \A p \in Peticiones :
       peticiones[p].fase = "emite" => tokens[peticiones[p].token] = SinEmitir
  /\ \A p, r \in Peticiones :
       (peticiones[p].fase = "emite" /\ peticiones[r].fase = "emite"
          /\ peticiones[p].token = peticiones[r].token) => p = r

\* Requests that read the token unspent and have not finished.
EnVuelo(t) == {p \in Peticiones : peticiones[p].fase = "canjea" /\ peticiones[p].token = t}

\* Once a token is spent nobody starts to exchange it, so the exchanges done and
\* those under way are no more than the requests there can be.
Canjeado ==
  \A t \in Tokens :
    /\ tokens[t] \in Emitidos => (tokens[t].usado <=> canjes[t] > 0)
    /\ tokens[t] = SinEmitir => canjes[t] = 0
    /\ canjes[t] + Cardinality(EnVuelo(t)) <= Cardinality(Peticiones)

Inv == AjustesInv /\ EnrolaTipo /\ Numeradas /\ Emitiendo /\ Canjeado

LEMMA TiposDeToken == SinEmitir \notin Emitidos /\ Borrado \notin Emitidos /\ Borrado # SinEmitir
BY EnrolamientoAssumption DEF SinEmitir, Emitidos

LEMMA Finitas ==
  ASSUME NEW S, S \subseteq Peticiones
  PROVE  /\ IsFiniteSet(S) /\ Cardinality(S) \in Nat /\ Cardinality(Peticiones) \in Nat
         /\ Cardinality(S) <= Cardinality(Peticiones)
BY EnrolamientoAssumption, FS_Subset, FS_CardinalityType

LEMMA VueloBaja ==
  ASSUME NEW t, EnVuelo(t)' \subseteq EnVuelo(t)
  PROVE  /\ Cardinality(EnVuelo(t)') <= Cardinality(EnVuelo(t))
         /\ Cardinality(EnVuelo(t)) \in Nat /\ Cardinality(EnVuelo(t)') \in Nat
<1>1. EnVuelo(t) \subseteq Peticiones /\ EnVuelo(t)' \subseteq Peticiones
  BY DEF EnVuelo
<1>2. IsFiniteSet(EnVuelo(t))
  BY <1>1, Finitas
<1> QED BY <1>2, FS_Subset, FS_CardinalityType

\* Everything but an exchange that is carried through.
LEMMA CanjeadoQueda ==
  ASSUME EnrolaTipo, Canjeado, canjes' = canjes,
         \A t \in Tokens : canjes[t] = 0 \/ EnVuelo(t)' \subseteq EnVuelo(t),
         \A t \in Tokens : tokens'[t] = SinEmitir => tokens[t] = SinEmitir,
         \A t \in Tokens : tokens'[t] \in Emitidos =>
           \/ tokens[t] \in Emitidos /\ tokens'[t].usado = tokens[t].usado
           \/ tokens[t] = SinEmitir /\ tokens'[t].usado = FALSE
  PROVE  Canjeado'
<1> SUFFICES ASSUME NEW t \in Tokens
             PROVE  /\ tokens'[t] \in Emitidos => (tokens'[t].usado <=> canjes[t] > 0)
                    /\ tokens'[t] = SinEmitir => canjes[t] = 0
                    /\ canjes[t] + Cardinality(EnVuelo(t)') <= Cardinality(Peticiones)
  BY DEF Canjeado
<1>1. canjes[t] \in Nat
  BY DEF EnrolaTipo
<1>2. tokens'[t] \in Emitidos => (tokens'[t].usado <=> canjes[t] > 0)
  BY <1>1 DEF Canjeado
<1>3. canjes[t] + Cardinality(EnVuelo(t)') <= Cardinality(Peticiones)
  <2>1. CASE canjes[t] = 0
    <3>1. EnVuelo(t)' \subseteq Peticiones
      BY DEF EnVuelo
    <3> QED BY <2>1, <3>1, Finitas
  <2>2. CASE EnVuelo(t)' \subseteq EnVuelo(t)
    <3>1. Cardinality(Peticiones) \in Nat
      BY Finitas
    <3>2. canjes[t] + Cardinality(EnVuelo(t)) <= Cardinality(Peticiones)
      BY DEF Canjeado
    <3> QED BY <1>1, <2>2, <3>1, <3>2, VueloBaja
  <2> QED BY <2>1, <2>2
<1> QED BY <1>2, <1>3 DEF Canjeado

LEMMA RotaPaso ==
  ASSUME EnrolaTipo, Numeradas, NEW g \in Gateways, Existe(g), Rota(g)
  PROVE  /\ gateways' \in [Gateways -> Credenciales \cup {Nulo, Borrado}]
         /\ emitidas' \in 0..MaxCredenciales
         /\ \A x \in Gateways : Existe(x) => Existe(x)'
         /\ \A x, h \in Gateways :
              gateways'[x] \in Credenciales /\ gateways'[x] = gateways'[h] => x = h
         /\ Numeradas'
<1>1. emitidas \in Nat /\ emitidas + 1 \in Credenciales /\ emitidas' = emitidas + 1
  BY EnrolamientoAssumption DEF Rota, EnrolaTipo, Credenciales
<1>2. \A x \in Gateways : gateways'[x] = IF x = g THEN emitidas + 1 ELSE gateways[x]
  BY DEF Rota, EnrolaTipo
<1>3. \A x \in Gateways : gateways[x] \in Credenciales =>
        gateways[x] \in Nat /\ gateways[x] <= emitidas
  BY DEF Numeradas, Credenciales
<1>4. gateways' \in [Gateways -> Credenciales \cup {Nulo, Borrado}]
  BY <1>1 DEF Rota, EnrolaTipo
<1>5. emitidas' \in 0..MaxCredenciales
  BY <1>1, EnrolamientoAssumption DEF Credenciales
<1>6. \A x \in Gateways : Existe(x) => Existe(x)'
  BY <1>1, <1>2, EnrolamientoAssumption DEF Existe
<1>7. ASSUME NEW x \in Gateways, NEW h \in Gateways, gateways'[x] \in Credenciales,
             gateways'[x] = gateways'[h]
      PROVE  x = h
  <2>1. CASE x = g /\ h # g
    BY <1>1, <1>2, <1>3, <1>7, <2>1
  <2>2. CASE x # g /\ h = g
    BY <1>1, <1>2, <1>3, <1>7, <2>2
  <2>3. CASE x # g /\ h # g
    BY <1>2, <1>7, <2>3 DEF EnrolaTipo
  <2> QED BY <2>1, <2>2, <2>3
<1>8. Numeradas'
  BY <1>1, <1>2, <1>3 DEF Numeradas
<1> QED BY <1>4, <1>5, <1>6, <1>7, <1>8

\* A step that reads, or gives up: it changes a request and no table.
LEMMA LecturaPaso ==
  ASSUME Inv, UNCHANGED <<ajustesVars, enrolamientoVars>>,
         peticiones' \in [Peticiones -> Posibles],
         \A r \in Peticiones :
           peticiones'[r].fase = "edita" => peticiones'[r] = peticiones[r],
         Emitiendo',
         \A t \in Tokens : canjes[t] = 0 \/ EnVuelo(t)' \subseteq EnVuelo(t)
  PROVE  Inv'
<1>1. /\ gateways' = gateways /\ tokens' = tokens /\ emitidas' = emitidas /\ canjes' = canjes
      /\ UNCHANGED ajustesVars
  BY DEF enrolamientoVars
<1>2. AjustesInv'
  BY <1>1, AjustesQuietos DEF Inv
<1>3. EnrolaTipo' /\ Numeradas'
  BY <1>1 DEF Inv, EnrolaTipo, Numeradas, Existe
<1>4. Canjeado'
  BY <1>1, CanjeadoQueda, TiposDeToken DEF Inv
<1> QED BY <1>2, <1>3, <1>4 DEF Inv

\* The requests of EnVuelo and of Emitiendo that were there already.
LEMMA VueloQueda ==
  ASSUME \A r \in Peticiones :
           peticiones'[r].fase = "canjea" => peticiones'[r] = peticiones[r]
  PROVE  \A t \in Tokens : EnVuelo(t)' \subseteq EnVuelo(t)
BY DEF EnVuelo

LEMMA EmitiendoQueda ==
  ASSUME Emitiendo,
         \A r \in Peticiones : peticiones'[r].fase = "emite" =>
           /\ peticiones'[r] = peticiones[r]
           /\ tokens'[peticiones[r].token] = tokens[peticiones[r].token]
  PROVE  Emitiendo'
BY DEF Emitiendo

-----------------------------------------------------------------------------
(* Requests that begin.                                                    *)

LEMMA EmpiezaQueda ==
  ASSUME Inv, NEW p \in Peticiones, NEW q \in Posibles, q.fase # "edita", Empieza(p, q)
  PROVE  /\ peticiones' \in [Peticiones -> Posibles] /\ peticiones'[p] = q
         /\ peticiones[p] = Libre
         /\ \A r \in Peticiones \ {p} : peticiones'[r] = peticiones[r]
         /\ \A r \in Peticiones :
              peticiones'[r].fase = "edita" => peticiones'[r] = peticiones[r]
         /\ UNCHANGED <<ajustesVars, enrolamientoVars>> /\ tokens' = tokens
BY DEF Empieza, Inv, AjustesInv, AjustesTipo, enrolamientoVars

LEMMA IssuePaso ==
  ASSUME Inv, NEW p \in Peticiones, NEW g \in Gateways, NEW t \in Tokens, IssueToken(p, g, t)
  PROVE  Inv'
<1> DEFINE q == [fase |-> "emite", token |-> t, gateway |-> g, vencidos |-> Vencidos(g)]
<1>1. q \in Emisiones /\ q.token = t /\ Empieza(p, q)
  BY DEF Emisiones, Vencidos, Pendientes, IssueToken
<1> HIDE DEF q
<1>2. q \in Posibles /\ q.fase = "emite"
  BY <1>1, Fases DEF Posibles
<1>3. Emitiendo'
  <2>1. /\ tokens[t] = SinEmitir
        /\ \A r \in Peticiones : peticiones[r].fase = "emite" => peticiones[r].token # t
    BY DEF IssueToken
  <2> QED BY <1>1, <1>2, <2>1, EmpiezaQueda DEF Emitiendo, Inv
<1>4. \A x \in Tokens : EnVuelo(x)' \subseteq EnVuelo(x)
  BY <1>1, <1>2, EmpiezaQueda, VueloQueda
<1> QED BY <1>1, <1>2, <1>3, <1>4, EmpiezaQueda, LecturaPaso

LEMMA ExchangePaso ==
  ASSUME Inv, NEW p \in Peticiones, NEW t \in Tokens, Exchange(p, t)
  PROVE  Inv'
<1> DEFINE q == [fase |-> "canjea", token |-> t, gateway |-> tokens[t].gateway]
<1>1. q \in Canjes /\ q.token = t /\ Empieza(p, q)
  BY DEF Canjes, Emitidos, Canjeable, Exchange
<1> HIDE DEF q
<1>2. q \in Posibles /\ q.fase = "canjea"
  BY <1>1, Fases DEF Posibles
<1>3. Emitiendo'
  BY <1>1, <1>2, EmpiezaQueda, EmitiendoQueda DEF Inv
<1>4. \A x \in Tokens : canjes[x] = 0 \/ EnVuelo(x)' \subseteq EnVuelo(x)
  <2>1. canjes[t] = 0
    BY DEF Exchange, Canjeable, Inv, Canjeado, EnrolaTipo
  <2>2. ASSUME NEW x \in Tokens, x # t PROVE EnVuelo(x)' \subseteq EnVuelo(x)
    BY <1>1, <2>2, EmpiezaQueda, <1>2 DEF EnVuelo
  <2> QED BY <2>1, <2>2
<1> QED BY <1>1, <1>2, <1>3, <1>4, EmpiezaQueda, LecturaPaso

LEMMA CredencialPaso ==
  ASSUME Inv, NEW p \in Peticiones, NEW g \in Gateways,
         IssueCredential(p, g) \/ RevokeCredential(p, g)
  PROVE  Inv'
<1>1. PICK q \in Rotaciones \cup Revocaciones : Empieza(p, q)
  <2>1. [fase |-> "rota", gateway |-> g] \in Rotaciones
    BY DEF Rotaciones
  <2>2. [fase |-> "revoca", gateway |-> g, habia |-> gateways[g] # Nulo] \in Revocaciones
    BY DEF Revocaciones
  <2> QED BY <2>1, <2>2 DEF IssueCredential, RevokeCredential
<1>2. q \in Posibles /\ q.fase \in {"rota", "revoca"}
  BY <1>1, Fases DEF Posibles
<1>3. Emitiendo'
  BY <1>1, <1>2, EmpiezaQueda, EmitiendoQueda DEF Inv
<1>4. \A x \in Tokens : EnVuelo(x)' \subseteq EnVuelo(x)
  BY <1>1, <1>2, EmpiezaQueda, VueloQueda
<1> QED BY <1>1, <1>2, <1>3, <1>4, EmpiezaQueda, LecturaPaso

-----------------------------------------------------------------------------
(* Requests that end.                                                      *)

LEMMA TerminaQueda ==
  ASSUME Inv, NEW p \in Peticiones, Termina(p)
  PROVE  /\ AjustesInv'
         /\ peticiones' \in [Peticiones -> Posibles]
         /\ peticiones'[p] = Libre
         /\ \A r \in Peticiones \ {p} : peticiones'[r] = peticiones[r]
         /\ \A r \in Peticiones :
              peticiones'[r].fase # "libre" => r # p /\ peticiones'[r] = peticiones[r]
         /\ \A t \in Tokens : EnVuelo(t)' \subseteq EnVuelo(t)
<1>1. /\ peticiones' \in [Peticiones -> Posibles] /\ peticiones'[p] = Libre
      /\ \A r \in Peticiones \ {p} : peticiones'[r] = peticiones[r]
  BY DEF Termina, Inv, AjustesInv, AjustesTipo, Posibles
<1>2. \A r \in Peticiones :
        peticiones'[r].fase # "libre" => r # p /\ peticiones'[r] = peticiones[r]
  BY <1>1, Fases
<1>3. AjustesInv'
  BY <1>1, <1>2, AjustesQuietos DEF Termina, Inv
<1>4. \A t \in Tokens : EnVuelo(t)' \subseteq EnVuelo(t)
  BY <1>2, VueloQueda
<1> QED BY <1>1, <1>2, <1>3, <1>4

LEMMA CommitIssuePaso ==
  ASSUME Inv, NEW p \in Peticiones, CommitIssue(p)
  PROVE  Inv'
<1> DEFINE q == peticiones[p]
           n == [gateway |-> q.gateway, vive |-> TRUE, usado |-> FALSE]
<1>1. q \in Emisiones /\ q.fase = "emite"
  BY DeFase DEF CommitIssue, Inv, AjustesInv, AjustesTipo
<1>2. q.token \in Tokens /\ q.gateway \in Gateways /\ tokens[q.token] = SinEmitir
  BY <1>1 DEF Emisiones, Inv, Emitiendo
<1>3. n \in Emitidos /\ n.gateway = q.gateway /\ n.usado = FALSE
  BY <1>2 DEF Emitidos
<1>4. /\ Termina(p) /\ Existe(q.gateway)
      /\ gateways' = gateways /\ emitidas' = emitidas /\ canjes' = canjes
      /\ tokens' = [t \in Tokens |->
           IF t = q.token THEN n
           ELSE IF t \in q.vencidos /\ tokens[t] \in Emitidos
           THEN [tokens[t] EXCEPT !.vive = FALSE] ELSE tokens[t]]
  BY DEF CommitIssue, Emitible
<1> HIDE DEF n, q
<1>5. ASSUME NEW x \in Emitidos
      PROVE  LET v == [x EXCEPT !.vive = FALSE]
             IN  v \in Emitidos /\ v.gateway = x.gateway /\ v.usado = x.usado
  BY DEF Emitidos
<1>6. ASSUME NEW t \in Tokens
      PROVE  \/ t = q.token /\ tokens'[t] = n
             \/ t # q.token /\ tokens'[t] = tokens[t]
             \/ /\ t # q.token /\ tokens[t] \in Emitidos /\ tokens'[t] \in Emitidos
                /\ tokens'[t].gateway = tokens[t].gateway
                /\ tokens'[t].usado = tokens[t].usado
  BY <1>4, <1>5
<1>7. EnrolaTipo'
  <2>1. tokens' \in [Tokens -> Emitidos \cup {SinEmitir, Borrado}]
    BY <1>3, <1>4, <1>5 DEF Inv, EnrolaTipo
  <2>2. \A t \in Tokens : tokens'[t] \in Emitidos => gateways'[tokens'[t].gateway] # Borrado
    BY <1>3, <1>4, <1>6 DEF Inv, EnrolaTipo, Existe
  <2> QED BY <1>4, <2>1, <2>2 DEF Inv, EnrolaTipo, Existe
<1>8. Numeradas'
  BY <1>4 DEF Inv, Numeradas
<1>9. Emitiendo'
  <2>1. ASSUME NEW r \in Peticiones, peticiones'[r].fase = "emite"
        PROVE  /\ peticiones'[r] = peticiones[r]
               /\ tokens'[peticiones[r].token] = tokens[peticiones[r].token]
    <3>1. r # p /\ peticiones'[r] = peticiones[r]
      BY <1>4, <2>1, TerminaQueda
    <3>2. /\ peticiones[r].token \in Tokens /\ peticiones[r].token # q.token
          /\ tokens[peticiones[r].token] = SinEmitir
      BY <1>1, <2>1, <3>1, DeFase
         DEF q, Inv, AjustesInv, AjustesTipo, Emisiones, Emitiendo
    <3> QED BY <1>6, <3>1, <3>2, TiposDeToken
  <2> QED BY <2>1, EmitiendoQueda DEF Inv
<1>10. Canjeado'
  <2>1. \A t \in Tokens : tokens'[t] = SinEmitir => tokens[t] = SinEmitir
    BY <1>3, <1>6, TiposDeToken
  <2>2. ASSUME NEW t \in Tokens, tokens'[t] \in Emitidos
        PROVE  \/ tokens[t] \in Emitidos /\ tokens'[t].usado = tokens[t].usado
               \/ tokens[t] = SinEmitir /\ tokens'[t].usado = FALSE
    BY <1>2, <1>3, <1>6, <2>2
  <2>3. \A t \in Tokens : EnVuelo(t)' \subseteq EnVuelo(t)
    BY <1>4, TerminaQueda
  <2> QED BY <1>4, <2>1, <2>2, <2>3, CanjeadoQueda DEF Inv
<1> QED BY <1>4, <1>7, <1>8, <1>9, <1>10, TerminaQueda DEF Inv

LEMMA CommitExchangePaso ==
  ASSUME Inv, NEW p \in Peticiones, CommitExchange(p)
  PROVE  Inv'
<1> DEFINE q == peticiones[p]
<1>1. q \in Canjes /\ q.fase = "canjea"
  BY DeFase DEF CommitExchange, Inv, AjustesInv, AjustesTipo
<1> PICK x \in Tokens : x = q.token
  BY <1>1 DEF Canjes
<1>2. q.gateway \in Gateways /\ p \in EnVuelo(x)
  BY <1>1 DEF Canjes, EnVuelo
<1>3. /\ Termina(p) /\ Rota(q.gateway) /\ Existe(q.gateway) /\ tokens[x] \in Emitidos
      /\ tokens' = [tokens EXCEPT ![x].usado = TRUE]
      /\ canjes' = [canjes EXCEPT ![x] = @ + 1]
  BY DEF CommitExchange, CanjeCumplido
<1> HIDE DEF q
<1>4. /\ tokens'[x] \in Emitidos /\ tokens'[x].gateway = tokens[x].gateway
      /\ tokens'[x].usado = TRUE
      /\ \A t \in Tokens \ {x} : tokens'[t] = tokens[t]
  BY <1>2, <1>3 DEF Inv, EnrolaTipo, Emitidos
<1>5. /\ canjes[x] \in Nat /\ canjes'[x] = canjes[x] + 1
      /\ canjes' \in [Tokens -> Nat]
      /\ \A t \in Tokens \ {x} : canjes'[t] = canjes[t]
  BY <1>2, <1>3 DEF Inv, EnrolaTipo
<1>6. /\ gateways' \in [Gateways -> Credenciales \cup {Nulo, Borrado}]
      /\ emitidas' \in 0..MaxCredenciales
      /\ \A g \in Gateways : Existe(g) => Existe(g)'
      /\ \A g, h \in Gateways :
           gateways'[g] \in Credenciales /\ gateways'[g] = gateways'[h] => g = h
      /\ Numeradas'
  BY <1>2, <1>3, RotaPaso DEF Inv
<1>7. EnrolaTipo'
  <2>1. tokens' \in [Tokens -> Emitidos \cup {SinEmitir, Borrado}]
    BY <1>3, <1>4 DEF Inv, EnrolaTipo
  <2>2. \A t \in Tokens : tokens'[t] \in Emitidos =>
          tokens'[t].gateway \in Gateways /\ Existe(tokens'[t].gateway)
    BY <1>3, <1>4 DEF Inv, EnrolaTipo, Emitidos
  <2>3. \A t \in Tokens : tokens'[t] \in Emitidos => gateways'[tokens'[t].gateway] # Borrado
    BY <1>6, <2>2 DEF Existe
  <2> QED BY <1>5, <1>6, <2>1, <2>3 DEF EnrolaTipo, Existe
<1>8. Emitiendo'
  <2>1. ASSUME NEW r \in Peticiones, peticiones'[r].fase = "emite"
        PROVE  /\ peticiones'[r] = peticiones[r]
               /\ tokens'[peticiones[r].token] = tokens[peticiones[r].token]
    <3>1. peticiones'[r] = peticiones[r]
      BY <1>3, <2>1, TerminaQueda
    <3>2. peticiones[r].token \in Tokens /\ tokens[peticiones[r].token] = SinEmitir
      BY <2>1, <3>1, DeFase DEF Inv, AjustesInv, AjustesTipo, Emisiones, Emitiendo
    <3> QED BY <1>3, <1>4, <3>1, <3>2, TiposDeToken
  <2> QED BY <2>1, EmitiendoQueda DEF Inv
<1>9. Canjeado'
  <2>1. \A t \in Tokens : EnVuelo(t)' \subseteq EnVuelo(t)
    BY <1>3, TerminaQueda
  <2>2. ASSUME NEW t \in Tokens, t # x
        PROVE  /\ tokens'[t] \in Emitidos => (tokens'[t].usado <=> canjes'[t] > 0)
               /\ tokens'[t] = SinEmitir => canjes'[t] = 0
               /\ canjes'[t] + Cardinality(EnVuelo(t)') <= Cardinality(Peticiones)
    <3>1. tokens'[t] = tokens[t] /\ canjes'[t] = canjes[t] /\ canjes[t] \in Nat
      BY <1>4, <1>5, <2>2 DEF Inv, EnrolaTipo
    <3>2. /\ tokens[t] \in Emitidos => (tokens[t].usado <=> canjes[t] > 0)
          /\ tokens[t] = SinEmitir => canjes[t] = 0
          /\ canjes[t] + Cardinality(EnVuelo(t)) <= Cardinality(Peticiones)
      BY DEF Inv, Canjeado
    <3>3. Cardinality(Peticiones) \in Nat
      BY Finitas
    <3>4. canjes[t] + Cardinality(EnVuelo(t)') <= Cardinality(Peticiones)
      BY <2>1, <3>1, <3>2, <3>3, VueloBaja
    <3> QED BY <3>1, <3>2, <3>4
  <2>3. canjes'[x] + Cardinality(EnVuelo(x)') <= Cardinality(Peticiones)
    <3>1. IsFiniteSet(EnVuelo(x)) /\ Cardinality(Peticiones) \in Nat /\ Cardinality(EnVuelo(x)) \in Nat
      BY Finitas DEF EnVuelo
    <3>2. EnVuelo(x)' = EnVuelo(x) \ {p}
      BY <1>2, <1>3, TerminaQueda, Fases DEF EnVuelo
    <3>3. Cardinality(EnVuelo(x)') = Cardinality(EnVuelo(x)) - 1
      BY <1>2, <3>1, <3>2, FS_RemoveElement
    <3>4. canjes[x] + Cardinality(EnVuelo(x)) <= Cardinality(Peticiones)
      BY <1>2 DEF Inv, Canjeado
    <3> QED BY <1>5, <3>1, <3>3, <3>4
  <2>4. /\ tokens'[x] \in Emitidos => (tokens'[x].usado <=> canjes'[x] > 0)
        /\ tokens'[x] # SinEmitir
    BY <1>4, <1>5, TiposDeToken
  <2> QED BY <2>2, <2>3, <2>4 DEF Canjeado
<1> QED BY <1>3, <1>6, <1>7, <1>8, <1>9, TerminaQueda DEF Inv

\* What ends without touching a token.
LEMMA CommitCredencialPaso ==
  ASSUME Inv, NEW p \in Peticiones,
         CommitCredential(p) \/ CommitRevoke(p) \/ Rollback(p)
  PROVE  Inv'
<1>1. Termina(p) /\ tokens' = tokens /\ canjes' = canjes
  BY DEF CommitCredential, CommitRevoke, Rollback, Deshace, enrolamientoVars
<1>2. EnrolaTipo' /\ Numeradas'
  <2>1. CASE CommitCredential(p)
    <3> DEFINE g == peticiones[p].gateway
    <3>1. g \in Gateways
      BY <2>1, DeFase DEF CommitCredential, Inv, AjustesInv, AjustesTipo, Rotaciones
    <3>2. Existe(g) /\ Rota(g)
      BY <2>1 DEF CommitCredential
    <3> HIDE DEF g
    <3>3. /\ gateways' \in [Gateways -> Credenciales \cup {Nulo, Borrado}]
          /\ emitidas' \in 0..MaxCredenciales
          /\ \A x \in Gateways : Existe(x) => Existe(x)'
          /\ \A x, h \in Gateways :
               gateways'[x] \in Credenciales /\ gateways'[x] = gateways'[h] => x = h
          /\ Numeradas'
      BY <3>1, <3>2, RotaPaso DEF Inv
    <3>4. \A t \in Tokens : tokens[t] \in Emitidos => gateways'[tokens[t].gateway] # Borrado
      BY <3>3 DEF Inv, EnrolaTipo, Emitidos, Existe
    <3> QED BY <1>1, <3>3, <3>4 DEF Inv, EnrolaTipo, Existe
  <2>2. CASE CommitRevoke(p)
    <3> DEFINE g == peticiones[p].gateway
    <3>1. /\ Existe(g) /\ emitidas' = emitidas
          /\ gateways' = [gateways EXCEPT ![g] = Nulo] \/ gateways' = gateways
      BY <2>2 DEF CommitRevoke
    <3> HIDE DEF g
    <3>2. CASE gateways' = gateways
      BY <1>1, <3>1, <3>2 DEF Inv, EnrolaTipo, Numeradas, Existe
    <3>3. CASE gateways' = [gateways EXCEPT ![g] = Nulo]
      <4>1. \A x \in Gateways : gateways'[x] = IF x = g THEN Nulo ELSE gateways[x]
        BY <3>3 DEF Inv, EnrolaTipo
      <4>2. gateways' \in [Gateways -> Credenciales \cup {Nulo, Borrado}]
        BY <3>3 DEF Inv, EnrolaTipo
      <4>3. Nulo \notin Credenciales /\ Nulo # Borrado
        BY EnrolamientoAssumption DEF Credenciales
      <4>4. Numeradas'
        BY <3>1, <4>1, <4>3 DEF Inv, Numeradas
      <4>5. \A t \in Tokens : tokens[t] \in Emitidos => gateways'[tokens[t].gateway] # Borrado
        BY <4>1, <4>3 DEF Inv, EnrolaTipo, Existe, Emitidos
      <4>6. \A x, h \in Gateways :
              gateways'[x] \in Credenciales /\ gateways'[x] = gateways'[h] => x = h
        BY <4>1, <4>3 DEF Inv, EnrolaTipo
      <4> QED BY <1>1, <3>1, <4>2, <4>4, <4>5, <4>6 DEF Inv, EnrolaTipo, Existe
    <3> QED BY <3>1, <3>2, <3>3
  <2>3. CASE Rollback(p)
    BY <2>3 DEF Rollback, Deshace, enrolamientoVars, Inv, EnrolaTipo, Numeradas, Existe
  <2> QED BY <2>1, <2>2, <2>3
<1>3. Emitiendo'
  BY <1>1, TerminaQueda, EmitiendoQueda DEF Inv
<1>4. Canjeado'
  BY <1>1, TerminaQueda, CanjeadoQueda DEF Inv
<1> QED BY <1>1, <1>2, <1>3, <1>4, TerminaQueda DEF Inv

-----------------------------------------------------------------------------
(* What nobody asks for through a request of this module.                  *)

LEMMA DeletePaso ==
  ASSUME Inv, NEW g \in Gateways, DeleteGateway(g)
  PROVE  Inv'
<1>1. /\ peticiones' = peticiones /\ UNCHANGED ajustesVars
      /\ emitidas' = emitidas /\ canjes' = canjes
      /\ gateways' = [gateways EXCEPT ![g] = Borrado]
  BY DEF DeleteGateway
<1>2. \A x \in Gateways : gateways'[x] = IF x = g THEN Borrado ELSE gateways[x]
  BY <1>1 DEF Inv, EnrolaTipo
<1>3. \A t \in Tokens : tokens'[t] =
        IF tokens[t] \in Emitidos /\ tokens[t].gateway = g THEN Borrado ELSE tokens[t]
  BY DEF DeleteGateway
<1>4. Borrado \notin Credenciales
  BY EnrolamientoAssumption DEF Credenciales
<1>5. AjustesInv'
  BY <1>1, AjustesQuietos DEF Inv, AjustesInv, AjustesTipo
<1>6. EnrolaTipo'
  <2>1. gateways' \in [Gateways -> Credenciales \cup {Nulo, Borrado}]
    BY <1>1 DEF Inv, EnrolaTipo
  <2>2. tokens' \in [Tokens -> Emitidos \cup {SinEmitir, Borrado}]
    BY DEF DeleteGateway, Inv, EnrolaTipo
  <2>3. \A t \in Tokens : tokens'[t] \in Emitidos => gateways'[tokens'[t].gateway] # Borrado
    BY <1>2, <1>3, TiposDeToken DEF Inv, EnrolaTipo, Existe, Emitidos
  <2>4. \A x, h \in Gateways :
          gateways'[x] \in Credenciales /\ gateways'[x] = gateways'[h] => x = h
    BY <1>2, <1>4 DEF Inv, EnrolaTipo
  <2> QED BY <1>1, <2>1, <2>2, <2>3, <2>4 DEF Inv, EnrolaTipo, Existe
<1>7. Numeradas'
  BY <1>1, <1>2, <1>4 DEF Inv, Numeradas
<1>8. Emitiendo'
  <2>1. ASSUME NEW r \in Peticiones, peticiones[r].fase = "emite"
        PROVE  tokens'[peticiones[r].token] = tokens[peticiones[r].token]
    <3>1. peticiones[r].token \in Tokens /\ tokens[peticiones[r].token] = SinEmitir
      BY <2>1, DeFase DEF Inv, AjustesInv, AjustesTipo, Emisiones, Emitiendo
    <3> QED BY <1>3, <3>1, TiposDeToken
  <2> QED BY <1>1, <2>1, EmitiendoQueda DEF Inv
<1>9. Canjeado'
  <2>1. \A t \in Tokens : EnVuelo(t)' \subseteq EnVuelo(t)
    BY <1>1, VueloQueda
  <2>2. \A t \in Tokens :
          /\ tokens'[t] = SinEmitir => tokens[t] = SinEmitir
          /\ tokens'[t] \in Emitidos => tokens'[t] = tokens[t]
    BY <1>3, TiposDeToken
  <2> QED BY <1>1, <2>1, <2>2, CanjeadoQueda DEF Inv
<1> QED BY <1>5, <1>6, <1>7, <1>8, <1>9 DEF Inv

LEMMA VencePaso ==
  ASSUME Inv, NEW x \in Tokens, Vence(x)
  PROVE  Inv'
<1>1. /\ peticiones' = peticiones /\ UNCHANGED ajustesVars
      /\ emitidas' = emitidas /\ canjes' = canjes /\ gateways' = gateways
      /\ tokens' = [tokens EXCEPT ![x].vive = FALSE] /\ tokens[x] \in Emitidos
  BY DEF Vence, Canjeable
<1>2. /\ tokens'[x] \in Emitidos /\ tokens'[x].gateway = tokens[x].gateway
      /\ tokens'[x].usado = tokens[x].usado
      /\ \A t \in Tokens \ {x} : tokens'[t] = tokens[t]
  BY <1>1 DEF Inv, EnrolaTipo, Emitidos
<1>3. AjustesInv'
  BY <1>1, AjustesQuietos DEF Inv, AjustesInv, AjustesTipo
<1>4. EnrolaTipo'
  <2>1. tokens' \in [Tokens -> Emitidos \cup {SinEmitir, Borrado}]
    BY <1>1, <1>2 DEF Inv, EnrolaTipo
  <2>2. \A t \in Tokens : tokens'[t] \in Emitidos => gateways'[tokens'[t].gateway] # Borrado
    BY <1>1, <1>2 DEF Inv, EnrolaTipo, Existe
  <2> QED BY <1>1, <2>1, <2>2 DEF Inv, EnrolaTipo, Existe
<1>5. Numeradas'
  BY <1>1 DEF Inv, Numeradas
<1>6. Emitiendo'
  <2>1. ASSUME NEW r \in Peticiones, peticiones[r].fase = "emite"
        PROVE  tokens'[peticiones[r].token] = tokens[peticiones[r].token]
    <3>1. peticiones[r].token \in Tokens /\ tokens[peticiones[r].token] = SinEmitir
      BY <2>1, DeFase DEF Inv, AjustesInv, AjustesTipo, Emisiones, Emitiendo
    <3> QED BY <1>1, <1>2, <3>1, TiposDeToken
  <2> QED BY <1>1, <2>1, EmitiendoQueda DEF Inv
<1>7. Canjeado'
  <2>1. \A t \in Tokens : EnVuelo(t)' \subseteq EnVuelo(t)
    BY <1>1, VueloQueda
  <2>2. \A t \in Tokens : tokens'[t] = SinEmitir => tokens[t] = SinEmitir
    BY <1>2, TiposDeToken
  <2>3. \A t \in Tokens : tokens'[t] \in Emitidos =>
          tokens[t] \in Emitidos /\ tokens'[t].usado = tokens[t].usado
    BY <1>1, <1>2
  <2> QED BY <1>1, <2>1, <2>2, <2>3, CanjeadoQueda DEF Inv
<1> QED BY <1>3, <1>4, <1>5, <1>6, <1>7 DEF Inv

\* Requests about the settings, and the restart that loses them all.
LEMMA AjustesFases ==
  ASSUME AjustesInv, AjustesNext
  PROVE  \A r \in Peticiones :
           peticiones'[r].fase \in {"canjea", "emite"} => peticiones'[r] = peticiones[r]
<1>1. peticiones \in [Peticiones -> Posibles]
  BY DEF AjustesInv, AjustesTipo
<1>2. CASE Reinicia
  BY <1>2, Fases DEF Reinicia
<1>3. ASSUME NEW p \in Peticiones, NEW c \in Claves, NEW n, NEW e, Edita(p, c, n, e)
      PROVE  \A r \in Peticiones :
               peticiones'[r].fase \in {"canjea", "emite"} => peticiones'[r] = peticiones[r]
  BY <1>1, <1>3 DEF Edita
<1>4. ASSUME NEW p \in Peticiones, NEW c \in Claves,
             CreateAjuste(p, c) \/ UpdateAjuste(p, c) \/ DeleteAjuste(p, c)
      PROVE  \A r \in Peticiones :
               peticiones'[r].fase \in {"canjea", "emite"} => peticiones'[r] = peticiones[r]
  BY <1>3, <1>4 DEF CreateAjuste, UpdateAjuste, DeleteAjuste
<1>5. ASSUME NEW p \in Peticiones, peticiones' = [peticiones EXCEPT ![p] = Libre]
      PROVE  \A r \in Peticiones :
               peticiones'[r].fase \in {"canjea", "emite"} => peticiones'[r] = peticiones[r]
  BY <1>1, <1>5, Fases
<1>6. ASSUME NEW p \in Peticiones, NEW c, peticiones' = Huerfanas(p, c)
      PROVE  \A r \in Peticiones :
               peticiones'[r].fase \in {"canjea", "emite"} => peticiones'[r] = peticiones[r]
  <2> SUFFICES ASSUME NEW r \in Peticiones, peticiones[r].fase = "edita"
               PROVE  [peticiones[r] EXCEPT !.suya = FALSE].fase = "edita"
    BY <1>6, Fases DEF Huerfanas
  <2>1. peticiones[r] \in Ediciones
    BY <1>1, DeFase
  <2> QED BY <2>1 DEF Ediciones
<1>7. ASSUME NEW p \in Peticiones, CommitAjuste(p) \/ RollbackAjuste(p)
      PROVE  \A r \in Peticiones :
               peticiones'[r].fase \in {"canjea", "emite"} => peticiones'[r] = peticiones[r]
  BY <1>5, <1>6, <1>7 DEF CommitAjuste, RollbackAjuste
<1> QED BY <1>2, <1>4, <1>7 DEF AjustesNext

LEMMA AjustesEnrola ==
  ASSUME Inv, AjustesNext, UNCHANGED enrolamientoVars
  PROVE  Inv'
<1>1. \A r \in Peticiones :
        peticiones'[r].fase \in {"canjea", "emite"} => peticiones'[r] = peticiones[r]
  BY AjustesFases DEF Inv
<1>2. /\ gateways' = gateways /\ tokens' = tokens /\ emitidas' = emitidas /\ canjes' = canjes
  BY DEF enrolamientoVars
<1>3. AjustesInv'
  BY AjustesPaso DEF Inv
<1>4. EnrolaTipo' /\ Numeradas'
  BY <1>2 DEF Inv, EnrolaTipo, Numeradas, Existe
<1>5. Emitiendo'
  BY <1>1, <1>2, EmitiendoQueda DEF Inv
<1>6. Canjeado'
  BY <1>1, <1>2, VueloQueda, CanjeadoQueda, TiposDeToken DEF Inv
<1> QED BY <1>3, <1>4, <1>5, <1>6 DEF Inv

-----------------------------------------------------------------------------
LEMMA Paso ==
  ASSUME Inv, [Next]_vars
  PROVE  Inv'
<1>1. CASE UNCHANGED vars
  <2>1. /\ UNCHANGED <<ajustesVars, enrolamientoVars>> /\ peticiones' = peticiones
        /\ tokens' = tokens
    BY <1>1 DEF vars, ajustesVars, enrolamientoVars
  <2>2. Emitiendo' /\ \A t \in Tokens : EnVuelo(t)' \subseteq EnVuelo(t)
    BY <2>1, EmitiendoQueda, VueloQueda DEF Inv
  <2> QED BY <2>1, <2>2, LecturaPaso DEF Inv, AjustesInv, AjustesTipo
<1>2. CASE Enrola
  BY <1>2, CommitIssuePaso, CommitExchangePaso, CommitCredencialPaso, IssuePaso,
     ExchangePaso, CredencialPaso, DeletePaso, VencePaso DEF Enrola
<1>3. CASE AjustesNext /\ UNCHANGED enrolamientoVars
  BY <1>3, AjustesEnrola
<1> QED BY <1>1, <1>2, <1>3 DEF Next

-----------------------------------------------------------------------------
(* VivosAcotados.                                                          *)

\* Requests that are issuing a token for a gateway and will leave these alive.
Dejan(g, A) ==
  {p \in Peticiones :
     /\ peticiones[p].fase = "emite" /\ peticiones[p].gateway = g
     /\ A \subseteq Pendientes(g) \ peticiones[p].vencidos}

\* Tokens that a request leaves alive were put on file while it was under way, each
\* by another request that was not there any more.
Vivos ==
  \A g \in Gateways :
    /\ IsFiniteSet(Pendientes(g)) /\ Cardinality(Pendientes(g)) <= Cardinality(Peticiones)
    /\ \A A \in SUBSET Pendientes(g) : Dejan(g, A) # {} =>
         Cardinality(A) + Cardinality(Dejan(g, A)) <= Cardinality(Peticiones)

LEMMA CuentaSube ==
  ASSUME NEW S, NEW T, IsFiniteSet(T), S \subseteq T
  PROVE  /\ IsFiniteSet(S) /\ Cardinality(S) \in Nat /\ Cardinality(T) \in Nat
         /\ Cardinality(S) <= Cardinality(T)
BY FS_Subset, FS_CardinalityType

LEMMA VivosQueda ==
  ASSUME Vivos, NEW g \in Gateways, Pendientes(g)' \subseteq Pendientes(g),
         NEW A \in SUBSET (Pendientes(g)'), Dejan(g, A)' # {}, Dejan(g, A)' \subseteq Dejan(g, A)
  PROVE  Cardinality(A) + Cardinality(Dejan(g, A)') <= Cardinality(Peticiones)
<1>1. A \in SUBSET Pendientes(g) /\ Dejan(g, A) # {}
  OBVIOUS
<1>2. Cardinality(A) + Cardinality(Dejan(g, A)) <= Cardinality(Peticiones)
  BY <1>1 DEF Vivos
<1>3. IsFiniteSet(A) /\ Cardinality(A) \in Nat
  BY <1>1, CuentaSube DEF Vivos
<1>4. Dejan(g, A) \subseteq Peticiones /\ IsFiniteSet(Dejan(g, A)) /\ Cardinality(Peticiones) \in Nat
  BY Finitas DEF Dejan
<1>5. /\ Cardinality(Dejan(g, A)') \in Nat /\ Cardinality(Dejan(g, A)) \in Nat
      /\ Cardinality(Dejan(g, A)') <= Cardinality(Dejan(g, A))
  BY <1>4, CuentaSube
<1> QED BY <1>2, <1>3, <1>4, <1>5

\* Nothing is issued: tokens go, and so do requests.
LEMMA VivosSinEmitir ==
  ASSUME Vivos, \A g \in Gateways : Pendientes(g)' \subseteq Pendientes(g),
         \A r \in Peticiones : peticiones'[r].fase = "emite" => peticiones'[r] = peticiones[r]
  PROVE  Vivos'
<1> SUFFICES ASSUME NEW g \in Gateways
             PROVE  /\ IsFiniteSet(Pendientes(g)')
                    /\ Cardinality(Pendientes(g)') <= Cardinality(Peticiones)
                    /\ \A A \in SUBSET (Pendientes(g)') : Dejan(g, A)' # {} =>
                         Cardinality(A) + Cardinality(Dejan(g, A)') <= Cardinality(Peticiones)
  BY DEF Vivos
<1>1. Cardinality(Peticiones) \in Nat
  BY Finitas
<1>2. IsFiniteSet(Pendientes(g)') /\ Cardinality(Pendientes(g)') <= Cardinality(Peticiones)
  BY <1>1, CuentaSube DEF Vivos
<1>3. \A A : Dejan(g, A)' \subseteq Dejan(g, A)
  BY DEF Dejan
<1> QED BY <1>2, <1>3, VivosQueda

\* Only what is on file alive is pending.
LEMMA PendientesBajan ==
  ASSUME \A t \in Tokens : tokens'[t] \in Emitidos =>
           /\ tokens[t] \in Emitidos /\ tokens'[t].gateway = tokens[t].gateway
           /\ tokens'[t].vive => tokens[t].vive
           /\ tokens[t].usado => tokens'[t].usado
  PROVE  \A g \in Gateways : Pendientes(g)' \subseteq Pendientes(g)
BY DEF Pendientes, Canjeable

LEMMA VivosIssue ==
  ASSUME Inv, Vivos, NEW p \in Peticiones, NEW h \in Gateways, NEW t \in Tokens,
         IssueToken(p, h, t)
  PROVE  Vivos'
<1> DEFINE q == [fase |-> "emite", token |-> t, gateway |-> h, vencidos |-> Pendientes(h)]
<1>1. q \in Emisiones /\ q.gateway = h /\ q.vencidos = Pendientes(h) /\ Empieza(p, q)
  BY DEF Emisiones, Vencidos, Pendientes, IssueToken
<1> HIDE DEF q
<1>2. q \in Posibles /\ q.fase = "emite"
  BY <1>1, Fases DEF Posibles
<1>3. /\ peticiones'[p] = q /\ tokens' = tokens
      /\ \A r \in Peticiones \ {p} : peticiones'[r] = peticiones[r]
  BY <1>1, <1>2, EmpiezaQueda
<1> SUFFICES ASSUME NEW g \in Gateways
             PROVE  /\ IsFiniteSet(Pendientes(g)')
                    /\ Cardinality(Pendientes(g)') <= Cardinality(Peticiones)
                    /\ \A A \in SUBSET (Pendientes(g)') : Dejan(g, A)' # {} =>
                         Cardinality(A) + Cardinality(Dejan(g, A)') <= Cardinality(Peticiones)
  BY DEF Vivos
<1>4. Pendientes(g)' = Pendientes(g)
  BY <1>3 DEF Pendientes, Canjeable
<1>5. ASSUME NEW A \in SUBSET (Pendientes(g)'), Dejan(g, A)' # {}
      PROVE  Cardinality(A) + Cardinality(Dejan(g, A)') <= Cardinality(Peticiones)
  <2>1. CASE A = {}
    <3>1. Cardinality(A) = 0
      BY <2>1, FS_EmptySet
    <3>2. Dejan(g, A)' \subseteq Peticiones
      BY DEF Dejan
    <3> QED BY <3>1, <3>2, Finitas
  <2>2. CASE A # {}
    <3>1. Dejan(g, A)' \subseteq Dejan(g, A)
      BY <1>1, <1>3, <1>4, <2>2 DEF Dejan
    <3> QED BY <1>4, <1>5, <3>1, VivosQueda
  <2> QED BY <2>1, <2>2
<1> QED BY <1>4, <1>5 DEF Vivos

LEMMA VivosCommit ==
  ASSUME Inv, Vivos, NEW p \in Peticiones, CommitIssue(p)
  PROVE  Vivos'
<1> DEFINE q == peticiones[p]
<1>1. q \in Emisiones /\ q.fase = "emite"
  BY DeFase DEF CommitIssue, Inv, AjustesInv, AjustesTipo
<1> PICK t \in Tokens, h \in Gateways : t = q.token /\ h = q.gateway
  BY <1>1 DEF Emisiones
<1>2. tokens[t] = SinEmitir
  BY <1>1 DEF Inv, Emitiendo
<1>3. /\ Termina(p)
      /\ tokens'[t] = [gateway |-> h, vive |-> TRUE, usado |-> FALSE]
      /\ \A x \in Tokens \ {t} : tokens'[x] =
           IF x \in q.vencidos /\ tokens[x] \in Emitidos
           THEN [tokens[x] EXCEPT !.vive = FALSE] ELSE tokens[x]
  BY DEF CommitIssue
<1>4. \A r \in Peticiones : peticiones'[r].fase = "emite" => r # p /\ peticiones'[r] = peticiones[r]
  BY <1>3, TerminaQueda
<1> HIDE DEF q
<1>5. ASSUME NEW x \in Emitidos
      PROVE  [x EXCEPT !.vive = FALSE].vive = FALSE
  BY DEF Emitidos
<1>6. /\ \A g \in Gateways \ {h} : Pendientes(g)' \subseteq Pendientes(g)
      /\ Pendientes(h)' \subseteq (Pendientes(h) \ q.vencidos) \cup {t}
      /\ t \notin Pendientes(h)
  <2>1. ASSUME NEW g \in Gateways, NEW x \in Tokens, x \in Pendientes(g)', x # t
        PROVE  x \in Pendientes(g) \ q.vencidos
    BY <1>3, <1>5, <2>1 DEF Pendientes, Canjeable
  <2>2. \A g \in Gateways \ {h} : t \notin Pendientes(g)'
    BY <1>3 DEF Pendientes, Canjeable
  <2>3. t \notin Pendientes(h)
    BY <1>2, TiposDeToken DEF Pendientes, Canjeable
  <2>4. \A g \in Gateways : Pendientes(g)' \subseteq Tokens
    BY DEF Pendientes
  <2> QED BY <2>1, <2>2, <2>3, <2>4
<1> SUFFICES ASSUME NEW g \in Gateways
             PROVE  /\ IsFiniteSet(Pendientes(g)')
                    /\ Cardinality(Pendientes(g)') <= Cardinality(Peticiones)
                    /\ \A A \in SUBSET (Pendientes(g)') : Dejan(g, A)' # {} =>
                         Cardinality(A) + Cardinality(Dejan(g, A)') <= Cardinality(Peticiones)
  BY DEF Vivos
<1>7. Cardinality(Peticiones) \in Nat
  BY Finitas
<1>8. CASE g # h
  <2>1. Pendientes(g)' \subseteq Pendientes(g)
    BY <1>6, <1>8
  <2>2. \A A : Dejan(g, A)' \subseteq Dejan(g, A)
    BY <1>4, <2>1 DEF Dejan
  <2>3. IsFiniteSet(Pendientes(g)') /\ Cardinality(Pendientes(g)') <= Cardinality(Peticiones)
    BY <1>7, <2>1, CuentaSube DEF Vivos
  <2> QED BY <2>1, <2>2, <2>3, VivosQueda
<1>9. CASE g = h
  \* What p leaves alive, with p itself, fits in the requests there can be.
  <2>1. ASSUME NEW B \in SUBSET (Pendientes(h) \ q.vencidos)
        PROVE  /\ IsFiniteSet(B) /\ Cardinality(B) \in Nat
               /\ p \in Dejan(h, B) /\ IsFiniteSet(Dejan(h, B)) /\ Cardinality(Dejan(h, B)) \in Nat
               /\ Cardinality(B) + Cardinality(Dejan(h, B)) <= Cardinality(Peticiones)
               /\ Cardinality(Dejan(h, B) \ {p}) = Cardinality(Dejan(h, B)) - 1
               /\ Cardinality(Dejan(h, B)) # 0
    <3>1. IsFiniteSet(B) /\ Cardinality(B) \in Nat
      BY CuentaSube DEF Vivos
    <3>2. p \in Dejan(h, B)
      BY <1>1 DEF Dejan, q
    <3>3. Dejan(h, B) \subseteq Peticiones /\ IsFiniteSet(Dejan(h, B)) /\ Cardinality(Dejan(h, B)) \in Nat
      BY Finitas DEF Dejan
    <3>4. Cardinality(B) + Cardinality(Dejan(h, B)) <= Cardinality(Peticiones)
      BY <3>2 DEF Vivos
    <3>5. Cardinality(Dejan(h, B) \ {p}) = Cardinality(Dejan(h, B)) - 1
      BY <3>2, <3>3, FS_RemoveElement
    <3>6. Cardinality(Dejan(h, B)) # 0
      BY <3>2, <3>3, FS_EmptySet
    <3> QED BY <3>1, <3>2, <3>3, <3>4, <3>5, <3>6
  <2>2. IsFiniteSet(Pendientes(g)') /\ Cardinality(Pendientes(g)') <= Cardinality(Peticiones)
    <3> DEFINE B == Pendientes(h) \ q.vencidos
               C == B \cup {t}
    <3>1. /\ IsFiniteSet(B) /\ Cardinality(B) \in Nat
          /\ Cardinality(B) + 1 <= Cardinality(Peticiones)
      <4>1. B \in SUBSET (Pendientes(h) \ q.vencidos)
        OBVIOUS
      <4> HIDE DEF B
      <4>2. /\ IsFiniteSet(B) /\ Cardinality(B) \in Nat
            /\ Cardinality(Dejan(h, B)) \in Nat \ {0}
            /\ Cardinality(B) + Cardinality(Dejan(h, B)) <= Cardinality(Peticiones)
        BY <2>1, <4>1
      <4> QED BY <1>7, <4>2
    <3>2. Pendientes(g)' \subseteq C /\ t \notin B
      BY <1>6, <1>9
    <3> HIDE DEF B
    <3>3. IsFiniteSet(C) /\ Cardinality(C) = Cardinality(B) + 1
      BY <3>1, <3>2, FS_AddElement
    <3> HIDE DEF C
    <3>4. IsFiniteSet(Pendientes(g)') /\ Cardinality(Pendientes(g)') <= Cardinality(C)
          /\ Cardinality(Pendientes(g)') \in Nat
      BY <3>2, <3>3, CuentaSube
    <3> QED BY <1>7, <3>1, <3>3, <3>4
  <2>3. ASSUME NEW A \in SUBSET (Pendientes(g)'), Dejan(g, A)' # {}
        PROVE  Cardinality(A) + Cardinality(Dejan(g, A)') <= Cardinality(Peticiones)
    <3>1. CASE t \notin A
      <4>1. A \subseteq Pendientes(h)
        BY <1>6, <1>9, <2>3, <3>1
      <4>2. Dejan(g, A)' \subseteq Dejan(h, A)
        BY <1>4, <1>9, <4>1 DEF Dejan
      <4>3. /\ Cardinality(A) + Cardinality(Dejan(h, A)) <= Cardinality(Peticiones)
            /\ IsFiniteSet(A) /\ Cardinality(A) \in Nat
        BY <2>3, <4>1, <4>2, CuentaSube DEF Vivos
      <4>4. IsFiniteSet(Dejan(h, A))
        BY Finitas DEF Dejan
      <4>5. /\ Cardinality(Dejan(g, A)') <= Cardinality(Dejan(h, A))
            /\ Cardinality(Dejan(g, A)') \in Nat /\ Cardinality(Dejan(h, A)) \in Nat
        BY <4>2, <4>4, CuentaSube
      <4> QED BY <1>7, <4>3, <4>5
    <3>2. CASE t \in A
      <4> DEFINE B == A \ {t}
      <4>1. B \in SUBSET (Pendientes(h) \ q.vencidos)
        BY <1>6, <1>9, <2>3
      <4>2. Dejan(g, A)' \subseteq Dejan(h, B) \ {p}
        BY <1>4, <1>9, <4>1 DEF Dejan
      <4>3. A = B \cup {t} /\ t \notin B
        BY <3>2
      <4> HIDE DEF B
      <4>4. /\ IsFiniteSet(B) /\ Cardinality(B) \in Nat
            /\ IsFiniteSet(Dejan(h, B)) /\ Cardinality(Dejan(h, B)) \in Nat
            /\ Cardinality(B) + Cardinality(Dejan(h, B)) <= Cardinality(Peticiones)
            /\ Cardinality(Dejan(h, B) \ {p}) = Cardinality(Dejan(h, B)) - 1
        BY <2>1, <4>1
      <4>5. Cardinality(A) = Cardinality(B) + 1
        BY <4>3, <4>4, FS_AddElement
      <4>6. IsFiniteSet(Dejan(h, B) \ {p})
        BY <4>4, FS_RemoveElement
      <4>7. /\ Cardinality(Dejan(g, A)') <= Cardinality(Dejan(h, B) \ {p})
            /\ Cardinality(Dejan(g, A)') \in Nat
        BY <4>2, <4>6, CuentaSube
      <4> QED BY <1>7, <4>4, <4>5, <4>7
    <3> QED BY <3>1, <3>2
  <2> QED BY <2>2, <2>3
<1> QED BY <1>8, <1>9

LEMMA VivosPaso ==
  ASSUME Inv, Vivos, [Next]_vars
  PROVE  Vivos'
<1>1. ASSUME tokens' = tokens,
             \A r \in Peticiones : peticiones'[r].fase = "emite" => peticiones'[r] = peticiones[r]
      PROVE  Vivos'
  <2>1. \A g \in Gateways : Pendientes(g)' \subseteq Pendientes(g)
    BY <1>1, PendientesBajan
  <2> QED BY <1>1, <2>1, VivosSinEmitir
<1>2. CASE UNCHANGED vars
  BY <1>1, <1>2 DEF vars
<1>3. CASE AjustesNext /\ UNCHANGED enrolamientoVars
  BY <1>1, <1>3, AjustesFases DEF Inv, enrolamientoVars
<1>4. ASSUME NEW p \in Peticiones, NEW q \in Canjes \cup Rotaciones \cup Revocaciones, Empieza(p, q)
      PROVE  Vivos'
  <2>1. q \in Posibles /\ q.fase \in {"canjea", "rota", "revoca"}
    BY <1>4, Fases DEF Posibles
  <2>2. /\ tokens' = tokens
        /\ \A r \in Peticiones : peticiones'[r].fase = "emite" => peticiones'[r] = peticiones[r]
    BY <1>4, <2>1, EmpiezaQueda
  <2> QED BY <1>1, <2>2
<1>5. ASSUME NEW p \in Peticiones, NEW t \in Tokens, Exchange(p, t) PROVE Vivos'
  <2>1. [fase |-> "canjea", token |-> t, gateway |-> tokens[t].gateway] \in Canjes
    BY <1>5 DEF Canjes, Emitidos, Canjeable, Exchange
  <2> QED BY <1>4, <1>5, <2>1 DEF Exchange
<1>6. ASSUME NEW p \in Peticiones, NEW g \in Gateways,
             IssueCredential(p, g) \/ RevokeCredential(p, g)
      PROVE  Vivos'
  <2>1. [fase |-> "rota", gateway |-> g] \in Rotaciones
    BY DEF Rotaciones
  <2>2. [fase |-> "revoca", gateway |-> g, habia |-> gateways[g] # Nulo] \in Revocaciones
    BY DEF Revocaciones
  <2> QED BY <1>4, <1>6, <2>1, <2>2 DEF IssueCredential, RevokeCredential
<1>7. ASSUME NEW p \in Peticiones, CommitCredential(p) \/ CommitRevoke(p) \/ Rollback(p)
      PROVE  Vivos'
  <2>1. Termina(p) /\ tokens' = tokens
    BY <1>7 DEF CommitCredential, CommitRevoke, Rollback, Deshace, enrolamientoVars
  <2> QED BY <1>1, <2>1, TerminaQueda
<1>8. ASSUME NEW p \in Peticiones, CommitExchange(p) PROVE Vivos'
  <2>1. /\ Termina(p) /\ tokens[peticiones[p].token] \in Emitidos
        /\ tokens' = [tokens EXCEPT ![peticiones[p].token].usado = TRUE]
    BY <1>8 DEF CommitExchange, CanjeCumplido
  <2>2. \A t \in Tokens : tokens'[t] \in Emitidos =>
          /\ tokens[t] \in Emitidos /\ tokens'[t].gateway = tokens[t].gateway
          /\ tokens'[t].vive => tokens[t].vive
          /\ tokens[t].usado => tokens'[t].usado
    BY <2>1 DEF Inv, EnrolaTipo, Emitidos
  <2>3. \A r \in Peticiones : peticiones'[r].fase = "emite" => peticiones'[r] = peticiones[r]
    BY <2>1, TerminaQueda
  <2> QED BY <2>2, <2>3, PendientesBajan, VivosSinEmitir
<1>9. ASSUME NEW g \in Gateways, DeleteGateway(g) PROVE Vivos'
  <2>1. \A t \in Tokens : tokens'[t] \in Emitidos => tokens'[t] = tokens[t]
    BY <1>9, TiposDeToken DEF DeleteGateway
  <2>2. peticiones' = peticiones
    BY <1>9 DEF DeleteGateway
  <2> QED BY <2>1, <2>2, PendientesBajan, VivosSinEmitir
<1>10. ASSUME NEW x \in Tokens, Vence(x) PROVE Vivos'
  <2>1. \A t \in Tokens : tokens'[t] \in Emitidos =>
          /\ tokens[t] \in Emitidos /\ tokens'[t].gateway = tokens[t].gateway
          /\ tokens'[t].vive => tokens[t].vive
          /\ tokens[t].usado => tokens'[t].usado
    BY <1>10 DEF Vence, Canjeable, Inv, EnrolaTipo, Emitidos
  <2>2. peticiones' = peticiones
    BY <1>10 DEF Vence
  <2> QED BY <2>1, <2>2, PendientesBajan, VivosSinEmitir
<1> QED BY <1>2, <1>3, <1>5, <1>6, <1>7, <1>8, <1>9, <1>10, VivosIssue, VivosCommit
        DEF Next, Enrola

-----------------------------------------------------------------------------
LEMMA Comienzo ==
  ASSUME Init
  PROVE  Inv
<1>1. \A p \in Peticiones : peticiones[p].fase = "libre"
  BY Fases DEF Init
<1>2. AjustesInv
  <2>1. \A s \in BOOLEAN : [valor |-> Nulo, es_secreto |-> s] \in Filas
    BY DEF Filas, Textos
  <2>2. AjustesTipo
    BY <2>1 DEF Init, AjustesInit, AjustesTipo, Posibles
  <2>3. SelladosSegunMarca
    BY DEF Init, AjustesInit, SelladosSegunMarca
  <2> QED BY <1>1, <2>2, <2>3 DEF AjustesInv, PorEscribir
<1>3. EnrolaTipo /\ Numeradas
  BY EnrolamientoAssumption, TiposDeToken DEF Init, EnrolaTipo, Numeradas, Credenciales
<1>4. Emitiendo
  BY <1>1 DEF Emitiendo
<1>5. Canjeado
  <2>1. \A t \in Tokens : canjes[t] = 0 /\ tokens[t] \notin Emitidos
    BY TiposDeToken DEF Init
  <2>2. \A t \in Tokens : EnVuelo(t) \subseteq Peticiones
    BY DEF EnVuelo
  <2> QED BY <2>1, <2>2, Finitas DEF Canjeado
<1> QED BY <1>2, <1>3, <1>4, <1>5 DEF Inv

LEMMA Siempre == Spec => []Inv
BY Comienzo, Paso, PTL DEF Spec

\* Settings, requests, gateways and tokens have their types, the gateway of every
\* token is there, and no two gateways share a credential.
THEOREM TipoCorrecto == Spec => []TypeOK
<1>1. Inv => TypeOK
  BY DEF Inv, AjustesInv, AjustesTipo, EnrolaTipo, TypeOK, Posibles
<1> QED BY <1>1, Siempre, PTL

\* However edits, restarts with another key and enrolments interleave, a row that no
\* request wrote over unread is sealed exactly if it is marked secret.
THEOREM Sellados_segun_marca == Spec => []SelladosSegunMarca
<1>1. Inv => SelladosSegunMarca
  BY DEF Inv, AjustesInv
<1> QED BY <1>1, Siempre, PTL

\* A token is spent exactly if it put a credential on file, and no more often than
\* the server can be busy with requests.
THEOREM Canje_entero == Spec => []CanjeEntero
<1>1. ASSUME Inv PROVE CanjeEntero
  <2> SUFFICES ASSUME NEW t \in Tokens, tokens[t] \in Emitidos
               PROVE  /\ tokens[t].usado <=> canjes[t] > 0
                      /\ canjes[t] <= Cardinality(Peticiones)
    BY DEF CanjeEntero
  <2>1. /\ canjes[t] \in Nat /\ (tokens[t].usado <=> canjes[t] > 0)
        /\ canjes[t] + Cardinality(EnVuelo(t)) <= Cardinality(Peticiones)
    BY <1>1 DEF Inv, EnrolaTipo, Canjeado
  <2>2. Cardinality(EnVuelo(t)) \in Nat /\ Cardinality(Peticiones) \in Nat
    BY Finitas DEF EnVuelo
  <2> QED BY <2>1, <2>2
<1> QED BY <1>1, Siempre, PTL

\* Issuing expires what is pending, so a gateway has no more tokens alive than there
\* can be requests issuing one at the same time.
THEOREM Vivos_acotados == Spec => []VivosAcotados
<1>1. ASSUME Init PROVE Vivos
  <2>1. \A g \in Gateways : Pendientes(g) = {}
    BY <1>1, TiposDeToken DEF Init, Pendientes, Canjeable
  <2>2. \A g, A : Dejan(g, A) = {}
    BY <1>1, Fases DEF Init, Dejan
  <2> QED BY <2>1, <2>2, FS_EmptySet, Finitas DEF Vivos
<1>2. Inv /\ Vivos /\ [Next]_vars => Vivos'
  BY VivosPaso
<1>3. Vivos => VivosAcotados
  BY DEF Vivos, VivosAcotados
<1> QED BY <1>1, <1>2, <1>3, Siempre, PTL DEF Spec
=============================================================================
