--------------------------- MODULE Sessao_proofs ---------------------------
(* Proofs about Sessao, for all bounds.                                    *)
EXTENDS Sessao, SequenceTheorems, FiniteSetTheorems, TLAPS

USE LimitesOK

(* What the three moves of the Navigator do to a non-empty stack. *)
LEMMA Troca ==
    ASSUME pilha \in Seq(Rota), Len(pilha) >= 1, NEW r \in Rota,
           pilha' = Append(Abaixo, r)
    PROVE  /\ pilha' \in Seq(Rota)
           /\ Len(pilha') = Len(pilha)
           /\ \A i \in 1 .. Len(pilha) : pilha'[i] = IF i = Len(pilha) THEN r ELSE pilha[i]
<1>1. /\ Abaixo \in Seq(Rota) /\ Len(Abaixo) = Len(pilha) - 1
      /\ \A i \in 1 .. Len(pilha) - 1 : Abaixo[i] = pilha[i]
  <2> DEFINE n == Len(pilha) - 1
  <2>1. n \in Nat /\ n - 1 + 1 = n /\ \A i \in 1 .. n : pilha[i] \in Rota
    OBVIOUS
  <2>2. Abaixo = SubSeq(pilha, 1, n)
    BY DEF Abaixo
  <2> HIDE DEF n
  <2>3. /\ Abaixo \in Seq(Rota)
        /\ Len(Abaixo) = n
        /\ \A i \in 1 .. n : Abaixo[i] = pilha[i]
    BY <2>1, <2>2, SubSeqProperties
  <2> QED BY <2>3 DEF n
<1> QED BY <1>1

LEMMA PoeTopo ==
    ASSUME pilha \in Seq(Rota), NEW r \in Rota, pilha' = Append(pilha, r)
    PROVE  /\ pilha' \in Seq(Rota)
           /\ Len(pilha') = Len(pilha) + 1
           /\ \A i \in 1 .. Len(pilha) : pilha'[i] = pilha[i]
           /\ pilha'[Len(pilha) + 1] = r
OBVIOUS

LEMMA Tirado ==
    ASSUME pilha \in Seq(Rota), Len(pilha) > 1, pilha' = Abaixo
    PROVE  /\ pilha' \in Seq(Rota)
           /\ Len(pilha') = Len(pilha) - 1
           /\ \A i \in 1 .. Len(pilha) - 1 : pilha'[i] = pilha[i]
BY DEF Abaixo

(* The part of the invariant about pages, their handlers and their alerts. *)
InvRotas == IdsDistintos /\ DonoAlcancavel /\ AlertaSobreAlgo /\ AlertaSobreDono

(* Replacing the top route keeps it. *)
LEMMA TrocaMantem ==
    ASSUME TypeOK, InvRotas, NEW r \in Rota, r.pagina # "alerta",
           r.id # 0 => r.pagina \in {"login", "cadastro"} /\ r.id \notin IdsVivos,
           NEW resto \in SUBSET ops, ops' = resto, PushReplacement(r, resto)
    PROVE  InvRotas'
<1>1. pilha \in Seq(Rota) /\ Len(pilha) \in Nat /\ Len(pilha) >= 1
  BY DEF TypeOK
<1>2. /\ Len(pilha') = Len(pilha)
      /\ \A i \in Indices : pilha'[i] = IF i = Len(pilha) THEN r ELSE pilha[i]
  BY <1>1, Troca DEF PushReplacement, Indices
<1>3. saindo' = (saindo \cup ({Topo.id} \cap {o.dono : o \in resto})) \ {0}
  BY DEF PushReplacement, TiraTopo
<1>4. Indices' = Indices /\ Len(pilha) \in Indices /\ Topo = pilha[Len(pilha)]
  BY <1>1, <1>2 DEF Indices, Topo
<1>5. IdsDistintos'
  <2>1. \A i \in Indices : i # Len(pilha) /\ pilha[i].id # 0 => pilha[i].id # Topo.id
    BY <1>4 DEF InvRotas, IdsDistintos
  <2>2. r.id # 0 => /\ r.id \notin saindo /\ \A i \in Indices : pilha[i].id # r.id
    BY DEF IdsVivos, Indices
  <2> QED BY <1>2, <1>3, <1>4, <2>1, <2>2 DEF InvRotas, IdsDistintos
<1>6. DonoAlcancavel'
  <2> SUFFICES ASSUME NEW o \in resto, o.dono # 0
               PROVE  o.dono \in IdsVivos'
    BY DEF DonoAlcancavel
  <2>1. o.dono \in saindo \/ \E i \in Indices : o.dono = pilha[i].id
    BY DEF InvRotas, DonoAlcancavel, IdsVivos, Indices
  <2>2. CASE o.dono \in saindo \/ o.dono = Topo.id
    BY <1>3, <2>2 DEF IdsVivos
  <2>3. CASE \E i \in Indices : i # Len(pilha) /\ o.dono = pilha[i].id
    BY <1>2, <1>4, <2>3 DEF IdsVivos, Indices
  <2> QED BY <1>4, <2>1, <2>2, <2>3
<1>7. AlertaSobreDono'
  <2> SUFFICES ASSUME NEW i \in Indices, pilha'[i].pagina = "alerta", ~pilha'[i].naSaida
               PROVE  \E j \in 1 .. i - 1 : pilha'[j].id = pilha'[i].dono /\ pilha'[i].dono # 0
    BY <1>4 DEF AlertaSobreDono
  <2>1. i # Len(pilha) /\ pilha'[i] = pilha[i]
    BY <1>2
  <2>2. PICK j \in 1 .. i - 1 : pilha[j].id = pilha[i].dono /\ pilha[i].dono # 0
    BY <2>1 DEF InvRotas, AlertaSobreDono
  <2>3. j \in Indices /\ j # Len(pilha)
    BY <1>1 DEF Indices
  <2> QED BY <1>2, <2>1, <2>2, <2>3
<1>8. AlertaSobreAlgo'
  BY <1>1, <1>2 DEF InvRotas, AlertaSobreAlgo, Indices
<1> QED BY <1>5, <1>6, <1>7, <1>8 DEF InvRotas

(* Putting a route on top keeps it. *)
LEMMA PushMantem ==
    ASSUME TypeOK, InvRotas, NEW r \in Rota, r.id = 0,
           r.pagina = "alerta" /\ ~r.naSaida =>
               r.dono # 0 /\ \E j \in Indices : pilha[j].id = r.dono,
           ops' \subseteq ops, Push(r)
    PROVE  InvRotas'
<1>1. pilha \in Seq(Rota) /\ Len(pilha) \in Nat
  BY DEF TypeOK
<1>2. /\ Len(pilha') = Len(pilha) + 1
      /\ \A i \in Indices : pilha'[i] = pilha[i]
      /\ pilha'[Len(pilha) + 1] = r
      /\ saindo' = saindo
  BY <1>1, PoeTopo DEF Push, Indices
<1>3. /\ Indices' = Indices \cup {Len(pilha) + 1}
      /\ Len(pilha) + 1 \notin Indices
      /\ \A i \in Indices : 1 .. i - 1 \subseteq Indices
      /\ 1 .. (Len(pilha) + 1) - 1 = Indices
  BY <1>1, <1>2 DEF Indices
<1>4. IdsDistintos'
  BY <1>2, <1>3 DEF InvRotas, IdsDistintos
<1>5. DonoAlcancavel'
  BY <1>2, <1>3 DEF InvRotas, DonoAlcancavel, IdsVivos, Indices
<1>6. AlertaSobreDono'
  <2> SUFFICES ASSUME NEW i \in Indices', pilha'[i].pagina = "alerta", ~pilha'[i].naSaida
               PROVE  \E j \in 1 .. i - 1 : pilha'[j].id = pilha'[i].dono /\ pilha'[i].dono # 0
    BY DEF AlertaSobreDono
  <2>1. CASE i \in Indices
    BY <1>2, <1>3, <2>1 DEF InvRotas, AlertaSobreDono
  <2>2. CASE i = Len(pilha) + 1
    BY <1>2, <1>3, <2>2
  <2> QED BY <1>3, <2>1, <2>2
<1>7. AlertaSobreAlgo'
  BY <1>2 DEF InvRotas, AlertaSobreAlgo, TypeOK, Indices
<1> QED BY <1>4, <1>5, <1>6, <1>7 DEF InvRotas

(* Taking the top route off keeps it. *)
LEMMA PopMantem ==
    ASSUME TypeOK, InvRotas, Len(pilha) > 1, ops' = ops, Pop
    PROVE  InvRotas'
<1>1. pilha \in Seq(Rota) /\ Len(pilha) \in Nat
  BY DEF TypeOK
<1>2. /\ Len(pilha') = Len(pilha) - 1
      /\ \A i \in 1 .. Len(pilha) - 1 : pilha'[i] = pilha[i]
      /\ saindo' = (saindo \cup ({Topo.id} \cap {o.dono : o \in ops})) \ {0}
  BY <1>1, Tirado DEF Pop, TiraTopo
<1>3. /\ Indices' = 1 .. Len(pilha) - 1
      /\ Indices = Indices' \cup {Len(pilha)} /\ Len(pilha) \notin Indices'
      /\ Topo = pilha[Len(pilha)]
      /\ \A i \in Indices' : 1 .. i - 1 \subseteq Indices'
  BY <1>1, <1>2 DEF Indices, Topo
<1>4. IdsDistintos'
  <2>1. \A i \in Indices' : pilha[i].id # 0 => pilha[i].id # Topo.id
    BY <1>3 DEF InvRotas, IdsDistintos
  <2>2. \A i \in Indices' : i \in Indices /\ pilha'[i] = pilha[i]
    BY <1>2, <1>3
  <2> QED BY <1>2, <2>1, <2>2 DEF InvRotas, IdsDistintos
<1>5. DonoAlcancavel'
  <2> SUFFICES ASSUME NEW o \in ops, o.dono # 0
               PROVE  o.dono \in IdsVivos'
    BY DEF DonoAlcancavel
  <2>1. o.dono \in saindo \/ \E i \in Indices : o.dono = pilha[i].id
    BY DEF InvRotas, DonoAlcancavel, IdsVivos, Indices
  <2>2. CASE o.dono \in saindo \/ o.dono = Topo.id
    BY <1>2, <2>2 DEF IdsVivos
  <2>3. CASE \E i \in Indices' : o.dono = pilha[i].id
    BY <1>2, <1>3, <2>3 DEF IdsVivos, Indices
  <2> QED BY <1>3, <2>1, <2>2, <2>3
<1>6. AlertaSobreDono'
  BY <1>2, <1>3 DEF InvRotas, AlertaSobreDono
<1>7. AlertaSobreAlgo'
  BY <1>1, <1>2 DEF InvRotas, AlertaSobreAlgo
<1> QED BY <1>4, <1>5, <1>6, <1>7 DEF InvRotas

-----------------------------------------------------------------------------
(* The part of the invariant about what the stack shows.                   *)
InvTela == SplashSozinha /\ HomeUnica

(* Away from the splash page there is no splash page at all. *)
LEMMA SemSplash ==
    ASSUME TypeOK, SplashSozinha, Topo.pagina # "splash" \/ ops # {} \/ Len(pilha) > 1
    PROVE  /\ Topo.pagina # "splash" /\ splash.prefs = "nulo"
           /\ \A i \in Indices : pilha[i].pagina # "splash"
<1>1. Len(pilha) \in Nat /\ Len(pilha) >= 1 /\ Len(pilha) \in Indices
  BY DEF TypeOK, Indices
<1>2. ASSUME NEW i \in Indices, pilha[i].pagina = "splash" PROVE i = Len(pilha)
  <2>1. Len(pilha) = 1
    BY <1>2 DEF SplashSozinha
  <2> QED BY <2>1 DEF Indices
<1>3. Topo.pagina # "splash"
  BY <1>1 DEF SplashSozinha, Topo
<1> QED BY <1>2, <1>3 DEF SplashSozinha, Topo

LEMMA TrocaTela ==
    ASSUME TypeOK, InvTela, NEW r \in Rota, r.pagina # "splash",
           NEW resto \in SUBSET ops, PushReplacement(r, resto),
           splash'.prefs = "nulo",
           ~tardia' => ~tardia /\ Topo.pagina \notin {"outra", "alerta"}
    PROVE  /\ InvTela'
           /\ pilha' \in Seq(Rota) /\ Len(pilha') \in 1 .. MaxPilha
           /\ saindo' \subseteq 1 .. MaxRotas
<1>1. pilha \in Seq(Rota) /\ Len(pilha) \in Nat /\ Len(pilha) >= 1
  BY DEF TypeOK
<1>2. /\ pilha' \in Seq(Rota) /\ Len(pilha') = Len(pilha)
      /\ \A i \in Indices : pilha'[i] = IF i = Len(pilha) THEN r ELSE pilha[i]
  BY <1>1, Troca DEF PushReplacement, Indices
<1>3. Indices' = Indices /\ Len(pilha) \in Indices /\ Topo = pilha[Len(pilha)] /\ Topo' = r
  BY <1>1, <1>2 DEF Indices, Topo
<1>4. SplashSozinha'
  <2>1. ASSUME NEW i \in Indices, i # Len(pilha) PROVE pilha[i].pagina # "splash"
    <3> SUFFICES ASSUME Len(pilha) = 1 PROVE i = Len(pilha)
      BY <2>1 DEF InvTela, SplashSozinha
    <3> QED BY DEF Indices
  <2> QED BY <1>2, <1>3, <2>1 DEF SplashSozinha
<1>5. HomeUnica'
  <2> SUFFICES ASSUME ~tardia', NEW i \in Indices, NEW j \in Indices, i < j,
                      pilha'[i].pagina = "home"
               PROVE  pilha'[j].pagina \in {"outra", "alerta"}
    BY <1>3 DEF HomeUnica, Indices
  <2>1. i # Len(pilha) /\ i < Len(pilha) /\ pilha[i].pagina = "home"
    BY <1>1, <1>2 DEF Indices
  <2> QED BY <1>3, <2>1 DEF InvTela, HomeUnica, Indices
<1>6. saindo' \subseteq 1 .. MaxRotas
  <2>1. Topo \in Rota
    BY <1>1 DEF Topo
  <2>2. Topo.id \in 0 .. MaxRotas
    BY <2>1 DEF Rota, Rotas
  <2>3. saindo' \subseteq (saindo \cup {Topo.id}) \ {0}
    BY DEF PushReplacement, TiraTopo
  <2> QED BY <2>2, <2>3 DEF TypeOK
<1> QED BY <1>1, <1>2, <1>4, <1>5, <1>6 DEF InvTela, TypeOK

LEMMA PushTela ==
    ASSUME TypeOK, InvTela, NEW r \in Rota, r.pagina # "splash", Topo.pagina # "splash",
           ops' \subseteq ops, Push(r), splash' = splash,
           ~tardia' => /\ ~tardia
                       /\ \/ r.pagina \in {"outra", "alerta"}
                          \/ Topo.pagina \notin {"outra", "alerta", "home"}
    PROVE  /\ InvTela'
           /\ pilha' \in Seq(Rota) /\ Len(pilha') \in 1 .. MaxPilha
           /\ saindo' \subseteq 1 .. MaxRotas
<1>1. pilha \in Seq(Rota) /\ Len(pilha) \in Nat /\ Len(pilha) >= 1 /\ Len(pilha) < MaxPilha
  BY DEF TypeOK, Push
<1>2. /\ pilha' \in Seq(Rota) /\ Len(pilha') = Len(pilha) + 1
      /\ \A i \in Indices : pilha'[i] = pilha[i]
      /\ pilha'[Len(pilha) + 1] = r
  BY <1>1, PoeTopo DEF Push, Indices
<1>3. /\ Indices' = Indices \cup {Len(pilha) + 1} /\ Len(pilha) + 1 \notin Indices
      /\ Len(pilha) \in Indices /\ Topo = pilha[Len(pilha)] /\ Topo' = r
  BY <1>1, <1>2 DEF Indices, Topo
<1>4. SplashSozinha'
  BY <1>2, <1>3, SemSplash DEF InvTela, SplashSozinha
<1>5. HomeUnica'
  <2> SUFFICES ASSUME ~tardia', NEW i \in Indices', NEW j \in Indices', i < j,
                      pilha'[i].pagina = "home"
               PROVE  pilha'[j].pagina \in {"outra", "alerta"}
    BY DEF HomeUnica, Indices
  <2>1. i \in Indices /\ pilha[i].pagina = "home"
    BY <1>1, <1>2, <1>3 DEF Indices
  <2>2. CASE j \in Indices
    <3>1. ~tardia /\ pilha'[j] = pilha[j]
      BY <1>2, <2>2
    <3> QED BY <2>1, <2>2, <3>1 DEF InvTela, HomeUnica, Indices
  <2>3. CASE j = Len(pilha) + 1
    <3>1. CASE i = Len(pilha)
      BY <1>2, <1>3, <2>1, <2>3, <3>1
    <3>2. CASE i < Len(pilha)
      <4>1. ~tardia /\ pilha[Len(pilha)].pagina \in {"outra", "alerta"}
        BY <1>3, <2>1, <3>2 DEF InvTela, HomeUnica, Indices
      <4> QED BY <1>2, <1>3, <2>3, <4>1
    <3>3. i = Len(pilha) \/ i < Len(pilha)
      BY <1>1, <2>1 DEF Indices
    <3> QED BY <3>1, <3>3, <3>2
  <2> QED BY <1>3, <2>2, <2>3
<1>6. saindo' \subseteq 1 .. MaxRotas
  BY DEF Push, TypeOK
<1> QED BY <1>1, <1>2, <1>4, <1>5, <1>6 DEF InvTela

LEMMA PopTela ==
    ASSUME TypeOK, InvTela, Len(pilha) > 1, ops' = ops, Pop, splash' = splash, tardia' = tardia
    PROVE  /\ InvTela'
           /\ pilha' \in Seq(Rota) /\ Len(pilha') \in 1 .. MaxPilha
           /\ saindo' \subseteq 1 .. MaxRotas
<1>1. pilha \in Seq(Rota) /\ Len(pilha) \in Nat
  BY DEF TypeOK
<1>2. /\ pilha' \in Seq(Rota) /\ Len(pilha') = Len(pilha) - 1
      /\ \A i \in 1 .. Len(pilha) - 1 : pilha'[i] = pilha[i]
  BY <1>1, Tirado DEF Pop
<1>3. Indices' = 1 .. Len(pilha) - 1 /\ Indices' \subseteq Indices /\ Len(pilha) - 1 \in Indices'
  BY <1>1, <1>2 DEF Indices
<1>4. SplashSozinha'
  <2>1. \A i \in Indices' : pilha'[i].pagina # "splash"
    BY <1>2, <1>3, SemSplash DEF InvTela
  <2> QED BY <2>1, SemSplash DEF InvTela, SplashSozinha
<1>5. HomeUnica'
  BY <1>2, <1>3 DEF InvTela, HomeUnica, Indices
<1>6. saindo' \subseteq 1 .. MaxRotas
  <2>1. Topo \in Rota
    BY <1>1 DEF Topo
  <2>2. Topo.id \in 0 .. MaxRotas
    BY <2>1 DEF Rota, Rotas
  <2>3. saindo' \subseteq (saindo \cup {Topo.id}) \ {0}
    BY DEF Pop, TiraTopo
  <2> QED BY <2>2, <2>3 DEF TypeOK
<1> QED BY <1>1, <1>2, <1>4, <1>5, <1>6 DEF InvTela, TypeOK

-----------------------------------------------------------------------------
(* The part of the invariant about the stored user.                        *)
InvArmazem == PersistenciaEmOrdem /\ ErroVazio

LEMMA Partes == IInv <=> TypeOK /\ InvRotas /\ InvTela /\ InvArmazem
BY DEF IInv, InvRotas, InvTela, InvArmazem

(* A write is the last of the queue. *)
LEMMA Grava ==
    ASSUME TypeOK, NEW u \in Usuarios, SetString(u)
    PROVE  /\ memo' = u /\ disco' = disco
           /\ escritas' \in Seq(Usuarios) /\ Len(escritas') <= MaxEscritas
           /\ UltimaEscrita' = u
<1>1. escritas \in Seq(Usuarios) /\ Len(escritas) \in Nat /\ Len(escritas) < MaxEscritas
  BY DEF TypeOK, SetString
<1>2. escritas' = Append(escritas, u)
  BY DEF SetString
<1>3. /\ escritas' \in Seq(Usuarios) /\ Len(escritas') = Len(escritas) + 1
      /\ escritas'[Len(escritas) + 1] = u
  BY <1>1, <1>2
<1>4. escritas' # <<>>
  BY <1>1, <1>3
<1> QED BY <1>1, <1>3, <1>4 DEF SetString, UltimaEscrita

(* Writing the oldest to disk does not change which is the last. *)
LEMMA PersisteUltima ==
    ASSUME TypeOK, Persiste
    PROVE  /\ escritas' \in Seq(Usuarios) /\ Len(escritas') <= MaxEscritas
           /\ disco' \in Usuarios
           /\ UltimaEscrita' = UltimaEscrita
<1>1. /\ escritas \in Seq(Usuarios) /\ escritas # <<>> /\ Len(escritas) <= MaxEscritas
      /\ Len(escritas) \in Nat /\ Len(escritas) >= 1
  BY DEF TypeOK, Persiste
<1>2. escritas' = Tail(escritas) /\ disco' = escritas[1]
  BY <1>1 DEF Persiste
<1>3. /\ escritas' \in Seq(Usuarios) /\ Len(escritas') = Len(escritas) - 1
      /\ \A i \in 1 .. Len(escritas) - 1 : escritas'[i] = escritas[i + 1]
  BY <1>1, <1>2, HeadTailProperties
<1>4. escritas[1] \in Usuarios
  BY <1>1
<1>5. CASE Len(escritas) = 1
  <2>1. escritas' = <<>>
    BY <1>3, <1>5
  <2> QED BY <1>1, <1>2, <1>3, <1>4, <1>5, <2>1 DEF UltimaEscrita
<1>6. CASE Len(escritas) > 1
  <2>1. escritas' # <<>> /\ escritas'[Len(escritas')] = escritas[Len(escritas)]
    BY <1>1, <1>3, <1>6
  <2>2. UltimaEscrita' = escritas'[Len(escritas')]
    BY <2>1 DEF UltimaEscrita
  <2>3. UltimaEscrita = escritas[Len(escritas)]
    BY <1>1 DEF UltimaEscrita
  <2>4. Len(escritas') <= MaxEscritas
    BY <1>1, <1>3
  <2>5. UltimaEscrita' = UltimaEscrita
    BY <2>1, <2>2, <2>3
  <2>6. disco' \in Usuarios /\ escritas' \in Seq(Usuarios)
    BY <1>2, <1>3, <1>4
  <2> QED BY <2>4, <2>5, <2>6
<1>7. Len(escritas) = 1 \/ Len(escritas) > 1
  <2>1. Len(escritas) \in Nat /\ Len(escritas) >= 1
    BY <1>1
  <2>2. \A n \in Nat : n >= 1 => n = 1 \/ n > 1
    OBVIOUS
  <2> QED BY <2>1, <2>2
<1> QED BY <1>5, <1>6, <1>7

(* The two kinds of routes the actions create are routes. *)
LEMMA RotasNovas ==
    /\ \A p \in Paginas : Simples(p) \in Rota /\ Simples(p).id = 0 /\ Simples(p).pagina = p
    /\ HaRota => \A p \in Paginas :
          /\ ComHandlers(p) \in Rota /\ ComHandlers(p).pagina = p
          /\ ComHandlers(p).id \in 1 .. MaxRotas /\ ComHandlers(p).id \notin IdsVivos
<1>1. \A p \in Paginas : Simples(p) \in Rota /\ Simples(p).id = 0 /\ Simples(p).pagina = p
  BY DEF Simples, Rota, Rotas
<1>2. ASSUME HaRota
      PROVE  IdNovo \in 1 .. MaxRotas /\ IdNovo \notin IdsVivos
  BY <1>2 DEF HaRota, IdNovo
<1>3. ASSUME HaRota, NEW p \in Paginas
      PROVE  /\ ComHandlers(p) \in Rota /\ ComHandlers(p).pagina = p
             /\ ComHandlers(p).id = IdNovo
  <2>1. Simples(p) \in Rota /\ Simples(p).pagina = p
    BY <1>1
  <2>2. IdNovo \in Rotas
    BY <1>2, <1>3 DEF Rotas
  <2> QED BY <2>1, <2>2 DEF ComHandlers, Rota
<1> QED BY <1>1, <1>2, <1>3

LEMMA Inicio == Init => IInv
<1> SUFFICES ASSUME NEW d \in Usuarios, NEW f \in BOOLEAN, Partida(d, f) PROVE IInv
  BY DEF Init
<1>1. Simples("splash") \in Rota /\ Simples("splash").pagina = "splash" /\ Simples("splash").id = 0
  BY RotasNovas DEF Paginas
<1>2. /\ pilha \in Seq(Rota) /\ Len(pilha) = 1 /\ Topo = Simples("splash") /\ Indices = {1}
      /\ pilha[1] = Simples("splash")
  BY <1>1 DEF Partida, Topo, Indices
<1>3. TypeOK
  <2>1. pilha \in Seq(Rota) /\ Len(pilha) \in 1 .. MaxPilha
    BY <1>2
  <2>2. splash \in Splash
    BY DEF Partida, Splash
  <2>3. escritas \in Seq(Usuarios) /\ Len(escritas) <= MaxEscritas
    BY DEF Partida
  <2> QED BY <2>1, <2>2, <2>3 DEF Partida, TypeOK, Usuarios
<1>4. SplashSozinha /\ PersistenciaEmOrdem /\ ErroVazio
  BY <1>1, <1>2 DEF Partida, SplashSozinha, PersistenciaEmOrdem, ErroVazio, Carregado
<1>5. IdsDistintos /\ DonoAlcancavel /\ AlertaSobreAlgo /\ AlertaSobreDono
  BY <1>1, <1>2 DEF Partida, IdsDistintos, DonoAlcancavel, AlertaSobreAlgo, AlertaSobreDono
<1>6. HomeUnica
  BY <1>1, <1>2 DEF HomeUnica, Indices
<1> QED BY <1>3, <1>4, <1>5, <1>6 DEF IInv

-----------------------------------------------------------------------------
(* One lemma per group of actions: each keeps the invariant.               *)

LEMMA ReiniciaMantem == TypeOK /\ Reinicia => IInv'
<1> SUFFICES ASSUME TypeOK, Reinicia PROVE IInv'
  OBVIOUS
<1>1. Simples("splash") \in Rota /\ Simples("splash").pagina = "splash" /\ Simples("splash").id = 0
  BY RotasNovas DEF Paginas
<1>2. /\ pilha' \in Seq(Rota) /\ Len(pilha') = 1 /\ Topo' = Simples("splash") /\ Indices' = {1}
      /\ pilha'[1] = Simples("splash")
  BY <1>1 DEF Reinicia, Topo, Indices
<1>3. TypeOK'
  <2>1. pilha' \in Seq(Rota) /\ Len(pilha') \in 1 .. MaxPilha
    BY <1>2
  <2>2. splash' \in Splash
    BY DEF Reinicia, Splash, TypeOK
  <2>3. escritas' \in Seq(Usuarios) /\ Len(escritas') <= MaxEscritas
    BY DEF Reinicia
  <2> QED BY <2>1, <2>2, <2>3 DEF Reinicia, TypeOK, Usuarios
<1>4. SplashSozinha' /\ PersistenciaEmOrdem' /\ ErroVazio'
  BY <1>1, <1>2 DEF Reinicia, SplashSozinha, PersistenciaEmOrdem, ErroVazio, Carregado
<1>5. IdsDistintos' /\ DonoAlcancavel' /\ AlertaSobreAlgo' /\ AlertaSobreDono'
  BY <1>1, <1>2 DEF Reinicia, IdsDistintos, DonoAlcancavel, AlertaSobreAlgo, AlertaSobreDono
<1>6. HomeUnica'
  BY <1>1, <1>2 DEF HomeUnica, Indices
<1> QED BY <1>3, <1>4, <1>5, <1>6 DEF IInv

(* What an action that leaves the stack alone has to show. *)
LEMMA PilhaParada ==
    ASSUME IInv, UNCHANGED <<pilha, saindo, tardia>>,
           \A o \in ops' : o.dono = Topo.id \/ \E q \in ops : o.dono = q.dono,
           Topo.pagina # "splash" \/ ops' = ops,
           Topo.pagina # "splash" => splash'.prefs = "nulo"
    PROVE  InvRotas' /\ InvTela'
<1>1. TypeOK /\ InvRotas /\ InvTela
  BY Partes
<1>2. Indices' = Indices /\ Topo' = Topo /\ IdsVivos' = IdsVivos
  BY DEF Indices, Topo, IdsVivos
<1>3. Topo.id \in IdsVivos
  BY <1>1 DEF Topo, IdsVivos, TypeOK
<1>4. InvRotas'
  BY <1>1, <1>2, <1>3 DEF InvRotas, IdsDistintos, DonoAlcancavel, AlertaSobreAlgo,
                               AlertaSobreDono
<1>5. SplashSozinha'
  <2>1. CASE Topo.pagina # "splash"
    BY <1>1, <1>2, <2>1, SemSplash DEF InvTela, SplashSozinha
  <2>2. CASE ops' = ops /\ Topo.pagina = "splash"
    BY <1>1, <1>2, <2>2 DEF InvTela, SplashSozinha
  <2> QED BY <2>1, <2>2
<1>6. HomeUnica'
  BY <1>1 DEF InvTela, HomeUnica
<1> QED BY <1>4, <1>5, <1>6 DEF InvTela

LEMMA InicializaMantem == IInv /\ Inicializa => IInv'
<1> SUFFICES ASSUME IInv, Inicializa PROVE IInv'
  OBVIOUS
<1>1. TypeOK /\ InvRotas /\ InvTela /\ InvArmazem
  BY Partes
<1>2. CASE PrefsCarrega
  <2>1. Topo.pagina = "splash"
    BY <1>1, <1>2 DEF PrefsCarrega, InvTela, SplashSozinha
  <2>2. InvRotas' /\ InvTela'
    BY <1>2, <2>1, PilhaParada DEF PrefsCarrega
  <2>3. /\ memo' = "vazio" /\ disco' = disco
        /\ escritas' \in Seq(Usuarios) /\ Len(escritas') <= MaxEscritas
        /\ UltimaEscrita' = "vazio"
    BY <1>1, <1>2, Grava DEF PrefsCarrega, Usuarios
  <2>4. splash' \in Splash
    BY <1>1, <1>2 DEF PrefsCarrega, TypeOK, Splash
  <2>5. TypeOK'
    BY <1>1, <1>2, <2>3, <2>4 DEF PrefsCarrega, TypeOK, Usuarios
  <2>6. InvArmazem'
    BY <2>3 DEF InvArmazem, PersistenciaEmOrdem, ErroVazio
  <2> QED BY <2>2, <2>5, <2>6, Partes, PTL
<1>3. CASE BancoAbre
  <2>1. splash' \in Splash /\ splash'.prefs = splash.prefs
    BY <1>1, <1>3 DEF BancoAbre, TypeOK, Splash
  <2>2. InvRotas' /\ InvTela'
    BY <1>1, <1>3, <2>1, PilhaParada DEF BancoAbre, InvTela, SplashSozinha
  <2>3. TypeOK' /\ InvArmazem'
    BY <1>1, <1>3, <2>1 DEF BancoAbre, armazem, TypeOK, InvArmazem, PersistenciaEmOrdem,
                            ErroVazio, Carregado, UltimaEscrita
  <2> QED BY <2>2, <2>3, Partes, PTL
<1>4. CASE SplashSegue
  <2>1. Len(pilha) = 1 /\ saindo = {} /\ ops = {} /\ Topo = pilha[1]
    <3>1. Len(pilha) \in Indices
      BY <1>1 DEF TypeOK, Indices
    <3> QED BY <1>1, <1>4, <3>1 DEF SplashSegue, InvTela, SplashSozinha, Topo
  <2>2. HaRota
    <3>1. pilha[1].id = 0
      BY <1>1, <1>4, <2>1 DEF InvRotas, IdsDistintos, Indices, SplashSegue
    <3>2. IdsVivos = {0}
      BY <2>1, <3>1 DEF IdsVivos
    <3> QED BY <3>2 DEF HaRota
  <2>3. PICK r \in Rota :
           /\ PushReplacement(r, ops)
           /\ r.pagina \in {"home", "login"}
           /\ r.id # 0 => r.pagina = "login" /\ r.id \notin IdsVivos
    BY <1>4, <2>2, RotasNovas DEF SplashSegue, LoginOuHome, Paginas
  <2>4. splash' \in Splash /\ splash'.prefs = "nulo"
    BY <1>1, <1>4 DEF SplashSegue, TypeOK, Splash
  <2>5. UNCHANGED <<ops, memo, escritas, disco, fuser, tardia>>
    BY <1>4 DEF SplashSegue, armazem
  <2>6. InvRotas'
    BY <1>1, <2>3, <2>5, TrocaMantem
  <2>7. /\ InvTela'
        /\ pilha' \in Seq(Rota) /\ Len(pilha') \in 1 .. MaxPilha /\ saindo' \subseteq 1 .. MaxRotas
    BY <1>1, <1>4, <2>3, <2>4, <2>5, TrocaTela DEF SplashSegue
  <2>8. TypeOK'
    BY <1>1, <2>4, <2>5, <2>7 DEF TypeOK
  <2>9. InvArmazem'
    BY <1>1, <1>4, <2>4, <2>5 DEF SplashSegue, InvArmazem, PersistenciaEmOrdem, ErroVazio,
                                  Carregado, UltimaEscrita
  <2> QED BY <2>6, <2>7, <2>8, <2>9, Partes, PTL
<1> QED BY <1>2, <1>3, <1>4 DEF Inicializa

(* What an action that replaces the top route away from the splash page has *)
(* to show.                                                                 *)
LEMMA TrocaCompleta ==
    ASSUME IInv, NEW r \in Rota, r.pagina \notin {"alerta", "splash"},
           r.id # 0 => r.pagina \in {"login", "cadastro"} /\ r.id \notin IdsVivos,
           NEW resto \in SUBSET ops, ops' = resto, PushReplacement(r, resto),
           Topo.pagina # "splash" \/ ops # {}, splash' = splash, fuser' \in BOOLEAN,
           tardia' \in BOOLEAN, ~tardia' => ~tardia /\ Topo.pagina \notin {"outra", "alerta"},
           UNCHANGED armazem \/ \E u \in Usuarios : SetString(u)
    PROVE  IInv'
<1>1. TypeOK /\ InvRotas /\ InvTela /\ InvArmazem
  BY Partes
<1>2. splash.prefs = "nulo"
  BY <1>1, SemSplash DEF InvTela
<1>3. InvRotas'
  BY <1>1, TrocaMantem
<1>4. /\ InvTela'
      /\ pilha' \in Seq(Rota) /\ Len(pilha') \in 1 .. MaxPilha /\ saindo' \subseteq 1 .. MaxRotas
  BY <1>1, <1>2, TrocaTela
<1>5. /\ memo' \in Usuarios /\ disco' \in Usuarios
      /\ escritas' \in Seq(Usuarios) /\ Len(escritas') <= MaxEscritas
      /\ UltimaEscrita' = memo'
  <2>1. CASE UNCHANGED armazem
    BY <1>1, <1>2, <2>1 DEF armazem, TypeOK, InvArmazem, PersistenciaEmOrdem, Carregado,
                            UltimaEscrita
  <2>2. CASE \E u \in Usuarios : SetString(u)
    BY <1>1, <2>2, Grava DEF TypeOK
  <2> QED BY <2>1, <2>2
<1>6. TypeOK'
  BY <1>1, <1>4, <1>5 DEF TypeOK
<1>7. InvArmazem'
  BY <1>2, <1>5 DEF InvArmazem, PersistenciaEmOrdem, ErroVazio
<1> QED BY <1>3, <1>4, <1>6, <1>7, Partes, PTL

(* The same for an action that pushes a route. *)
LEMMA PushCompleto ==
    ASSUME IInv, NEW r \in Rota, r.id = 0, r.pagina # "splash",
           r.pagina = "alerta" /\ ~r.naSaida =>
               r.dono # 0 /\ \E j \in Indices : pilha[j].id = r.dono,
           ops' \subseteq ops, Push(r),
           Topo.pagina # "splash" \/ ops # {}, UNCHANGED <<splash, fuser>>,
           tardia' \in BOOLEAN,
           ~tardia' => /\ ~tardia
                       /\ \/ r.pagina \in {"outra", "alerta"}
                          \/ Topo.pagina \notin {"outra", "alerta", "home"},
           UNCHANGED armazem \/ \E u \in Usuarios : SetString(u)
    PROVE  IInv'
<1>1. TypeOK /\ InvRotas /\ InvTela /\ InvArmazem
  BY Partes
<1>2. splash.prefs = "nulo" /\ Topo.pagina # "splash"
  BY <1>1, SemSplash DEF InvTela
<1>3. InvRotas'
  BY <1>1, PushMantem
<1>4. /\ InvTela'
      /\ pilha' \in Seq(Rota) /\ Len(pilha') \in 1 .. MaxPilha /\ saindo' \subseteq 1 .. MaxRotas
  BY <1>1, <1>2, PushTela
<1>5. /\ memo' \in Usuarios /\ disco' \in Usuarios
      /\ escritas' \in Seq(Usuarios) /\ Len(escritas') <= MaxEscritas
      /\ UltimaEscrita' = memo'
  <2>1. CASE UNCHANGED armazem
    BY <1>1, <1>2, <2>1 DEF armazem, TypeOK, InvArmazem, PersistenciaEmOrdem, Carregado,
                            UltimaEscrita
  <2>2. CASE \E u \in Usuarios : SetString(u)
    BY <1>1, <2>2, Grava DEF TypeOK
  <2> QED BY <2>1, <2>2
<1>6. TypeOK'
  BY <1>1, <1>4, <1>5 DEF TypeOK
<1>7. InvArmazem'
  BY <1>2, <1>5 DEF InvArmazem, PersistenciaEmOrdem, ErroVazio
<1> QED BY <1>3, <1>4, <1>6, <1>7, Partes, PTL

(* There is always a page below the one that a pop takes away.             *)
LEMMA PopDeixaPagina ==
    ASSUME TypeOK, AlertaSobreAlgo, Voltar \/ OkDoAlerta
    PROVE  Len(pilha) > 1
<1>1. CASE Voltar
  BY <1>1 DEF Voltar
<1>2. CASE OkDoAlerta
  <2>1. Len(pilha) # 1
    <3> SUFFICES ASSUME Len(pilha) = 1 PROVE FALSE
      OBVIOUS
    <3>1. Topo = pilha[1] /\ pilha[1].pagina # "alerta"
      BY DEF Topo, AlertaSobreAlgo
    <3> QED BY <1>2, <3>1 DEF OkDoAlerta
  <2>2. \A n \in 1 .. MaxPilha : n # 1 => n > 1
    OBVIOUS
  <2> QED BY <2>1, <2>2 DEF TypeOK
<1> QED BY <1>1, <1>2

LEMMA UsuarioMantem == IInv /\ Usuario => IInv'
<1> SUFFICES ASSUME IInv, Usuario PROVE IInv'
  OBVIOUS
<1>1. TypeOK /\ InvRotas /\ InvTela /\ InvArmazem
  BY Partes
<1>2. ASSUME NEW tipo \in {"api", "fire", "digital", "cadastro"}, Toca(tipo) PROVE IInv'
  <2>1. Topo.pagina # "splash" /\ UNCHANGED <<pilha, saindo, memo, escritas, disco, fuser, splash, tardia>>
    BY <1>2 DEF Toca, armazem
  <2>2. splash.prefs = "nulo" /\ Topo \in Rota
    BY <1>1, <2>1, SemSplash DEF InvTela, Topo, TypeOK
  <2> DEFINE n == [id |-> IdLivre, tipo |-> tipo, fase |-> "pedido", dono |-> Topo.id]
  <2>3. n \in Op
    <3>1. IdLivre \in 1 .. MaxOps
      BY <1>2 DEF Toca, HaVaga, IdLivre
    <3>2. Topo.id \in Rotas
      BY <2>2 DEF Rota
    <3> QED BY <3>1, <3>2 DEF Op
  <2>4. ops' = ops \cup {n} /\ n.dono = Topo.id
    BY <1>2 DEF Toca
  <2> HIDE DEF n
  <2>5. InvRotas' /\ InvTela'
    BY <2>1, <2>2, <2>4, PilhaParada
  <2>6. TypeOK' /\ InvArmazem'
    BY <1>1, <2>1, <2>3, <2>4 DEF TypeOK, InvArmazem, PersistenciaEmOrdem, ErroVazio, Carregado,
                                  UltimaEscrita
  <2> QED BY <2>5, <2>6, Partes, PTL
<1>3. CASE CadastreSe
  <2>1. ~tardia' => ~tardia
    BY <1>3 DEF CadastreSe
  <2> QED
    BY <1>1, <1>3, <2>1, RotasNovas, TrocaCompleta DEF CadastreSe, Paginas, TypeOK
<1>4. CASE Cancelar
  <2>1. PICK r \in Rota :
           /\ PushReplacement(r, ops)
           /\ r.pagina \in {"home", "login"}
           /\ r.id # 0 => r.pagina = "login" /\ r.id \notin IdsVivos
    BY <1>4, RotasNovas DEF Cancelar, LoginOuHome, Paginas
  <2> QED BY <1>1, <1>4, <2>1, TrocaCompleta DEF Cancelar, TypeOK
<1>5. CASE Logout
  <2>1. \E u \in Usuarios : SetString(u)
    BY <1>5 DEF Logout, Usuarios
  <2> QED BY <1>1, <1>5, <2>1, RotasNovas, TrocaCompleta DEF Logout, Paginas, TypeOK
<1>6. CASE AbreOutra
  BY <1>1, <1>6, RotasNovas, PushCompleto DEF AbreOutra, Paginas, TypeOK
<1>7. CASE Voltar \/ OkDoAlerta
  <2>1. /\ Pop /\ Topo.pagina # "splash" /\ UNCHANGED <<ops, fuser, splash, tardia>>
        /\ UNCHANGED <<memo, escritas, disco>>
    BY <1>7 DEF Voltar, OkDoAlerta, armazem
  <2>2. Len(pilha) > 1
    BY <1>1, <1>7, PopDeixaPagina DEF InvRotas
  <2>3. InvRotas'
    BY <1>1, <2>1, <2>2, PopMantem
  <2>4. /\ InvTela'
        /\ pilha' \in Seq(Rota) /\ Len(pilha') \in 1 .. MaxPilha /\ saindo' \subseteq 1 .. MaxRotas
    BY <1>1, <2>1, <2>2, PopTela
  <2>5. TypeOK' /\ InvArmazem'
    BY <1>1, <2>1, <2>4 DEF TypeOK, InvArmazem, PersistenciaEmOrdem, ErroVazio, Carregado,
                            UltimaEscrita
  <2> QED BY <2>3, <2>4, <2>5, Partes, PTL
<1> QED BY <1>2, <1>3, <1>4, <1>5, <1>6, <1>7 DEF Usuario

(* The page a handler on the stack's top awaits for is a login or cadastro  *)
(* page.                                                                    *)
LEMMA TopoComHandler ==
    ASSUME IInv, Topo.id # 0
    PROVE  Topo.pagina \in {"login", "cadastro"}
<1>1. Len(pilha) \in Indices
  BY DEF IInv, TypeOK, Indices
<1> QED BY <1>1 DEF IInv, IdsDistintos, Topo

LEMMA RespostaMantem == ASSUME IInv, NEW o \in ops, Resposta(o) PROVE IInv'
<1>1. TypeOK /\ InvRotas /\ InvTela /\ InvArmazem
  BY Partes
<1>2. splash.prefs = "nulo" /\ Topo.pagina # "splash"
  BY <1>1, SemSplash DEF InvTela
<1>3. o \in Op /\ ops \ {o} \in SUBSET ops
  BY <1>1 DEF TypeOK
(* An answer that reaches no screen. *)
<1>4. ASSUME UNCHANGED <<pilha, saindo, tardia, splash>>, fuser' \in BOOLEAN,
             \/ ops' = ops \ {o}
             \/ \E n \in Op : n.dono = o.dono /\ ops' = (ops \ {o}) \cup {n},
             UNCHANGED armazem \/ \E u \in Usuarios : SetString(u)
      PROVE  IInv'
  <2>1. /\ ops' \subseteq Op
        /\ \A p \in ops' : \E q \in ops : p.dono = q.dono
    BY <1>1, <1>3, <1>4 DEF TypeOK
  <2>2. InvRotas' /\ InvTela'
    BY <1>2, <1>4, <2>1, PilhaParada
  <2>3. /\ memo' \in Usuarios /\ disco' \in Usuarios
        /\ escritas' \in Seq(Usuarios) /\ Len(escritas') <= MaxEscritas
        /\ UltimaEscrita' = memo'
    <3>1. CASE UNCHANGED armazem
      BY <1>1, <1>2, <3>1 DEF armazem, TypeOK, InvArmazem, PersistenciaEmOrdem, Carregado,
                              UltimaEscrita
    <3>2. CASE \E u \in Usuarios : SetString(u)
      BY <1>1, <3>2, Grava DEF TypeOK
    <3> QED BY <1>4, <3>1, <3>2
  <2>4. TypeOK'
    BY <1>1, <1>4, <2>1, <2>3 DEF TypeOK
  <2>5. InvArmazem'
    BY <1>2, <1>4, <2>3 DEF InvArmazem, PersistenciaEmOrdem, ErroVazio
  <2> QED BY <2>2, <2>4, <2>5, Partes, PTL
<1>5. Simples("home") \in Rota /\ Simples("home").id = 0 /\ Simples("home").pagina = "home"
  BY RotasNovas DEF Paginas
<1>6. ~(tardia \/ o.dono # Topo.id) /\ o.dono # 0 => Topo.pagina \in {"login", "cadastro"}
  BY TopoComHandler
<1>7. ASSUME o.dono # 0, HomeNoLugar(o), ops' = ops \ {o}, UNCHANGED <<splash, fuser>>,
             UNCHANGED armazem \/ \E u \in Usuarios : SetString(u)
      PROVE  IInv'
  BY <1>1, <1>2, <1>3, <1>5, <1>6, <1>7, TrocaCompleta DEF HomeNoLugar, Tarde, TypeOK
<1>8. ASSUME o.dono # 0, HomePorCima(o), ops' = ops \ {o}, UNCHANGED <<splash, fuser>>,
             UNCHANGED armazem \/ \E u \in Usuarios : SetString(u)
      PROVE  IInv'
  BY <1>1, <1>2, <1>3, <1>5, <1>6, <1>8, PushCompleto DEF HomePorCima, Tarde, TypeOK
<1>9. CASE EntraApi(o)
  <2>1. \E u \in Usuarios : SetString(u)
    BY <1>9 DEF EntraApi, Usuarios
  <2> QED BY <1>1, <1>4, <1>7, <1>9, <2>1 DEF EntraApi, HomeNoLugar, TypeOK
<1>10. CASE Autentica(o)
  <2> DEFINE n == [o EXCEPT !.fase = "feito"]
  <2>1. n \in Op /\ n.dono = o.dono
    BY <1>3 DEF Op
  <2>2. ops' = (ops \ {o}) \cup {n}
    BY <1>10 DEF Autentica
  <2> HIDE DEF n
  <2> QED BY <1>4, <1>10, <2>1, <2>2 DEF Autentica
<1>11. CASE EntraFirebase(o)
  <2>1. \E u \in Usuarios : SetString(u)
    BY <1>11 DEF EntraFirebase, Usuarios
  <2> QED BY <1>1, <1>4, <1>8, <1>11, <2>1 DEF EntraFirebase, HomePorCima, TypeOK
<1>12. CASE DigitalOk(o)
  BY <1>1, <1>4, <1>7, <1>12 DEF DigitalOk, HomeNoLugar, TypeOK
<1>13. CASE Recusa(o)
  <2>1. CASE ~(o.dono # 0 /\ o.tipo # "digital")
    BY <1>1, <1>4, <1>13, <2>1 DEF Recusa, TypeOK
  <2>2. CASE o.dono # 0 /\ o.tipo # "digital"
    <3> DEFINE r == Alerta(o.dono)
    <3>1. /\ r \in Rota /\ r.id = 0 /\ r.pagina = "alerta" /\ r.dono = o.dono
          /\ ~r.naSaida => o.dono \notin saindo
      <4>1. o.dono \in Rotas /\ 0 \in Rotas
        BY <1>3 DEF Op, Rotas
      <4>2. /\ r.id = 0 /\ r.pagina = "alerta" /\ r.dono = o.dono
            /\ ~r.naSaida => o.dono \notin saindo
        BY DEF Alerta
      <4>3. r.naSaida \in BOOLEAN
        BY DEF Alerta
      <4>4. r = [pagina |-> r.pagina, id |-> r.id, dono |-> r.dono, naSaida |-> r.naSaida]
        BY DEF Alerta
      <4> HIDE DEF r
      <4>5. r \in Rota
        BY <4>1, <4>2, <4>3, <4>4 DEF Rota, Paginas
      <4> QED BY <4>2, <4>5
    <3>2. o.dono \notin saindo => \E j \in Indices : pilha[j].id = o.dono
      BY <1>1, <2>2 DEF InvRotas, DonoAlcancavel, IdsVivos, Indices
    <3>3. Push(r)
      BY <1>13, <2>2 DEF Recusa
    <3> HIDE DEF r
    <3> QED BY <1>1, <1>2, <1>13, <2>2, <3>1, <3>2, <3>3, PushCompleto DEF Recusa, TypeOK
  <2> QED BY <2>1, <2>2
<1> QED BY <1>9, <1>10, <1>11, <1>12, <1>13 DEF Resposta

LEMMA PersisteMantem == IInv /\ Persiste => IInv'
<1> SUFFICES ASSUME IInv, Persiste PROVE IInv'
  OBVIOUS
<1>1. TypeOK /\ InvRotas /\ InvTela /\ InvArmazem
  BY Partes
<1>2. /\ escritas' \in Seq(Usuarios) /\ Len(escritas') <= MaxEscritas
      /\ disco' \in Usuarios /\ UltimaEscrita' = UltimaEscrita
  BY <1>1, PersisteUltima
<1>3. UNCHANGED <<pilha, saindo, ops, memo, fuser, splash, tardia>>
  BY DEF Persiste
<1>4. InvRotas' /\ InvTela'
  BY <1>1, <1>3, PilhaParada DEF InvTela, SplashSozinha
<1>5. TypeOK' /\ InvArmazem'
  BY <1>1, <1>2, <1>3 DEF TypeOK, InvArmazem, PersistenciaEmOrdem, ErroVazio, Carregado
<1> QED BY <1>4, <1>5, Partes, PTL

(* Disposing a page touches only the context its handlers and alerts hold. *)
LEMMA DescartaMantem == ASSUME IInv, NEW d \in saindo, Descarta(d) PROVE IInv'
<1>1. TypeOK /\ InvRotas /\ InvTela /\ InvArmazem
  BY Partes
<1>2. /\ pilha \in Seq(Rota) /\ Len(pilha) \in Nat /\ Len(pilha) \in Indices
      /\ \A i \in Indices : pilha[i] \in Rota
      /\ d \in 1 .. MaxRotas
  BY <1>1 DEF TypeOK, Indices
<1>3. pilha' = [i \in Indices |->
                  IF pilha[i].dono = d THEN [pilha[i] EXCEPT !.dono = 0] ELSE pilha[i]]
  BY DEF Descarta, Indices
<1>4. ASSUME NEW i \in Indices
      PROVE  /\ pilha'[i] \in Rota
             /\ pilha'[i].id = pilha[i].id /\ pilha'[i].pagina = pilha[i].pagina
             /\ pilha'[i].naSaida = pilha[i].naSaida
             /\ pilha'[i].dono = IF pilha[i].dono = d THEN 0 ELSE pilha[i].dono
  <2>1. pilha'[i] = IF pilha[i].dono = d THEN [pilha[i] EXCEPT !.dono = 0] ELSE pilha[i]
    BY <1>3
  <2>2. pilha[i] \in Rota /\ 0 \in Rotas
    BY <1>2 DEF Rotas
  <2>3. CASE pilha[i].dono = d
    <3>1. pilha'[i] = [pilha[i] EXCEPT !.dono = 0]
      BY <2>1, <2>3
    <3> QED BY <2>2, <2>3, <3>1 DEF Rota
  <2>4. CASE pilha[i].dono # d
    <3>1. pilha'[i] = pilha[i]
      BY <2>1, <2>4
    <3> QED BY <2>2, <2>4, <3>1
  <2> QED BY <2>3, <2>4
<1>5. pilha' \in Seq(Rota) /\ Len(pilha') = Len(pilha) /\ Indices' = Indices
  BY <1>2, <1>3, <1>4 DEF Indices
<1>6. Topo' = pilha'[Len(pilha)] /\ Topo = pilha[Len(pilha)]
  BY <1>5 DEF Topo
<1>7. /\ saindo' = saindo \ {d}
      /\ UNCHANGED <<memo, escritas, disco, fuser, splash, tardia>>
  BY DEF Descarta, armazem
<1>8. \A p \in ops' : \E o \in ops : p = IF o.dono = d THEN [o EXCEPT !.dono = 0] ELSE o
  BY DEF Descarta
<1>9. ASSUME NEW p \in ops'
      PROVE  p \in Op /\ p.dono # d /\ (p.dono = 0 \/ \E o \in ops : o.dono = p.dono)
  <2>1. PICK o \in ops : p = IF o.dono = d THEN [o EXCEPT !.dono = 0] ELSE o
    BY <1>8
  <2>2. o \in Op
    BY <1>1 DEF TypeOK
  <2> QED BY <1>2, <2>1, <2>2 DEF Op, Rotas
<1>10. TypeOK'
  BY <1>1, <1>5, <1>7, <1>9 DEF TypeOK
<1>11. InvRotas'
  <2>1. IdsDistintos'
    BY <1>1, <1>4, <1>5, <1>7 DEF InvRotas, IdsDistintos
  <2>2. DonoAlcancavel'
    <3>1. IdsVivos \ {d} \subseteq IdsVivos'
      BY <1>4, <1>5, <1>7 DEF IdsVivos, Indices
    <3> QED BY <1>1, <1>9, <3>1 DEF InvRotas, DonoAlcancavel
  <2>3. AlertaSobreAlgo'
    <3>1. 1 \in Indices
      BY <1>2 DEF Indices
    <3> QED BY <1>1, <1>4, <3>1 DEF InvRotas, AlertaSobreAlgo
  <2>4. AlertaSobreDono'
    <3> SUFFICES ASSUME NEW i \in Indices, pilha'[i].pagina = "alerta", ~pilha'[i].naSaida
                 PROVE  \E j \in 1 .. i - 1 : pilha'[j].id = pilha'[i].dono /\ pilha'[i].dono # 0
      BY <1>5 DEF AlertaSobreDono
    <3>1. PICK j \in 1 .. i - 1 : pilha[j].id = pilha[i].dono /\ pilha[i].dono # 0
      BY <1>1, <1>4 DEF InvRotas, AlertaSobreDono
    <3>2. j \in Indices
      BY <1>2 DEF Indices
    <3>3. pilha[j].id # d
      BY <1>1, <3>1, <3>2 DEF InvRotas, IdsDistintos
    <3> QED BY <1>4, <3>1, <3>2, <3>3
  <2> QED BY <2>1, <2>2, <2>3, <2>4 DEF InvRotas
<1>12. InvTela'
  <2>1. \A i \in Indices : pilha[i].pagina # "splash"
    BY <1>1 DEF InvTela, SplashSozinha
  <2>2. Topo.pagina # "splash"
    BY <1>2, <1>6, <2>1
  <2>3. SplashSozinha'
    BY <1>1, <1>4, <1>5, <1>7, <2>1, <2>2 DEF InvTela, SplashSozinha
  <2>4. HomeUnica'
    BY <1>1, <1>4, <1>5, <1>7 DEF InvTela, HomeUnica, Indices
  <2> QED BY <2>3, <2>4 DEF InvTela
<1>13. InvArmazem'
  BY <1>1, <1>7 DEF InvArmazem, PersistenciaEmOrdem, ErroVazio, Carregado, UltimaEscrita
<1> QED BY <1>10, <1>11, <1>12, <1>13, Partes, PTL

(* The invariant is inductive. *)
LEMMA PassoMantem == IInv /\ [Next]_vars => IInv'
<1> SUFFICES ASSUME IInv, [Next]_vars PROVE IInv'
  OBVIOUS
<1>1. CASE Reinicia
  BY <1>1, ReiniciaMantem DEF IInv
<1>2. CASE \E o \in ops : Resposta(o)
  BY <1>2, RespostaMantem
<1>3. CASE \E d \in saindo : Descarta(d)
  BY <1>3, DescartaMantem
<1>4. CASE UNCHANGED vars
  <2>1. TypeOK'
    BY <1>4 DEF vars, IInv, TypeOK
  <2>2. SplashSozinha' /\ PersistenciaEmOrdem' /\ ErroVazio' /\ HomeUnica'
    BY <1>4 DEF vars, IInv, SplashSozinha, PersistenciaEmOrdem, ErroVazio, HomeUnica, Carregado,
                UltimaEscrita, Indices, Topo
  <2>3. IdsDistintos' /\ DonoAlcancavel' /\ AlertaSobreAlgo' /\ AlertaSobreDono'
    BY <1>4 DEF vars, IInv, IdsDistintos, DonoAlcancavel, AlertaSobreAlgo, AlertaSobreDono,
                IdsVivos, Indices
  <2> QED BY <2>1, <2>2, <2>3 DEF IInv
<1> QED
  BY <1>1, <1>2, <1>3, <1>4, InicializaMantem, UsuarioMantem, PersisteMantem DEF Next

(* The strengthened invariant holds in every reachable state.              *)
THEOREM Invariancia == Spec => []IInv
BY Inicio, PassoMantem, PTL DEF Spec

(* Every reachable state is well typed.                                    *)
THEOREM TipoCorreto == Spec => []TypeOK
<1>1. IInv => TypeOK
  BY DEF IInv
<1> QED BY <1>1, Invariancia, PTL

(* What reaches the disk last is what the memory of Prefs holds            *)
(* (prefs.dart:36-40), whatever logins, logouts and restarts came before.  *)
THEOREM EscritasEmOrdem == Spec => []PersistenciaEmOrdem
<1>1. IInv => PersistenciaEmOrdem
  BY DEF IInv
<1> QED BY <1>1, Invariancia, PTL

(* A start stuck on a user it cannot read has emptied the store            *)
(* (splash_page.dart:27): the next one is not stuck by the same user.      *)
THEOREM TravaSempreCurada == Spec => []TravaCurada
<1>1. IInv => TravaCurada
  <2> SUFFICES ASSUME IInv, splash.prefs = "erro"
               PROVE  /\ Len(pilha) = 1 /\ Topo.pagina = "splash"
                      /\ escritas = <<>> => disco = "vazio"
    BY DEF TravaCurada
  <2>1. Topo.pagina = "splash"
    BY DEF IInv, SplashSozinha
  <2>2. Len(pilha) \in Indices
    BY DEF IInv, TypeOK, Indices
  <2>3. Len(pilha) = 1
    BY <2>1, <2>2 DEF IInv, SplashSozinha, Topo
  <2>4. escritas = <<>> => disco = "vazio"
    BY DEF IInv, PersistenciaEmOrdem, ErroVazio, Carregado, UltimaEscrita
  <2> QED BY <2>1, <2>3, <2>4
<1> QED BY <1>1, Invariancia, PTL

(* Only an alert opened by a page already leaving the screen can be left   *)
(* with an Ok that does nothing (alert_dialog.dart:20).                    *)
THEOREM AlertaFecha == Spec => []AlertaPresoSoNaSaida
<1>1. IInv => AlertaPresoSoNaSaida
  BY DEF IInv, AlertaSobreDono, AlertaPresoSoNaSaida, Indices
<1> QED BY <1>1, Invariancia, PTL

(* Without an answer that opened a Home for a page not on top, no Home is  *)
(* ever under a LoginPage (drawer_list.dart:113), for any depth of stack.  *)
THEOREM HomeSempreUnica == Spec => []HomeUnica
<1>1. IInv => HomeUnica
  BY DEF IInv
<1> QED BY <1>1, Invariancia, PTL

-----------------------------------------------------------------------------
(* The register.                                                           *)

(* What a step does to the store: the process dies, a write reaches the    *)
(* disk, a write is made, or nothing.                                      *)
LEMMA PassoDoArmazem ==
    ASSUME IInv, [Next]_vars
    PROVE  \/ Reinicia
           \/ Persiste
           \/ (\E u \in Usuarios : SetString(u)) /\ Carregado'
           \/ UNCHANGED armazem /\ Carregado' = Carregado
<1>1. TypeOK /\ InvTela
  BY Partes
<1>2. ASSUME Topo.pagina # "splash" PROVE Carregado
  BY <1>1, <1>2, SemSplash DEF InvTela, Carregado
<1>3. ASSUME ops # {} PROVE Topo.pagina # "splash"
  BY <1>1, <1>3, SemSplash DEF InvTela
<1>4. CASE Inicializa
  <2>1. CASE PrefsCarrega
    BY <2>1 DEF PrefsCarrega, Carregado, Usuarios
  <2>2. CASE BancoAbre
    BY <2>2 DEF BancoAbre, Carregado
  <2>3. CASE SplashSegue
    BY <2>3 DEF SplashSegue, Carregado
  <2> QED BY <1>4, <2>1, <2>2, <2>3 DEF Inicializa
<1>5. CASE Usuario
  <2>1. CASE Logout
    <3>1. Topo.pagina # "splash" /\ SetString("vazio") /\ splash' = splash
      BY <2>1 DEF Logout
    <3> QED BY <1>2, <3>1 DEF Carregado, Usuarios
  <2>2. CASE ~Logout
    BY <1>5, <2>2 DEF Usuario, Toca, CadastreSe, Cancelar, AbreOutra, Voltar, OkDoAlerta, Carregado
  <2> QED BY <2>1, <2>2
<1>6. ASSUME NEW o \in ops, Resposta(o)
      PROVE  \/ (\E u \in Usuarios : SetString(u)) /\ Carregado'
             \/ UNCHANGED armazem /\ Carregado' = Carregado
  <2>1. Carregado /\ splash' = splash
    BY <1>2, <1>3, <1>6 DEF Resposta, EntraApi, Autentica, EntraFirebase, DigitalOk, Recusa
  <2>2. Carregado'
    BY <2>1 DEF Carregado
  <2>3. CASE EntraApi(o) \/ EntraFirebase(o)
    BY <2>2, <2>3 DEF EntraApi, EntraFirebase, Usuarios
  <2>4. CASE Autentica(o) \/ DigitalOk(o) \/ Recusa(o)
    BY <2>1, <2>2, <2>4 DEF Autentica, DigitalOk, Recusa
  <2> QED BY <1>6, <2>3, <2>4 DEF Resposta
<1>7. ASSUME NEW d \in saindo, Descarta(d) PROVE UNCHANGED armazem /\ Carregado' = Carregado
  BY <1>7 DEF Descarta, Carregado
<1>8. CASE UNCHANGED vars
  BY <1>8 DEF vars, armazem, Carregado
<1> QED BY <1>4, <1>5, <1>6, <1>7, <1>8 DEF Next

(* Nothing is written before Prefs is loaded. *)
NadaAntes == ~Carregado => escritas = <<>>

LEMMA NadaAntesDeCarregar == Spec => []NadaAntes
<1>1. Init => NadaAntes
  BY DEF Init, Partida, NadaAntes
<1>2. IInv /\ NadaAntes /\ [Next]_vars => NadaAntes'
  <2> SUFFICES ASSUME IInv, NadaAntes, [Next]_vars PROVE NadaAntes'
    OBVIOUS
  <2>1. CASE Reinicia
    BY <2>1 DEF Reinicia, NadaAntes
  <2>2. CASE Persiste
    BY <2>2 DEF Persiste, NadaAntes, Carregado
  <2>3. CASE Carregado'
    BY <2>3 DEF NadaAntes
  <2>4. CASE UNCHANGED armazem /\ Carregado' = Carregado
    BY <2>4 DEF armazem, NadaAntes
  <2> QED BY <2>1, <2>2, <2>3, <2>4, PassoDoArmazem
<1> QED BY <1>1, <1>2, Invariancia, PTL DEF Spec

(* What the register may hold after a crash. *)
EmRisco == {disco} \cup {escritas[i] : i \in 1 .. Len(escritas)}

Registrado == IF Carregado THEN memo ELSE disco

LidoNoRisco == Registrado \in EmRisco

LEMMA Lido == IInv => LidoNoRisco
<1> SUFFICES ASSUME IInv, Carregado PROVE memo \in EmRisco
  BY DEF EmRisco, Registrado, LidoNoRisco
<1>1. escritas \in Seq(Usuarios) /\ Len(escritas) \in Nat
  BY DEF IInv, TypeOK
<1>2. memo = UltimaEscrita
  BY DEF IInv, PersistenciaEmOrdem
<1>3. CASE escritas = <<>>
  BY <1>2, <1>3 DEF UltimaEscrita, EmRisco
<1>4. CASE escritas # <<>>
  <2>1. Len(escritas) \in 1 .. Len(escritas)
    BY <1>1, <1>4
  <2> QED BY <1>2, <1>4, <2>1 DEF UltimaEscrita, EmRisco
<1> QED BY <1>3, <1>4

LEMMA EscritaEntra ==
    ASSUME TypeOK, NEW u \in Usuarios, SetString(u)
    PROVE  EmRisco' = EmRisco \cup {u}
<1>1. escritas \in Seq(Usuarios) /\ Len(escritas) \in Nat
  BY DEF TypeOK
<1>2. escritas' = Append(escritas, u) /\ disco' = disco
  BY DEF SetString
<1>3. /\ Len(escritas') = Len(escritas) + 1
      /\ escritas'[Len(escritas) + 1] = u
      /\ \A i \in 1 .. Len(escritas) : escritas'[i] = escritas[i]
  BY <1>1, <1>2
<1> DEFINE n == Len(escritas)
<1>4. 1 .. n + 1 = (1 .. n) \cup {n + 1}
  BY <1>1
<1> HIDE DEF n
<1>5. {escritas'[i] : i \in 1 .. n + 1} = {escritas[i] : i \in 1 .. n} \cup {u}
  BY <1>3, <1>4 DEF n
<1> QED BY <1>2, <1>3, <1>5 DEF EmRisco, n

LEMMA PersisteTira ==
    ASSUME TypeOK, Persiste
    PROVE  EmRisco' \subseteq EmRisco
<1>1. escritas \in Seq(Usuarios) /\ escritas # <<>> /\ Len(escritas) \in Nat /\ Len(escritas) >= 1
  BY DEF TypeOK, Persiste
<1>2. escritas' = Tail(escritas) /\ disco' = escritas[1]
  BY <1>1 DEF Persiste
<1>3. /\ Len(escritas') = Len(escritas) - 1
      /\ \A i \in 1 .. Len(escritas) - 1 : escritas'[i] = escritas[i + 1]
  BY <1>1, <1>2, HeadTailProperties
<1>4. 1 \in 1 .. Len(escritas) /\ \A i \in 1 .. Len(escritas) - 1 : i + 1 \in 1 .. Len(escritas)
  BY <1>1
<1>5. disco' \in EmRisco
  BY <1>2, <1>4 DEF EmRisco
<1>6. \A i \in 1 .. Len(escritas') : escritas'[i] \in EmRisco
  BY <1>3, <1>4 DEF EmRisco
<1> QED BY <1>5, <1>6 DEF EmRisco

(* "user.prefs" is a register that a crash sets back to a write not yet on *)
(* disk, never further (prefs.dart:36-40), for any number of writes.       *)
THEOREM Implementa == Spec => ImplementaRegistro
<1>1. Init => R!Init
  <2> SUFFICES ASSUME NEW d \in Usuarios, NEW f \in BOOLEAN, Partida(d, f) PROVE R!Init
    BY DEF Init
  <2>1. ~Carregado /\ escritas = <<>> /\ disco \in Usuarios
    BY DEF Partida, Carregado
  <2> QED BY <2>1 DEF R!Init
<1>2. IInv /\ NadaAntes /\ LidoNoRisco' /\ [Next]_vars => [R!Next]_(R!vars)
  <2> SUFFICES ASSUME IInv, NadaAntes, LidoNoRisco', [Next]_vars PROVE [R!Next]_(R!vars)
    OBVIOUS
  <2>1. Registrado' \in EmRisco'
    BY DEF LidoNoRisco
  <2>2. /\ Registrado = IF Carregado THEN memo ELSE disco
        /\ Registrado' = IF Carregado' THEN memo' ELSE disco'
    BY DEF Registrado
  <2>3. TypeOK
    BY DEF IInv
  <2>4. CASE Reinicia
    <3>1. Registrado' = disco /\ EmRisco' = {disco} /\ disco \in EmRisco
      BY <2>4 DEF Reinicia, Carregado, EmRisco, Registrado
    <3> QED BY <2>2, <3>1 DEF R!Next, R!Queda, EmRisco
  <2>5. CASE Persiste
    <3>1. EmRisco' \subseteq EmRisco
      BY <2>3, <2>5, PersisteTira
    <3>2. Carregado
      BY <2>5 DEF Persiste, NadaAntes
    <3>3. Registrado' = Registrado
      BY <2>5, <3>2 DEF Persiste, Carregado, Registrado
    <3> QED BY <2>1, <2>2, <3>1, <3>3 DEF R!Next, R!Assenta, EmRisco
  <2>6. CASE (\E u \in Usuarios : SetString(u)) /\ Carregado'
    <3>1. PICK u \in Usuarios : SetString(u)
      BY <2>6
    <3>2. Registrado' = u
      BY <2>6, <3>1 DEF SetString, Registrado
    <3>3. EmRisco' = EmRisco \cup {u}
      BY <2>3, <3>1, EscritaEntra
    <3> QED BY <2>2, <3>2, <3>3 DEF R!Next, R!Escreve, EmRisco
  <2>7. CASE UNCHANGED armazem /\ Carregado' = Carregado
    BY <2>7 DEF armazem, R!vars
  <2> QED BY <2>4, <2>5, <2>6, <2>7, PassoDoArmazem
<1> QED BY <1>1, <1>2, Invariancia, NadaAntesDeCarregar, Lido, PTL DEF Spec, ImplementaRegistro, R!Spec

-----------------------------------------------------------------------------
(* The way in.                                                             *)

TokenDeLogin ==
    Legivel(memo') /\ ~Legivel(memo) =>
        \E o \in ops \ ops' : o.tipo \in {"api", "cadastro"}

(* The token of a session comes only from an API login or a sign-up of the *)
(* same run (splash_page.dart:27, login_page.dart:315), for any bounds.    *)
THEOREM TokenDepoisDeLogin == Spec => TokenSoDeLogin
<1>1. [Next]_vars => TokenDeLogin
  <2> SUFFICES ASSUME [Next]_vars, Legivel(memo'), ~Legivel(memo)
               PROVE  \E o \in ops \ ops' : o.tipo \in {"api", "cadastro"}
    BY DEF TokenDeLogin
  <2>1. memo' = "completo" /\ memo' # memo
    BY DEF Legivel
  <2>2. CASE Inicializa
    BY <2>1, <2>2 DEF Inicializa, PrefsCarrega, BancoAbre, SplashSegue, SetString, armazem
  <2>3. CASE Usuario
    BY <2>1, <2>3 DEF Usuario, Toca, CadastreSe, Cancelar, Logout, AbreOutra, Voltar, OkDoAlerta,
                      SetString, armazem
  <2>4. CASE Persiste \/ Reinicia
    BY <2>1, <2>4 DEF Persiste, Reinicia
  <2>5. ASSUME NEW o \in ops, Resposta(o)
        PROVE  \E p \in ops \ ops' : p.tipo \in {"api", "cadastro"}
    <3>1. CASE EntraApi(o)
      <4>1. o.tipo = "api" /\ ops' = ops \ {o}
        BY <3>1 DEF EntraApi
      <4> QED BY <4>1
    <3>2. CASE EntraFirebase(o)
      <4>1. ops' = ops \ {o} /\ memo' = IF o.tipo = "cadastro" THEN "completo" ELSE "semRoles"
        BY <3>2 DEF EntraFirebase, SetString
      <4>2. o.tipo = "cadastro"
        BY <2>1, <4>1
      <4> QED BY <4>1, <4>2
    <3>3. CASE Autentica(o) \/ DigitalOk(o) \/ Recusa(o)
      BY <2>1, <3>3 DEF Autentica, DigitalOk, Recusa, armazem
    <3> QED BY <2>5, <3>1, <3>2, <3>3 DEF Resposta
  <2>6. ASSUME NEW d \in saindo, Descarta(d) PROVE FALSE
    BY <2>1, <2>6 DEF Descarta, armazem
  <2>7. CASE UNCHANGED vars
    BY <2>1, <2>7 DEF vars
  <2> QED BY <2>2, <2>3, <2>4, <2>5, <2>6, <2>7 DEF Next
<1> QED BY <1>1, PTL DEF Spec, TokenSoDeLogin, TokenDeLogin

(* A stack with no Home that was not there before has no more of them.     *)
LEMMA SemHomeNova ==
    ASSUME Len(pilha) \in Nat, Homes(pilha') \subseteq Homes(pilha)
    PROVE  ~(Cardinality(Homes(pilha')) > Cardinality(Homes(pilha)))
<1>1. IsFiniteSet(1 .. Len(pilha))
  BY FS_Interval
<1>2. IsFiniteSet(Homes(pilha))
  BY <1>1, FS_Subset DEF Homes
<1>3. /\ Cardinality(Homes(pilha')) <= Cardinality(Homes(pilha))
      /\ Cardinality(Homes(pilha')) \in Nat /\ Cardinality(Homes(pilha)) \in Nat
  BY <1>2, FS_Subset, FS_CardinalityType
<1> QED BY <1>3

(* What the moves of the Navigator do to the Homes. *)
LEMMA TrocaHomes ==
    ASSUME TypeOK, NEW r, r.pagina # "home", r \in Rota, pilha' = Append(Abaixo, r)
    PROVE  Homes(pilha') \subseteq Homes(pilha)
<1>1. pilha \in Seq(Rota) /\ Len(pilha) \in Nat /\ Len(pilha) >= 1
  BY DEF TypeOK
<1> QED BY <1>1, Troca DEF Homes

LEMMA PoeHomes ==
    ASSUME TypeOK, NEW r, r.pagina # "home", r \in Rota, pilha' = Append(pilha, r)
    PROVE  Homes(pilha') \subseteq Homes(pilha)
<1>1. pilha \in Seq(Rota) /\ Len(pilha) \in Nat
  BY DEF TypeOK
<1>2. /\ Len(pilha') = Len(pilha) + 1
      /\ \A i \in 1 .. Len(pilha) : pilha'[i] = pilha[i]
      /\ pilha'[Len(pilha) + 1] = r
  BY <1>1, PoeTopo
<1> QED BY <1>1, <1>2 DEF Homes

LEMMA TiraHomes ==
    ASSUME TypeOK, Len(pilha) > 1, pilha' = Abaixo
    PROVE  Homes(pilha') \subseteq Homes(pilha)
<1>1. pilha \in Seq(Rota) /\ Len(pilha) \in Nat
  BY DEF TypeOK
<1> QED BY <1>1, Tirado DEF Homes

(* What a Home comes on evidence of. *)
Evidencia ==
    \/ memo' # "vazio"
    \/ Topo.pagina = "splash" /\ (splash.prefs = "usuario" \/ splash.user2)
    \/ \E o \in ops \ ops' : o.tipo = "digital"

SemNova == Homes(pilha') \subseteq Homes(pilha)

LEMMA PortaInicializa == IInv /\ Inicializa => SemNova \/ Evidencia
<1> SUFFICES ASSUME IInv, Inicializa, ~Evidencia PROVE SemNova
  OBVIOUS
<1>1. CASE PrefsCarrega \/ BancoAbre
  BY <1>1 DEF PrefsCarrega, BancoAbre, SemNova, Homes
<1>2. CASE SplashSegue
  <2>1. TypeOK /\ InvRotas /\ InvTela
    BY Partes
  <2>2. Len(pilha) = 1 /\ saindo = {} /\ pilha[1].pagina = "splash"
    <3>1. Len(pilha) \in Indices
      BY <2>1 DEF TypeOK, Indices
    <3>2. Len(pilha) = 1 /\ saindo = {}
      BY <1>2, <2>1, <3>1 DEF SplashSegue, InvTela, SplashSozinha, Topo
    <3> QED BY <1>2, <3>2 DEF SplashSegue, Topo
  <2>3. HaRota
    <3>1. pilha[1].id = 0
      BY <2>1, <2>2 DEF InvRotas, IdsDistintos, Indices
    <3>2. IdsVivos = {0}
      BY <2>2, <3>1 DEF IdsVivos
    <3> QED BY <3>2 DEF HaRota
  <2>4. memo' = memo /\ ~(splash.prefs = "usuario" \/ splash.user2)
    BY <1>2 DEF SplashSegue, armazem, Evidencia
  <2>5. LoginOuHome = ComHandlers("login")
    BY <2>4 DEF LoginOuHome, Legivel, Evidencia
  <2>6. pilha' = Append(Abaixo, ComHandlers("login"))
    BY <1>2, <2>4, <2>5 DEF SplashSegue, PushReplacement
  <2>7. ComHandlers("login") \in Rota /\ ComHandlers("login").pagina # "home"
    BY <2>3, RotasNovas DEF Paginas
  <2> QED BY <2>1, <2>6, <2>7, TrocaHomes DEF SemNova
<1> QED BY <1>1, <1>2 DEF Inicializa

LEMMA PortaUsuario == IInv /\ Usuario => SemNova \/ Evidencia
<1> SUFFICES ASSUME IInv, Usuario, ~Evidencia PROVE SemNova
  OBVIOUS
<1>1. TypeOK /\ InvRotas
  BY Partes
<1>2. CASE \E tipo \in {"api", "fire", "digital", "cadastro"} : Toca(tipo)
  BY <1>2 DEF Toca, SemNova, Homes
<1>3. CASE CadastreSe \/ Cancelar \/ Logout
  <2>1. \E p \in {"cadastro", "login"} : pilha' = Append(Abaixo, ComHandlers(p))
    <3>1. CASE CadastreSe \/ Logout
      BY <3>1 DEF CadastreSe, Logout, PushReplacement
    <3>2. CASE Cancelar
      <4>1. memo' = memo
        BY <3>2 DEF Cancelar, armazem
      <4>2. LoginOuHome = ComHandlers("login")
        BY <4>1 DEF LoginOuHome, Legivel, Evidencia
      <4> QED BY <3>2, <4>2 DEF Cancelar, PushReplacement
    <3> QED BY <1>3, <3>1, <3>2
  <2>2. HaRota
    BY <1>3 DEF CadastreSe, Cancelar, Logout
  <2>3. \A p \in {"cadastro", "login"} : ComHandlers(p) \in Rota /\ ComHandlers(p).pagina = p
    BY <2>2, RotasNovas DEF Paginas
  <2> QED BY <1>1, <2>1, <2>3, TrocaHomes DEF SemNova
<1>4. CASE AbreOutra
  <2>1. pilha' = Append(pilha, Simples("outra"))
    BY <1>4 DEF AbreOutra, Push
  <2>2. Simples("outra") \in Rota /\ Simples("outra").pagina # "home"
    BY RotasNovas DEF Paginas
  <2> QED BY <1>1, <2>1, <2>2, PoeHomes DEF SemNova
<1>5. CASE Voltar \/ OkDoAlerta
  <2>1. pilha' = Abaixo
    BY <1>5 DEF Voltar, OkDoAlerta, Pop
  <2>2. Len(pilha) > 1
    BY <1>1, <1>5, PopDeixaPagina DEF InvRotas
  <2> QED BY <1>1, <2>1, <2>2, TiraHomes DEF SemNova
<1> QED BY <1>2, <1>3, <1>4, <1>5 DEF Usuario

LEMMA PortaResposta ==
    ASSUME IInv, NEW o \in ops, Resposta(o) PROVE SemNova \/ Evidencia
<1>1. TypeOK /\ o \in Op
  BY DEF IInv, TypeOK
<1>2. CASE EntraApi(o) \/ EntraFirebase(o)
  BY <1>2 DEF EntraApi, EntraFirebase, SetString, Evidencia
<1>3. CASE DigitalOk(o)
  BY <1>3 DEF DigitalOk, Evidencia
<1>4. CASE Autentica(o)
  BY <1>4 DEF Autentica, SemNova, Homes
<1>5. CASE Recusa(o)
  <2>1. CASE UNCHANGED pilha
    BY <2>1 DEF SemNova, Homes
  <2>2. CASE pilha' = Append(pilha, Alerta(o.dono))
    <3> DEFINE r == Alerta(o.dono)
    <3>1. o.dono \in Rotas /\ 0 \in Rotas
      BY <1>1 DEF Op, Rotas
    <3>2. r.pagina = "alerta" /\ r.id = 0 /\ r.dono = o.dono /\ r.naSaida \in BOOLEAN
      BY DEF Alerta
    <3>3. r = [pagina |-> r.pagina, id |-> r.id, dono |-> r.dono, naSaida |-> r.naSaida]
      BY DEF Alerta
    <3>4. pilha' = Append(pilha, r)
      BY <2>2
    <3> HIDE DEF r
    <3>5. r \in Rota
      BY <3>1, <3>2, <3>3 DEF Rota, Paginas
    <3> QED BY <1>1, <3>2, <3>4, <3>5, PoeHomes DEF SemNova
  <2> QED BY <1>5, <2>1, <2>2 DEF Recusa, Push
<1> QED BY <1>2, <1>3, <1>4, <1>5 DEF Resposta

Porta == Cardinality(Homes(pilha')) > Cardinality(Homes(pilha)) => Evidencia

(* A Home comes onto the stack only on evidence of a user (splash_page.dart *)
(* :31-42, login_page.dart:61-65), for any depth of stack and any number   *)
(* of logins in flight.                                                    *)
THEOREM PortaSempreVigiada == Spec => PortaDaHome
<1>1. IInv /\ [Next]_vars => Porta
  <2> SUFFICES ASSUME IInv, [Next]_vars PROVE Porta
    OBVIOUS
  <2>1. pilha \in Seq(Rota) /\ Len(pilha) \in Nat
    BY DEF IInv, TypeOK
  <2>2. SemNova \/ Evidencia
    <3>1. CASE Reinicia
      BY <3>1 DEF Reinicia, SemNova, Homes, Simples
    <3>2. CASE Persiste \/ UNCHANGED vars
      BY <3>2 DEF Persiste, vars, SemNova, Homes
    <3>3. ASSUME NEW d \in saindo, Descarta(d) PROVE SemNova
      <4>1. pilha' = [i \in 1 .. Len(pilha) |->
                        IF pilha[i].dono = d THEN [pilha[i] EXCEPT !.dono = 0] ELSE pilha[i]]
        BY <3>3 DEF Descarta
      <4>2. \A i \in 1 .. Len(pilha) : pilha[i] \in Rota
        BY <2>1
      <4>3. \A i \in 1 .. Len(pilha) : pilha'[i].pagina = pilha[i].pagina
        BY <4>1, <4>2 DEF Rota
      <4>4. Len(pilha') = Len(pilha)
        BY <2>1, <4>1
      <4> QED BY <4>3, <4>4 DEF SemNova, Homes
    <3> QED BY <3>1, <3>2, <3>3, PortaInicializa, PortaUsuario, PortaResposta DEF Next
  <2>3. CASE SemNova
    BY <2>1, <2>3, SemHomeNova DEF SemNova, Porta
  <2>4. CASE Evidencia
    BY <2>4 DEF Porta
  <2> QED BY <2>2, <2>3, <2>4
<1> QED BY <1>1, Invariancia, PTL DEF Spec, PortaDaHome, Porta, Evidencia

-----------------------------------------------------------------------------
(* A start ends.  The prover knows nothing of ENABLED: that a future can   *)
(* come and the page go on (PartidaNuncaPresa), which holds by the shape   *)
(* of the guards, is a hypothesis; the rest is proved.                     *)

LEMMA TopoDepois ==
    ASSUME TypeOK, NEW r \in Rota, pilha' = Append(Abaixo, r) \/ pilha' = Append(pilha, r)
    PROVE  Topo' = r
<1>1. pilha \in Seq(Rota) /\ Len(pilha) \in Nat /\ Len(pilha) >= 1
  BY DEF TypeOK
<1>2. CASE pilha' = Append(Abaixo, r)
  BY <1>1, <1>2, Troca DEF Topo
<1>3. CASE pilha' = Append(pilha, r)
  BY <1>1, <1>3, PoeTopo DEF Topo
<1> QED BY <1>2, <1>3

(* What comes on top when the splash page is not there.                    *)
LEMMA TopoDaSessao ==
    ASSUME IInv, [Next]_vars, [~Reinicia]_vars, Topo.pagina # "splash"
    PROVE  Topo'.pagina # "splash"
<1>1. /\ TypeOK /\ pilha \in Seq(Rota) /\ Len(pilha) \in Nat /\ Len(pilha) >= 1
      /\ \A i \in Indices : pilha[i].pagina # "splash"
  BY SemSplash DEF IInv, TypeOK
<1>2. CASE UNCHANGED pilha
  BY <1>2 DEF Topo
<1>3. ASSUME NEW r \in Rota, r.pagina # "splash",
             pilha' = Append(Abaixo, r) \/ pilha' = Append(pilha, r)
      PROVE  Topo'.pagina # "splash"
  BY <1>1, <1>3, TopoDepois
<1>4. ASSUME Len(pilha) > 1, pilha' = Abaixo
      PROVE  Topo'.pagina # "splash"
  <2>1. Len(pilha') = Len(pilha) - 1 /\ pilha'[Len(pilha) - 1] = pilha[Len(pilha) - 1]
    BY <1>1, <1>4, Tirado
  <2>2. Len(pilha) - 1 \in Indices
    BY <1>1, <1>4 DEF Indices
  <2> QED BY <1>1, <2>1, <2>2 DEF Topo
<1>5. CASE Inicializa
  <2>1. UNCHANGED pilha
    BY <1>5 DEF Inicializa, PrefsCarrega, BancoAbre, SplashSegue
  <2> QED BY <1>2, <2>1
<1>6. CASE Usuario
  <2>1. CASE \E tipo \in {"api", "fire", "digital", "cadastro"} : Toca(tipo)
    BY <1>2, <2>1 DEF Toca
  <2>2. CASE CadastreSe \/ Cancelar \/ Logout
    <3>1. HaRota /\ \/ \E p \in {"cadastro", "login"} : pilha' = Append(Abaixo, ComHandlers(p))
                    \/ pilha' = Append(Abaixo, Simples("home"))
      BY <2>2 DEF CadastreSe, Cancelar, Logout, LoginOuHome, PushReplacement
    <3>2. /\ \A p \in {"cadastro", "login"} : /\ ComHandlers(p) \in Rota
                                              /\ ComHandlers(p).pagina = p
          /\ Simples("home") \in Rota /\ Simples("home").pagina = "home"
      BY <3>1, RotasNovas DEF Paginas
    <3> QED BY <1>3, <3>1, <3>2
  <2>3. CASE AbreOutra
    <3>1. pilha' = Append(pilha, Simples("outra"))
      BY <2>3 DEF AbreOutra, Push
    <3>2. Simples("outra") \in Rota /\ Simples("outra").pagina = "outra"
      BY RotasNovas DEF Paginas
    <3> QED BY <1>3, <3>1, <3>2
  <2>4. CASE Voltar \/ OkDoAlerta
    <3>1. pilha' = Abaixo
      BY <2>4 DEF Voltar, OkDoAlerta, Pop
    <3>2. Len(pilha) > 1
      BY <2>4, PopDeixaPagina DEF IInv
    <3> QED BY <1>4, <3>1, <3>2
  <2> QED BY <1>6, <2>1, <2>2, <2>3, <2>4 DEF Usuario
<1>7. ASSUME NEW o \in ops, Resposta(o)
      PROVE  Topo'.pagina # "splash"
  <2>1. CASE UNCHANGED pilha
    BY <1>2, <2>1
  <2>2. CASE EntraApi(o) \/ DigitalOk(o) \/ EntraFirebase(o)
    <3>1. \/ UNCHANGED pilha
          \/ pilha' = Append(Abaixo, Simples("home"))
          \/ pilha' = Append(pilha, Simples("home"))
      BY <2>2 DEF EntraApi, DigitalOk, EntraFirebase, HomeNoLugar, HomePorCima,
                  PushReplacement, Push
    <3>2. Simples("home") \in Rota /\ Simples("home").pagina = "home"
      BY RotasNovas DEF Paginas
    <3> QED BY <1>2, <1>3, <3>1, <3>2
  <2>3. CASE pilha' = Append(pilha, Alerta(o.dono))
    <3> DEFINE r == Alerta(o.dono)
    <3>1. o.dono \in Rotas /\ 0 \in Rotas
      BY <1>1, <1>7 DEF TypeOK, Op, Rotas
    <3>2. r.pagina = "alerta" /\ r.id = 0 /\ r.dono = o.dono /\ r.naSaida \in BOOLEAN
      BY DEF Alerta
    <3>3. r = [pagina |-> r.pagina, id |-> r.id, dono |-> r.dono, naSaida |-> r.naSaida]
      BY DEF Alerta
    <3>4. pilha' = Append(pilha, r)
      BY <2>3
    <3> HIDE DEF r
    <3>5. r \in Rota
      BY <3>1, <3>2, <3>3 DEF Rota, Paginas
    <3> QED BY <1>3, <3>2, <3>4, <3>5
  <2> QED BY <1>7, <2>1, <2>2, <2>3 DEF Resposta, Autentica, Recusa, Push
<1>8. ASSUME NEW d \in saindo, Descarta(d)
      PROVE  Topo'.pagina # "splash"
  <2>1. pilha' = [i \in 1 .. Len(pilha) |->
                    IF pilha[i].dono = d THEN [pilha[i] EXCEPT !.dono = 0] ELSE pilha[i]]
    BY <1>8 DEF Descarta
  <2>2. Len(pilha) \in 1 .. Len(pilha) /\ pilha[Len(pilha)] \in Rota
    BY <1>1
  <2>3. Len(pilha') = Len(pilha)
    BY <1>1, <2>1
  <2>4. pilha'[Len(pilha)].pagina = pilha[Len(pilha)].pagina
    BY <2>1, <2>2 DEF Rota
  <2> QED BY <2>3, <2>4 DEF Topo
<1> QED BY <1>2, <1>5, <1>6, <1>7, <1>8 DEF Next, Persiste, vars

(* The futures come once, what they brought stays while it matters.        *)
LEMMA PassoDaPartida ==
    ASSUME IInv, [Next]_vars, [~Reinicia]_vars
    PROVE  /\ PrefsCarrega => splash'.prefs # "espera"
           /\ BancoAbre => splash'.banco # "espera"
           /\ SplashSegue => Topo'.pagina # "splash"
           /\ splash.prefs # "espera" => splash'.prefs # "espera"
           /\ splash.banco # "espera" => splash'.banco # "espera"
           /\ SplashAcabou => SplashAcabou'
<1>1. TypeOK /\ splash \in Splash
  BY DEF IInv, TypeOK
<1>2. \/ splash' = splash
      \/ PrefsCarrega \/ BancoAbre \/ SplashSegue
  BY DEF Next, Inicializa, Usuario, Toca, CadastreSe, Cancelar, Logout, AbreOutra, Voltar,
         OkDoAlerta, Persiste, Resposta, EntraApi, Autentica, EntraFirebase, DigitalOk,
         Recusa, Descarta, vars
<1>3. ASSUME PrefsCarrega
      PROVE  /\ splash.prefs = "espera" /\ splash'.prefs # "espera"
             /\ splash'.banco = splash.banco /\ pilha' = pilha
  BY <1>1, <1>3 DEF PrefsCarrega, Splash
<1>4. ASSUME BancoAbre
      PROVE  /\ splash.banco = "espera" /\ splash'.banco # "espera"
             /\ splash'.prefs = splash.prefs /\ pilha' = pilha
  BY <1>1, <1>4 DEF BancoAbre, Splash
<1>5. ASSUME SplashSegue
      PROVE  /\ splash.prefs # "espera" /\ splash'.prefs # "espera"
             /\ splash'.banco = "ok" /\ splash.banco = "ok" /\ Topo'.pagina # "splash"
  <2>1. /\ splash'.prefs = "nulo" /\ splash'.banco = splash.banco
        /\ splash.prefs # "espera" /\ splash.banco = "ok"
    BY <1>1, <1>5 DEF SplashSegue, Splash
  <2>2. Len(pilha) = 1 /\ saindo = {} /\ pilha[1].pagina = "splash"
    <3>1. Len(pilha) \in Indices
      BY <1>1 DEF TypeOK, Indices
    <3>2. Len(pilha) = 1 /\ saindo = {}
      BY <1>5, <3>1 DEF SplashSegue, IInv, SplashSozinha, Topo
    <3> QED BY <1>5, <3>2 DEF SplashSegue, Topo
  <2>3. HaRota
    <3>1. pilha[1].id = 0
      BY <2>2 DEF IInv, IdsDistintos, Indices
    <3>2. IdsVivos = {0}
      BY <2>2, <3>1 DEF IdsVivos
    <3> QED BY <3>2 DEF HaRota
  <2>4. PICK r \in Rota : pilha' = Append(Abaixo, r) /\ r.pagina \in {"home", "login"}
    BY <1>5, <2>3, RotasNovas DEF SplashSegue, LoginOuHome, PushReplacement, Paginas
  <2>5. Topo' = r
    BY <1>1, <2>4, TopoDepois
  <2> QED BY <2>1, <2>4, <2>5
<1>6. Topo.pagina # "splash" => Topo'.pagina # "splash"
  BY TopoDaSessao
<1>7. /\ splash.prefs # "espera" => splash'.prefs # "espera"
      /\ splash.banco # "espera" => splash'.banco # "espera"
  BY <1>2, <1>3, <1>4, <1>5
<1>8. SplashAcabou => SplashAcabou'
  BY <1>2, <1>3, <1>4, <1>5, <1>6 DEF SplashAcabou
<1> QED BY <1>3, <1>4, <1>5, <1>7, <1>8

(* Unless the process is killed for ever or a future fails, a start leaves *)
(* the splash page for good (splash_page.dart:25-43): for all bounds, if   *)
(* the futures can come and the page go on.                                *)
THEOREM SplashSempreTermina == LiveSpec /\ []PartidaNuncaPresa => SplashTermina
<1> DEFINE P == splash.prefs = "espera"
           B == splash.banco = "espera"
<1>1. IInv /\ [Next]_vars /\ [~Reinicia]_vars =>
          /\ PrefsCarrega => ~P'
          /\ BancoAbre => ~B'
          /\ SplashSegue => SplashAcabou'
          /\ ~P => ~P'
          /\ ~B => ~B'
          /\ SplashAcabou => SplashAcabou'
  BY PassoDaPartida DEF SplashAcabou
<1>2. IInv /\ ~P /\ ~B => SplashAcabou \/ SplashPronta
  BY DEF IInv, TypeOK, Splash, SplashAcabou, SplashPronta
<1>3. PartidaNuncaPresa => /\ P => ENABLED <<PrefsCarrega>>_vars
                           /\ B => ENABLED <<BancoAbre>>_vars
                           /\ SplashPronta => ENABLED <<SplashSegue>>_vars
  BY DEF PartidaNuncaPresa
<1> HIDE DEF P, B
<1> QED BY <1>1, <1>2, <1>3, Invariancia, PTL DEF LiveSpec, Spec, SplashTermina, SemMaisQuedas
=============================================================================
