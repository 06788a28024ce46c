--------------------------- MODULE Edicao_proofs ---------------------------
(* Proofs about Edicao, for all bounds and all sets of tipos and cars.     *)
EXTENDS Edicao, SequenceTheorems, TLAPS

USE ConstantesOK

(* The part of the invariant about the stack, and about the handlers. *)
InvPilha == Empilhamento /\ IdsDistintos /\ OkFechaQuemPediu

InvOps == DonoAlcancavel /\ CarroDaPagina /\ CorpoAtual

LEMMA Partes == IInv <=> TypeOK /\ InvPilha /\ InvOps
BY DEF IInv, InvPilha, InvOps

(* What the type invariant says of the stack. *)
LEMMA Pilha ==
    ASSUME TypeOK
    PROVE  /\ pilha \in Seq(Rota) /\ Len(pilha) \in Nat
           /\ \A i \in Indices : pilha[i] \in Rota
           /\ pilha # <<>> => Len(pilha) \in Indices /\ Topo = pilha[Len(pilha)] /\ Topo \in Rota
BY DEF TypeOK, Indices, Topo

-----------------------------------------------------------------------------
(* The moves of the Navigator.                                             *)

LEMMA Empurra ==
    ASSUME TypeOK, NEW r \in Rota, Push(r)
    PROVE  /\ pilha' \in Seq(Rota) /\ Len(pilha') = Len(pilha) + 1 /\ Len(pilha') <= MaxPilha
           /\ Indices' = Indices \cup {Len(pilha) + 1} /\ Len(pilha) + 1 \notin Indices
           /\ \A i \in Indices : pilha'[i] = pilha[i] /\ i < Len(pilha) + 1
           /\ pilha'[Len(pilha) + 1] = r
           /\ saindo' = saindo
BY Pilha DEF Push, Indices

(* Where a page may be pushed: pages with an id and the sheet over Home,   *)
(* the menu over a CarroPage.                                              *)
Lugar(r) == \/ r.pagina \in {"carro", "form"} /\ r.id # 0 /\ r.id \notin IdsVivos /\ NoTopo("home")
            \/ r.pagina = "folha" /\ r.id = 0 /\ NoTopo("home")
            \/ r.pagina = "menu" /\ r.id = 0 /\ NoTopo("carro")

(* A push keeps the invariant of the stack, of an alert or of a page that  *)
(* has its place.                                                          *)
LEMMA PushMantem ==
    ASSUME TypeOK, InvPilha, NEW r \in Rota, Push(r),
           \/ /\ r.pagina = "alerta" /\ r.id = 0
              /\ ~r.naSaida => r.dono # 0 /\ \E j \in Indices : pilha[j].id = r.dono
           \/ Lugar(r)
    PROVE  InvPilha'
<1> DEFINE n == Len(pilha)
<1>1. /\ n \in Nat
      /\ Indices' = Indices \cup {n + 1} /\ n + 1 \notin Indices
      /\ \A i \in Indices : pilha'[i] = pilha[i] /\ i < n + 1
      /\ pilha'[n + 1] = r
      /\ saindo' = saindo
      /\ Indices = 1 .. n
  BY Empurra, Pilha DEF Indices
<1>2. r.pagina # "alerta" =>
         /\ n \in Indices
         /\ \/ pilha[n].pagina = "home" /\ n = 1 /\ r.pagina \in {"carro", "form", "folha"}
            \/ pilha[n].pagina = "carro" /\ n = 2 /\ r.pagina = "menu"
  <2> SUFFICES ASSUME Lugar(r)
               PROVE  /\ n \in Indices
                      /\ \/ /\ pilha[n].pagina = "home" /\ n = 1
                            /\ r.pagina \in {"carro", "form", "folha"}
                         \/ pilha[n].pagina = "carro" /\ n = 2 /\ r.pagina = "menu"
    OBVIOUS
  <2>1. n \in Indices /\ Topo = pilha[n]
    BY Pilha DEF Lugar, NoTopo
  <2> QED BY <2>1 DEF Lugar, NoTopo, InvPilha, Empilhamento
<1>3. Empilhamento'
  <2>1. ASSUME NEW i \in Indices'
        PROVE  /\ pilha'[i].pagina = "home" => i = 1
               /\ pilha'[i].pagina \in {"carro", "folha"} => i = 2
               /\ pilha'[i].pagina = "form" => i \in {2, 3}
               /\ pilha'[i].pagina = "menu" => i = 3
               /\ pilha'[i].pagina \in {"menu", "form"} /\ i = 3 => pilha'[2].pagina = "carro"
    <3>1. CASE i \in Indices
      <4>1. i = 3 => 2 \in Indices
        BY <1>1, <3>1
      <4> QED BY <1>1, <3>1, <4>1 DEF InvPilha, Empilhamento
    <3>2. CASE i = n + 1
      <4>1. pilha'[i] = r
        BY <1>1, <3>2
      <4>2. CASE r.pagina = "alerta"
        BY <4>1, <4>2
      <4>3. CASE n = 1 /\ r.pagina \in {"carro", "form", "folha"}
        <5>1. i = 2
          BY <3>2, <4>3
        <5> QED BY <4>1, <4>3, <5>1
      <4>4. CASE n = 2 /\ n \in Indices /\ pilha[n].pagina = "carro" /\ r.pagina = "menu"
        <5>1. i = 3 /\ pilha'[2].pagina = "carro"
          BY <1>1, <3>2, <4>4
        <5> QED BY <4>1, <4>4, <5>1
      <4> QED BY <1>2, <4>2, <4>3, <4>4
    <3> QED BY <1>1, <3>1, <3>2
  <2>2. ASSUME NEW i \in Indices', NEW j \in Indices', i < j,
               pilha'[i].pagina \in {"folha", "menu", "alerta"}
        PROVE  pilha'[j].pagina = "alerta"
    <3>1. i \in Indices /\ pilha[i].pagina \in {"folha", "menu", "alerta"}
      BY <1>1, <2>2
    <3>2. CASE j \in Indices
      BY <1>1, <2>2, <3>1, <3>2 DEF InvPilha, Empilhamento
    <3>3. CASE j = n + 1
      <4>1. n \in Indices /\ (i = n \/ i < n)
        BY <1>1, <3>1
      <4>2. pilha[n].pagina \in {"folha", "menu", "alerta"}
        BY <3>1, <4>1 DEF InvPilha, Empilhamento
      <4>3. r.pagina = "alerta"
        BY <1>2, <4>2
      <4> QED BY <1>1, <3>3, <4>3
    <3> QED BY <1>1, <3>2, <3>3
  <2> QED BY <2>1, <2>2 DEF Empilhamento
<1>4. IdsDistintos'
  <2>1. r.id # 0 <=> r.pagina \in {"carro", "form"}
    BY DEF Lugar
  <2>2. /\ r.id \notin saindo
        /\ r.id # 0 => \A i \in Indices : pilha[i].id # r.id
    <3>1. 0 \notin saindo
      BY DEF TypeOK
    <3> QED BY <3>1 DEF Lugar, IdsVivos, Indices
  <2>3. ASSUME NEW i \in Indices'
        PROVE  /\ pilha'[i].id # 0 <=> pilha'[i].pagina \in {"carro", "form"}
               /\ pilha'[i].id \notin saindo'
    BY <1>1, <2>1, <2>2 DEF InvPilha, IdsDistintos
  <2>4. ASSUME NEW i \in Indices', NEW j \in Indices',
               pilha'[i].id = pilha'[j].id, pilha'[i].id # 0
        PROVE  i = j
    BY <1>1, <2>2, <2>4 DEF InvPilha, IdsDistintos
  <2> QED BY <2>3, <2>4 DEF IdsDistintos
<1>5. OkFechaQuemPediu'
  <2> SUFFICES ASSUME NEW i \in Indices', pilha'[i].pagina = "alerta", ~pilha'[i].naSaida
               PROVE  \E j \in 1 .. i - 1 :
                         /\ pilha'[j].id = pilha'[i].dono /\ pilha'[i].dono # 0
                         /\ \A k \in j + 1 .. i - 1 : EntreElas(j, k)'
    BY DEF OkFechaQuemPediu
  <2>1. CASE i \in Indices
    <3>1. PICK j \in 1 .. i - 1 : /\ pilha[j].id = pilha[i].dono /\ pilha[i].dono # 0
                                  /\ \A k \in j + 1 .. i - 1 : EntreElas(j, k)
      BY <1>1, <2>1 DEF InvPilha, OkFechaQuemPediu
    <3>2. pilha'[i] = pilha[i] /\ \A k \in 1 .. i - 1 : pilha'[k] = pilha[k]
      BY <1>1, <2>1
    <3>3. \A k \in j + 1 .. i - 1 : k \in 1 .. i - 1
      BY <1>1, <2>1
    <3>4. \A k \in j + 1 .. i - 1 : EntreElas(j, k)'
      BY <3>1, <3>2, <3>3 DEF EntreElas
    <3> QED BY <3>1, <3>2, <3>4
  <2>2. CASE i = n + 1
    <3>1. PICK j \in Indices : pilha[j].id = r.dono /\ r.dono # 0
      BY <1>1, <2>2 DEF Lugar
    <3>2. pilha[j].pagina \in {"carro", "form"} /\ j \in {2, 3}
      BY <3>1 DEF InvPilha, IdsDistintos, Empilhamento
    <3>3. ASSUME NEW k \in j + 1 .. i - 1
          PROVE  EntreElas(j, k)'
      <4>1. k \in Indices /\ k >= 3 /\ j < k /\ pilha[k] \in Rota
        BY <1>1, <2>2, <3>2, Pilha
      <4>2. pilha[k].pagina \in {"menu", "form", "alerta"}
        BY <4>1 DEF Rota, InvPilha, Empilhamento
      <4>3. pilha[k].pagina \in {"menu", "form"} => k = 3 /\ j = 2 /\ pilha[j].pagina = "carro"
        BY <3>2, <4>1 DEF InvPilha, Empilhamento
      <4> QED BY <1>1, <3>1, <4>1, <4>2, <4>3 DEF EntreElas
    <3>4. j \in 1 .. i - 1 /\ pilha'[j] = pilha[j] /\ pilha'[i] = r
      BY <1>1, <2>2, <3>1
    <3> QED BY <3>1, <3>3, <3>4
  <2> QED BY <1>1, <2>1, <2>2
<1> QED BY <1>3, <1>4, <1>5 DEF InvPilha

(* An item of a sheet or a menu puts its page in its place. *)
LEMMA TrocaMantem ==
    ASSUME TypeOK, InvPilha, NEW r \in Rota, Troca(r),
           r.id # 0, r.id \notin IdsVivos,
           \/ NoTopo("folha") /\ r.pagina = "carro"
           \/ NoTopo("menu") /\ r.pagina = "form"
    PROVE  /\ InvPilha'
           /\ pilha' \in Seq(Rota) /\ Len(pilha') = Len(pilha) /\ Indices' = Indices
           /\ Len(pilha) \in Indices
           /\ \A i \in Indices : pilha'[i] = IF i = Len(pilha) THEN r ELSE pilha[i]
           /\ pilha[Len(pilha)].id = 0
           /\ saindo' = saindo
<1> DEFINE n == Len(pilha)
<1>1. /\ n \in Nat /\ Indices = 1 .. n /\ n \in Indices /\ Topo = pilha[n]
      /\ pilha \in Seq(Rota) /\ \A i \in Indices : pilha[i] \in Rota
  BY Pilha DEF NoTopo, Indices
<1>2. /\ Abaixo \in Seq(Rota) /\ Len(Abaixo) = n - 1
      /\ \A i \in 1 .. n - 1 : Abaixo[i] = pilha[i]
  <2>1. n - 1 \in Nat /\ n - 1 - 1 + 1 = n - 1 /\ \A i \in 1 .. n - 1 : pilha[i] \in Rota
    BY <1>1
  <2> QED BY <1>1, <2>1, SubSeqProperties DEF Abaixo
<1>3. pilha' = Append(Abaixo, r) /\ saindo' = saindo
  BY DEF Troca
<1>4. pilha' \in Seq(Rota) /\ Len(pilha') = n /\ Indices' = Indices
  BY <1>1, <1>2, <1>3 DEF Indices
<1>5. \A i \in Indices : pilha'[i] = IF i = n THEN r ELSE pilha[i]
  BY <1>1, <1>2, <1>3
<1>6. /\ \/ pilha[n].pagina = "folha" /\ n = 2 /\ r.pagina = "carro"
         \/ pilha[n].pagina = "menu" /\ n = 3 /\ r.pagina = "form" /\ pilha[2].pagina = "carro"
      /\ pilha[n].id = 0
  BY <1>1 DEF NoTopo, InvPilha, Empilhamento, IdsDistintos
<1>7. \A i \in Indices : i < n => pilha[i].pagina \notin {"folha", "menu", "alerta"}
  BY <1>1, <1>6 DEF InvPilha, Empilhamento
<1>8. Empilhamento'
  <2>1. ASSUME NEW i \in Indices
        PROVE  /\ pilha'[i].pagina = "home" => i = 1
               /\ pilha'[i].pagina \in {"carro", "folha"} => i = 2
               /\ pilha'[i].pagina = "form" => i \in {2, 3}
               /\ pilha'[i].pagina = "menu" => i = 3
               /\ pilha'[i].pagina \in {"menu", "form"} /\ i = 3 => pilha'[2].pagina = "carro"
    <3>1. CASE i = n
      <4>1. n = 3 => 2 \in Indices /\ pilha'[2] = pilha[2]
        BY <1>1, <1>5
      <4> QED BY <1>5, <1>6, <3>1, <4>1
    <3>2. CASE i # n
      <4>1. i < n /\ n <= 3 /\ i # 3
        BY <1>1, <1>6, <3>2
      <4> QED BY <1>5, <3>2, <4>1 DEF InvPilha, Empilhamento
    <3> QED BY <3>1, <3>2
  <2>2. ASSUME NEW i \in Indices, NEW j \in Indices, i < j
        PROVE  pilha'[i].pagina \notin {"folha", "menu", "alerta"}
    BY <1>1, <1>5, <1>7, <2>2
  <2> QED BY <1>4, <2>1, <2>2 DEF Empilhamento
<1>9. IdsDistintos'
  <2>1. \A i \in Indices : pilha[i].id # r.id
    BY DEF IdsVivos
  <2>2. r.id \notin saindo
    BY DEF IdsVivos
  <2>3. ASSUME NEW i \in Indices
        PROVE  /\ pilha'[i].id # 0 <=> pilha'[i].pagina \in {"carro", "form"}
               /\ pilha'[i].id \notin saindo
    BY <1>5, <2>2 DEF InvPilha, IdsDistintos
  <2>4. ASSUME NEW i \in Indices, NEW j \in Indices,
               pilha'[i].id = pilha'[j].id, pilha'[i].id # 0
        PROVE  i = j
    BY <1>5, <2>1, <2>4 DEF InvPilha, IdsDistintos
  <2> QED BY <1>3, <1>4, <2>3, <2>4 DEF IdsDistintos
<1>10. OkFechaQuemPediu'
  <2>1. \A i \in Indices : pilha'[i].pagina # "alerta"
    BY <1>1, <1>5, <1>7
  <2> QED BY <1>4, <2>1 DEF OkFechaQuemPediu
<1> QED BY <1>1, <1>3, <1>4, <1>5, <1>6, <1>8, <1>9, <1>10 DEF InvPilha

(* Popping n routes leaves a prefix. *)
LEMMA Prefixo ==
    ASSUME TypeOK, NEW n \in {1, 2}, Pop(n)
    PROVE  /\ pilha' \in Seq(Rota) /\ Len(pilha') <= Len(pilha)
           /\ Indices' = {i \in Indices : i <= Len(pilha) - n}
           /\ \A i \in Indices' : pilha'[i] = pilha[i]
<1> DEFINE k == Len(pilha) - n
<1>1. pilha \in Seq(Rota) /\ Len(pilha) \in Nat /\ k \in Int /\ k <= Len(pilha)
  BY Pilha
<1>2. pilha' = SubSeq(pilha, 1, k)
  BY DEF Pop
<1>3. CASE k >= 0
  <2>1. k \in Nat /\ k - 1 + 1 = k /\ \A i \in 1 .. k : pilha[i] \in Rota
    BY <1>1, <1>3
  <2> HIDE DEF k
  <2>2. /\ pilha' \in Seq(Rota) /\ Len(pilha') = k
        /\ \A i \in 1 .. k : pilha'[i] = pilha[i]
    BY <1>1, <1>2, <2>1, SubSeqProperties
  <2> QED BY <1>1, <2>1, <2>2 DEF Indices, k
<1>4. CASE k < 0
  <2>1. 1 .. k = {}
    BY <1>1, <1>4
  <2>2. pilha' = <<>>
    BY <1>1, <1>2, <1>4, <2>1
  <2> QED BY <1>1, <1>4, <2>2 DEF Indices
<1> QED BY <1>1, <1>3, <1>4

LEMMA PopMantem ==
    ASSUME TypeOK, InvPilha, InvOps, NEW n \in {1, 2}, Pop(n), memoria' = memoria
    PROVE  /\ InvPilha' /\ saindo' \subseteq 1 .. MaxRotas
           /\ \A o \in ops : o.dono = 0 \/ o.dono \in IdsVivos'
           /\ \A i \in Indices' : i \in Indices /\ pilha'[i] = pilha[i]
           /\ ops' = ops => InvOps'
<1> DEFINE fora == {pilha[i].id : i \in {j \in Indices : j > Len(pilha) - n}}
<1>1. /\ Indices' = {i \in Indices : i <= Len(pilha) - n}
      /\ Indices' \subseteq Indices
      /\ \A i \in Indices' : pilha'[i] = pilha[i] /\ i \in Nat
      /\ \A i \in Indices' : 1 .. i - 1 \subseteq Indices'
      /\ \A i \in Indices \ Indices' : i > Len(pilha) - n
  <2>1. /\ Indices' = {i \in Indices : i <= Len(pilha) - n}
        /\ \A i \in Indices' : pilha'[i] = pilha[i]
    BY Prefixo
  <2>2. Len(pilha) \in Nat /\ Indices = 1 .. Len(pilha)
    BY Pilha DEF Indices
  <2> QED BY <2>1, <2>2
<1>2. /\ saindo' = saindo \cup ((fora \cap {o.dono : o \in ops}) \ {0})
      /\ \A x \in fora : \E i \in Indices \ Indices' : x = pilha[i].id
      /\ \A i \in Indices \ Indices' : pilha[i].id \in fora
  <2>1. saindo' = saindo \cup ((fora \cap {o.dono : o \in ops}) \ {0})
    BY DEF Pop
  <2>2. {j \in Indices : j > Len(pilha) - n} = Indices \ Indices'
    BY <1>1, Pilha DEF Indices
  <2> QED BY <2>1, <2>2
<1> HIDE DEF fora
<1>3. saindo' \subseteq 1 .. MaxRotas
  <2>1. \A x \in fora : x \in 0 .. MaxRotas
    BY <1>2, Pilha DEF Rota, Rotas
  <2>2. \A x \in 0 .. MaxRotas : x # 0 => x \in 1 .. MaxRotas
    OBVIOUS
  <2> QED BY <1>2, <2>1, <2>2 DEF TypeOK
<1>4. Empilhamento'
  <2>1. ASSUME NEW i \in Indices'
        PROVE  /\ pilha'[i].pagina = "home" => i = 1
               /\ pilha'[i].pagina \in {"carro", "folha"} => i = 2
               /\ pilha'[i].pagina = "form" => i \in {2, 3}
               /\ pilha'[i].pagina = "menu" => i = 3
               /\ pilha'[i].pagina \in {"menu", "form"} /\ i = 3 => pilha'[2].pagina = "carro"
    <3>1. i = 3 => 2 \in Indices'
      BY <1>1
    <3> QED BY <1>1, <3>1 DEF InvPilha, Empilhamento
  <2>2. \A i, j \in Indices' : i < j /\ pilha'[i].pagina \in {"folha", "menu", "alerta"}
                                  => pilha'[j].pagina = "alerta"
    BY <1>1 DEF InvPilha, Empilhamento
  <2> QED BY <2>1, <2>2 DEF Empilhamento
<1>5. IdsDistintos'
  <2>1. \A i \in Indices' : pilha[i].id # 0 => pilha[i].id \notin fora
    BY <1>1, <1>2 DEF InvPilha, IdsDistintos
  <2>2. \A i \in Indices' : pilha[i].id \notin saindo'
    BY <1>1, <1>2, <2>1 DEF InvPilha, IdsDistintos
  <2> QED BY <1>1, <2>2 DEF InvPilha, IdsDistintos
<1>6. OkFechaQuemPediu'
  <2> SUFFICES ASSUME NEW i \in Indices', pilha'[i].pagina = "alerta", ~pilha'[i].naSaida
               PROVE  \E j \in 1 .. i - 1 :
                         /\ pilha'[j].id = pilha'[i].dono /\ pilha'[i].dono # 0
                         /\ \A k \in j + 1 .. i - 1 : EntreElas(j, k)'
    BY DEF OkFechaQuemPediu
  <2>1. PICK j \in 1 .. i - 1 : /\ pilha[j].id = pilha[i].dono /\ pilha[i].dono # 0
                                /\ \A k \in j + 1 .. i - 1 : EntreElas(j, k)
    BY <1>1 DEF InvPilha, OkFechaQuemPediu
  <2>2. \A k \in 1 .. i - 1 : pilha'[k] = pilha[k]
    BY <1>1
  <2>3. \A k \in j + 1 .. i - 1 : k \in 1 .. i - 1
    BY <1>1
  <2>4. \A k \in j + 1 .. i - 1 : EntreElas(j, k)'
    BY <2>1, <2>2, <2>3 DEF EntreElas
  <2> QED BY <1>1, <2>1, <2>2, <2>4
<1>7. ASSUME NEW o \in ops, o.dono # 0
      PROVE  o.dono \in IdsVivos'
  <2>1. o.dono \in saindo \/ \E i \in Indices : o.dono = pilha[i].id
    BY <1>7 DEF InvOps, DonoAlcancavel, IdsVivos
  <2>2. CASE o.dono \in saindo
    BY <1>2, <2>2 DEF IdsVivos
  <2>3. CASE \E i \in Indices \ Indices' : o.dono = pilha[i].id
    BY <1>2, <1>7, <2>3 DEF IdsVivos
  <2>4. CASE \E i \in Indices' : o.dono = pilha[i].id
    BY <1>1, <2>4 DEF IdsVivos
  <2> QED BY <2>1, <2>2, <2>3, <2>4
<1>8. ops' = ops => InvOps'
  BY <1>1, <1>7 DEF InvOps, DonoAlcancavel, CarroDaPagina, CorpoAtual, TipoDe
<1> QED BY <1>1, <1>3, <1>4, <1>5, <1>6, <1>7, <1>8 DEF InvPilha

-----------------------------------------------------------------------------
(* What the groups of actions have to show.                                *)

(* An alert is a route; a page with a new id, too. *)
LEMMA AlertaRota ==
    ASSUME TypeOK, NEW d \in Rotas, NEW c \in Objetos \cup {Nulo},
           NEW a \in {"nada", "fecha", "avisaEFecha"}
    PROVE  /\ Alerta(d, c, a) \in Rota
           /\ Alerta(d, c, a).pagina = "alerta" /\ Alerta(d, c, a).id = 0
           /\ Alerta(d, c, a).dono = d /\ Alerta(d, c, a).carro = c
           /\ Alerta(d, c, a).aoOk = a
           /\ ~Alerta(d, c, a).naSaida => d \notin saindo
<1> DEFINE r == Alerta(d, c, a)
<1>1. /\ r.pagina = "alerta" /\ r.id = 0 /\ r.dono = d /\ r.carro = c /\ r.aoOk = a
      /\ ~r.naSaida => d \notin saindo
  BY DEF Alerta
<1>2. r.naSaida \in BOOLEAN /\ 0 \in Rotas
  BY DEF Alerta, Rotas
<1>3. r = [pagina |-> r.pagina, id |-> r.id, carro |-> r.carro, dono |-> r.dono,
           aoOk |-> r.aoOk, naSaida |-> r.naSaida]
  BY DEF Alerta
<1> HIDE DEF r
<1>4. r \in Rota
  BY <1>1, <1>2, <1>3 DEF Rota
<1> QED BY <1>1, <1>4 DEF r

LEMMA PaginaRota ==
    ASSUME HaRota, NEW p \in {"carro", "form"}, NEW c \in Objetos \cup {Nulo}
    PROVE  /\ Pagina(p, IdNovo, c) \in Rota
           /\ Pagina(p, IdNovo, c).pagina = p /\ Pagina(p, IdNovo, c).carro = c
           /\ Pagina(p, IdNovo, c).id # 0 /\ Pagina(p, IdNovo, c).id \notin IdsVivos
           /\ Pagina(p, IdNovo, c).aoOk = "nada"
<1>1. IdNovo \in 1 .. MaxRotas /\ IdNovo \notin IdsVivos
  BY DEF HaRota, IdNovo
<1> QED BY <1>1 DEF Pagina, Rota, Rotas

LEMMA SobrepostaRota ==
    ASSUME NEW p \in {"folha", "menu"}, NEW c \in Objetos \cup {Nulo}
    PROVE  /\ Pagina(p, 0, c) \in Rota
           /\ Pagina(p, 0, c).pagina = p /\ Pagina(p, 0, c).carro = c
           /\ Pagina(p, 0, c).id = 0 /\ Pagina(p, 0, c).aoOk = "nada"
BY DEF Pagina, Rota, Rotas

(* The routes that act on a Carro. *)
ComCarro(r) == r.pagina \in {"carro", "folha", "menu"} \/ r.aoOk = "avisaEFecha"

(* The handlers do not mind a push. *)
LEMMA PushOps ==
    ASSUME TypeOK, InvOps, NEW r \in Rota, Push(r), ops' \subseteq ops, memoria' = memoria,
           ComCarro(r) => r.carro \in Objetos
    PROVE  InvOps'
<1>1. /\ Indices' = Indices \cup {Len(pilha) + 1}
      /\ \A i \in Indices : pilha'[i] = pilha[i]
      /\ pilha'[Len(pilha) + 1] = r
      /\ saindo' = saindo
  BY Empurra
<1>2. DonoAlcancavel'
  <2>1. IdsVivos \subseteq IdsVivos'
    BY <1>1 DEF IdsVivos
  <2> QED BY <2>1 DEF InvOps, DonoAlcancavel
<1>3. CarroDaPagina'
  BY <1>1 DEF InvOps, CarroDaPagina, ComCarro
<1>4. CorpoAtual'
  BY DEF InvOps, CorpoAtual, TipoDe
<1> QED BY <1>2, <1>3, <1>4 DEF InvOps

LEMMA PushCompleto ==
    ASSUME IInv, NEW r \in Rota, Push(r), ops' \subseteq ops, memoria' = memoria,
           evento' \in ComNulo \cup {Nenhum},
           ComCarro(r) => r.carro \in Objetos,
           \/ /\ r.pagina = "alerta" /\ r.id = 0
              /\ ~r.naSaida => r.dono # 0 /\ \E j \in Indices : pilha[j].id = r.dono
           \/ Lugar(r)
    PROVE  IInv'
<1>1. TypeOK /\ InvPilha /\ InvOps
  BY Partes
<1>2. InvPilha'
  BY <1>1, PushMantem
<1>3. InvOps'
  BY <1>1, PushOps
<1>4. TypeOK'
  BY <1>1, Empurra DEF TypeOK
<1> QED BY <1>2, <1>3, <1>4, Partes, PTL

(* A step that leaves the stack alone. *)
LEMMA PilhaParada ==
    ASSUME InvPilha, UNCHANGED <<pilha, saindo>>
    PROVE  InvPilha' /\ Indices' = Indices /\ IdsVivos' = IdsVivos
BY DEF InvPilha, Empilhamento, IdsDistintos, OkFechaQuemPediu, EntreElas, Indices, IdsVivos

(* A handler that goes on or ends without a word. *)
LEMMA OpParada ==
    ASSUME IInv, UNCHANGED <<pilha, saindo, memoria>>, evento' \in ComNulo \cup {Nenhum},
           NEW o \in ops,
           \/ ops' = ops \ {o}
           \/ \E n \in Op : /\ ops' = (ops \ {o}) \cup {n}
                            /\ n.dono = o.dono /\ n.acao = o.acao /\ n.carro = o.carro
                            /\ n.acao = "salva" /\ n.fase # "preparo" /\ ~n.trocado
                               => n.corpo = TipoDe(n)
    PROVE  IInv'
<1>1. TypeOK /\ InvPilha /\ InvOps
  BY Partes
<1>2. InvPilha' /\ Indices' = Indices /\ IdsVivos' = IdsVivos
  BY <1>1, PilhaParada
<1>3. CASE ops' = ops \ {o}
  <2>1. InvOps'
    BY <1>1, <1>2, <1>3 DEF InvOps, DonoAlcancavel, CarroDaPagina, CorpoAtual, TipoDe
  <2>2. TypeOK'
    BY <1>1, <1>3 DEF TypeOK
  <2> QED BY <1>2, <2>1, <2>2, Partes, PTL
<1>4. ASSUME NEW n \in Op, ops' = (ops \ {o}) \cup {n},
             n.dono = o.dono, n.acao = o.acao, n.carro = o.carro,
             n.acao = "salva" /\ n.fase # "preparo" /\ ~n.trocado => n.corpo = TipoDe(n)
      PROVE  IInv'
  <2>1. InvOps'
    <3>1. DonoAlcancavel' /\ CarroDaPagina'
      BY <1>1, <1>2, <1>4 DEF InvOps, DonoAlcancavel, CarroDaPagina
    <3>2. CorpoAtual'
      BY <1>1, <1>4 DEF InvOps, CorpoAtual, TipoDe
    <3> QED BY <3>1, <3>2 DEF InvOps
  <2>2. TypeOK'
    BY <1>1, <1>4 DEF TypeOK
  <2> QED BY <1>2, <2>1, <2>2, Partes, PTL
<1> QED BY <1>3, <1>4

(* An answer that reaches its page opens an alert. *)
LEMMA RespostaAlerta ==
    ASSUME IInv, NEW o \in ops, o.dono # 0, ops' = ops \ {o}, memoria' = memoria,
           evento' \in ComNulo \cup {Nenhum},
           NEW c \in Objetos \cup {Nulo}, NEW a \in {"nada", "fecha", "avisaEFecha"},
           a = "avisaEFecha" => c \in Objetos,
           Push(Alerta(o.dono, c, a))
    PROVE  IInv'
<1>1. TypeOK /\ InvPilha /\ InvOps
  BY Partes
<1>2. o.dono \in Rotas
  BY <1>1 DEF TypeOK, Op
<1> DEFINE r == Alerta(o.dono, c, a)
<1>3. /\ r \in Rota /\ r.pagina = "alerta" /\ r.id = 0 /\ r.dono = o.dono /\ r.carro = c
      /\ r.aoOk = a
      /\ ~r.naSaida => o.dono \notin saindo
  BY <1>1, <1>2, AlertaRota
<1>4. o.dono \notin saindo => \E j \in Indices : pilha[j].id = o.dono
  BY <1>1 DEF InvOps, DonoAlcancavel, IdsVivos
<1>5. Push(r)
  OBVIOUS
<1> HIDE DEF r
<1> QED BY <1>3, <1>4, <1>5, PushCompleto DEF ComCarro

-----------------------------------------------------------------------------
(* The actions.                                                            *)

LEMMA Inicio == Init => IInv
<1> SUFFICES ASSUME Init PROVE IInv
  OBVIOUS
<1> DEFINE h == Pagina("home", 0, Nulo)
<1>1. h \in Rota /\ h.pagina = "home" /\ h.id = 0 /\ h.aoOk = "nada"
  BY DEF Pagina, Rota, Rotas
<1>2. pilha = <<h>>
  BY DEF Init
<1> HIDE DEF h
<1>3. pilha \in Seq(Rota) /\ Len(pilha) = 1 /\ pilha[1] = h /\ Indices = {1}
  BY <1>1, <1>2 DEF Indices
<1>4. TypeOK
  BY <1>3 DEF Init, TypeOK, ComNulo
<1>5. InvPilha
  BY <1>1, <1>3 DEF Init, InvPilha, Empilhamento, IdsDistintos, OkFechaQuemPediu
<1>6. InvOps
  BY <1>1, <1>3 DEF Init, InvOps, DonoAlcancavel, CarroDaPagina, CorpoAtual
<1> QED BY <1>4, <1>5, <1>6, Partes

LEMMA NavegaMantem ==
    ASSUME IInv, \/ \E c \in Objetos : AbreCarro(c) \/ AbreFolha(c)
                 \/ AdicionarCarro \/ AbreMenu \/ MapaOuVideo
    PROVE  IInv'
<1>1. TypeOK /\ InvPilha /\ InvOps
  BY Partes
<1>2. ASSUME NEW c \in Objetos, AbreCarro(c) PROVE IInv'
  <2> DEFINE r == Pagina("carro", IdNovo, c)
  <2>1. /\ r \in Rota /\ r.pagina = "carro" /\ r.carro = c /\ r.aoOk = "nada"
        /\ r.id # 0 /\ r.id \notin IdsVivos
    BY <1>2, PaginaRota DEF AbreCarro
  <2>2. NoTopo("home") /\ Push(r) /\ UNCHANGED <<memoria, ops>> /\ evento' = Nenhum
    BY <1>2 DEF AbreCarro, Navega
  <2> HIDE DEF r
  <2> QED BY <2>1, <2>2, PushCompleto DEF Lugar
<1>3. ASSUME NEW c \in Objetos, AbreFolha(c) PROVE IInv'
  <2> DEFINE r == Pagina("folha", 0, c)
  <2>1. /\ r \in Rota /\ r.pagina = "folha" /\ r.carro = c /\ r.aoOk = "nada" /\ r.id = 0
    BY SobrepostaRota
  <2>2. NoTopo("home") /\ Push(r) /\ UNCHANGED <<memoria, ops>> /\ evento' = Nenhum
    BY <1>3 DEF AbreFolha, Navega
  <2> HIDE DEF r
  <2> QED BY <2>1, <2>2, PushCompleto DEF Lugar
<1>4. CASE AdicionarCarro
  <2> DEFINE r == Pagina("form", IdNovo, Nulo)
  <2>1. /\ r \in Rota /\ r.pagina = "form" /\ r.aoOk = "nada"
        /\ r.id # 0 /\ r.id \notin IdsVivos
    BY <1>4, PaginaRota DEF AdicionarCarro
  <2>2. NoTopo("home") /\ Push(r) /\ UNCHANGED <<memoria, ops>> /\ evento' = Nenhum
    BY <1>4 DEF AdicionarCarro, Navega
  <2> HIDE DEF r
  <2> QED BY <2>1, <2>2, PushCompleto DEF Lugar, ComCarro
<1>6. CASE AbreMenu
  <2> DEFINE r == Pagina("menu", 0, Topo.carro)
  <2>1. Topo.carro \in Objetos
    BY <1>1, <1>6, Pilha DEF AbreMenu, NoTopo, InvOps, CarroDaPagina
  <2>2. /\ r \in Rota /\ r.pagina = "menu" /\ r.carro = Topo.carro /\ r.aoOk = "nada" /\ r.id = 0
    BY <2>1, SobrepostaRota
  <2>3. NoTopo("carro") /\ Push(r) /\ UNCHANGED <<memoria, ops>> /\ evento' = Nenhum
    BY <1>6 DEF AbreMenu, Navega
  <2> HIDE DEF r
  <2> QED BY <2>1, <2>2, <2>3, PushCompleto DEF Lugar
<1>5. CASE MapaOuVideo
  <2>1. Topo.id \in Rotas /\ Topo.id # 0 /\ \E j \in Indices : pilha[j].id = Topo.id
    <3>1. Len(pilha) \in Indices /\ Topo = pilha[Len(pilha)] /\ Topo \in Rota
      BY <1>1, <1>5, Pilha DEF MapaOuVideo, NoTopo
    <3> QED BY <1>1, <1>5, <3>1 DEF MapaOuVideo, NoTopo, InvPilha, IdsDistintos, Rota
  <2> DEFINE r == Alerta(Topo.id, Nulo, "nada")
  <2>2. /\ r \in Rota /\ r.pagina = "alerta" /\ r.id = 0 /\ r.dono = Topo.id /\ r.aoOk = "nada"
    BY <1>1, <2>1, AlertaRota
  <2>3. Push(r) /\ UNCHANGED <<memoria, ops>> /\ evento' = Nenhum
    BY <1>5 DEF MapaOuVideo, Navega
  <2> HIDE DEF r
  <2> QED BY <2>1, <2>2, <2>3, PushCompleto DEF ComCarro
<1> QED BY <1>2, <1>3, <1>4, <1>5, <1>6

(* The items of the sheet and of the menu that open a page. *)
LEMMA ItemMantem == ASSUME IInv, Detalhes \/ Editar PROVE IInv'
<1>1. TypeOK /\ InvPilha /\ InvOps
  BY Partes
<1>2. Topo.carro \in Objetos
  BY <1>1, Pilha DEF Detalhes, Editar, NoTopo, InvOps, CarroDaPagina
<1>3. PICK p \in {"carro", "form"} :
         /\ Troca(Pagina(p, IdNovo, Topo.carro)) /\ HaRota
         /\ \/ NoTopo("folha") /\ p = "carro"
            \/ NoTopo("menu") /\ p = "form"
  BY DEF Detalhes, Editar
<1> DEFINE r == Pagina(p, IdNovo, Topo.carro)
<1>4. /\ r \in Rota /\ r.pagina = p /\ r.carro \in Objetos /\ r.aoOk = "nada"
      /\ r.id # 0 /\ r.id \notin IdsVivos
  BY <1>2, <1>3, PaginaRota
<1>5. Troca(r)
  BY <1>3
<1> HIDE DEF r
<1>6. /\ InvPilha'
      /\ pilha' \in Seq(Rota) /\ Len(pilha') = Len(pilha) /\ Indices' = Indices
      /\ Len(pilha) \in Indices
      /\ \A i \in Indices : pilha'[i] = IF i = Len(pilha) THEN r ELSE pilha[i]
      /\ pilha[Len(pilha)].id = 0
      /\ saindo' = saindo
  BY <1>1, <1>3, <1>4, <1>5, TrocaMantem
<1>7. UNCHANGED <<memoria, ops>> /\ evento' = Nenhum
  BY <1>5 DEF Troca
<1>8. DonoAlcancavel'
  <2>1. \A x \in IdsVivos : x # 0 => x \in IdsVivos'
    BY <1>6 DEF IdsVivos
  <2> QED BY <1>1, <1>7, <2>1 DEF InvOps, DonoAlcancavel
<1>9. CarroDaPagina'
  BY <1>1, <1>4, <1>6, <1>7 DEF InvOps, CarroDaPagina
<1>10. CorpoAtual'
  BY <1>1, <1>7 DEF InvOps, CorpoAtual, TipoDe
<1>11. TypeOK'
  BY <1>1, <1>6, <1>7 DEF TypeOK
<1> QED BY <1>6, <1>8, <1>9, <1>10, <1>11, Partes, PTL DEF InvOps

LEMMA VoltaMantem == ASSUME IInv, Voltar \/ OkDoAlerta PROVE IInv'
<1>1. TypeOK /\ InvPilha /\ InvOps
  BY Partes
<1>2. PICK n \in {1, 2} : Pop(n)
  BY DEF Voltar, OkDoAlerta
<1>3. UNCHANGED <<memoria, ops>>
  BY DEF Voltar, OkDoAlerta
<1>4. evento' \in ComNulo \cup {Nenhum}
  <2>1. CASE OkDoAlerta /\ Topo.aoOk = "avisaEFecha"
    <3>1. Topo.carro \in Objetos
      BY <1>1, <2>1, Pilha DEF OkDoAlerta, NoTopo, InvOps, CarroDaPagina
    <3> QED BY <1>1, <2>1, <3>1 DEF OkDoAlerta, TypeOK
  <2>2. CASE ~(OkDoAlerta /\ Topo.aoOk = "avisaEFecha")
    BY <2>2 DEF Voltar, OkDoAlerta
  <2> QED BY <2>1, <2>2
<1>5. InvPilha' /\ InvOps' /\ saindo' \subseteq 1 .. MaxRotas
  BY <1>1, <1>2, <1>3, PopMantem
<1>6. pilha' \in Seq(Rota) /\ Len(pilha') <= Len(pilha)
  BY <1>1, <1>2, Prefixo
<1>7. Len(pilha') <= MaxPilha
  BY <1>1, <1>6, Pilha DEF TypeOK
<1>8. TypeOK'
  BY <1>1, <1>3, <1>4, <1>5, <1>6, <1>7 DEF TypeOK
<1> QED BY <1>5, <1>8, Partes, PTL

LEMMA NovaOpOK ==
    ASSUME TypeOK, HaVaga, pilha # <<>>,
           NEW a \in {"salva", "deleta"}, NEW d \in Rotas, NEW t \in ComNulo
    PROVE  /\ NovaOp(a, d, t) \in Op
           /\ NovaOp(a, d, t).acao = a /\ NovaOp(a, d, t).carro = Topo.carro
           /\ NovaOp(a, d, t).dono = d /\ NovaOp(a, d, t).fase = "preparo"
<1>1. Len(pilha) \in Indices /\ Topo = pilha[Len(pilha)] /\ Topo \in Rota
  BY Pilha
<1>2. Topo.carro \in Objetos \cup {Nulo}
  BY <1>1 DEF Rota
<1>3. IdLivre \in 1 .. MaxOps
  BY DEF HaVaga, IdLivre
<1> QED BY <1>2, <1>3 DEF NovaOp, Op, ComNulo

LEMMA SalvarMantem == ASSUME IInv, NEW t \in Tipos, Salvar(t) PROVE IInv'
<1>1. TypeOK /\ InvPilha /\ InvOps
  BY Partes
<1> DEFINE n == NovaOp("salva", Topo.id, t)
<1>2. n \in Op /\ n.acao = "salva" /\ n.dono \in IdsVivos /\ n.fase = "preparo"
  <2>1. Topo.id \in Rotas /\ Topo.id \in IdsVivos /\ pilha # <<>>
    BY <1>1, Pilha DEF Salvar, NoTopo, Rota, IdsVivos
  <2> QED BY <1>1, <2>1, NovaOpOK DEF Salvar, ComNulo
<1>3. UNCHANGED <<pilha, saindo>> /\ evento' = Nenhum
  BY DEF Salvar
<1>4. memoria' = [c \in Objetos |-> IF c = Topo.carro THEN t ELSE memoria[c]]
  BY DEF Salvar
<1>5. ops' = {IF o.carro # Nulo /\ o.carro = Topo.carro
              THEN [o EXCEPT !.trocado = TRUE] ELSE o : o \in ops} \cup {n}
  BY DEF Salvar
<1> HIDE DEF n
<1>6. ASSUME NEW p \in ops', p # n
      PROVE  /\ p \in Op
             /\ \E o \in ops : /\ p.dono = o.dono /\ p.acao = o.acao /\ p.carro = o.carro
                               /\ p.fase = o.fase /\ p.corpo = o.corpo /\ p.novo = o.novo
                               /\ ~p.trocado => ~o.trocado /\ (p.carro = Nulo \/ p.carro # Topo.carro)
  <2>1. PICK o \in ops : p = IF o.carro # Nulo /\ o.carro = Topo.carro
                             THEN [o EXCEPT !.trocado = TRUE] ELSE o
    BY <1>5, <1>6
  <2>2. o \in Op
    BY <1>1 DEF TypeOK
  <2> QED BY <2>1, <2>2 DEF Op
<1>7. InvPilha' /\ Indices' = Indices /\ IdsVivos' = IdsVivos
  BY <1>1, <1>3, PilhaParada
<1>8. DonoAlcancavel'
  BY <1>1, <1>2, <1>6, <1>7 DEF InvOps, DonoAlcancavel
<1>9. CarroDaPagina'
  BY <1>1, <1>2, <1>3, <1>6, <1>7 DEF InvOps, CarroDaPagina
<1>10. CorpoAtual'
  <2> SUFFICES ASSUME NEW p \in ops', p.acao = "salva", p.fase # "preparo", ~p.trocado
               PROVE  p.corpo = TipoDe(p)'
    BY DEF CorpoAtual
  <2>1. p # n
    BY <1>2
  <2>2. PICK o \in ops : /\ p.acao = o.acao /\ p.carro = o.carro
                         /\ p.fase = o.fase /\ p.corpo = o.corpo /\ p.novo = o.novo
                         /\ ~o.trocado /\ (p.carro = Nulo \/ p.carro # Topo.carro)
    BY <1>6, <2>1
  <2>3. p.corpo = IF p.carro = Nulo THEN p.novo ELSE memoria[p.carro]
    BY <1>1, <2>2 DEF InvOps, CorpoAtual, TipoDe
  <2>4. p.carro # Nulo => memoria'[p.carro] = memoria[p.carro]
    <3>1. p.carro \in Objetos \cup {Nulo}
      BY <1>6, <2>1 DEF Op
    <3> QED BY <1>4, <2>2, <3>1
  <2> QED BY <2>3, <2>4 DEF TipoDe
<1>11. TypeOK'
  <2>1. ops' \subseteq Op
    BY <1>2, <1>6
  <2>2. memoria' \in [Objetos -> ComNulo]
    BY <1>1, <1>4 DEF TypeOK, ComNulo
  <2> QED BY <1>1, <1>3, <2>1, <2>2 DEF TypeOK
<1> QED BY <1>7, <1>8, <1>9, <1>10, <1>11, Partes, PTL DEF InvOps

(* The item Deletar pops the menu, which lies over its CarroPage. *)
LEMMA MenuSai ==
    ASSUME TypeOK, InvPilha, InvOps, Deletar
    PROVE  /\ Pop(1) /\ saindo' = saindo
           /\ Topo.carro \in Objetos
           /\ Len(pilha) = 3 /\ Indices = 1 .. 3 /\ Topo = pilha[3]
<1>1. Len(pilha) \in Indices /\ Topo = pilha[Len(pilha)] /\ Indices = 1 .. Len(pilha)
      /\ Len(pilha) \in Nat /\ Topo.pagina = "menu"
  BY Pilha DEF Deletar, NoTopo, Indices
<1>2. Len(pilha) = 3 /\ pilha[3].id = 0
  BY <1>1 DEF InvPilha, Empilhamento, IdsDistintos
<1>3. Topo.carro \in Objetos
  BY <1>1 DEF InvOps, CarroDaPagina
<1> DEFINE fora == {pilha[i].id : i \in {j \in Indices : j > Len(pilha) - 1}}
<1>4. (fora \cap {o.dono : o \in ops}) \ {0} = {}
  <2>1. \A j \in Indices : j > Len(pilha) - 1 => j = 3
    BY <1>1, <1>2
  <2> QED BY <1>2, <2>1
<1>5. saindo' = saindo /\ pilha' = SubSeq(pilha, 1, Len(pilha) - 1)
  BY DEF Deletar, Abaixo
<1>6. Pop(1)
  BY <1>4, <1>5 DEF Pop
<1> QED BY <1>1, <1>2, <1>3, <1>5, <1>6

LEMMA DeletarMantem == ASSUME IInv, Deletar PROVE IInv'
<1>1. TypeOK /\ InvPilha /\ InvOps
  BY Partes
<1>2. /\ Pop(1) /\ saindo' = saindo
      /\ Topo.carro \in Objetos
      /\ Len(pilha) = 3 /\ Indices = 1 .. 3 /\ Topo = pilha[3]
  BY <1>1, MenuSai
<1>3. /\ pilha' \in Seq(Rota) /\ Len(pilha') <= 3
      /\ Indices' = {i \in Indices : i <= 2}
      /\ \A i \in Indices' : pilha'[i] = pilha[i]
  BY <1>1, <1>2, Prefixo
<1> DEFINE d == pilha[2].id
<1>4. 2 \in Indices /\ 2 \in Indices' /\ pilha[2] \in Rota
  BY <1>1, <1>2, <1>3, Pilha
<1>5. d \in Rotas /\ d \in IdsVivos'
  BY <1>3, <1>4 DEF Rota, IdsVivos
<1> DEFINE n == NovaOp("deleta", d, Nulo)
<1>6. UNCHANGED <<saindo, memoria>> /\ evento' = Nenhum /\ ops' = ops \cup {n}
  BY <1>2 DEF Deletar
<1>7. n \in Op /\ n.acao = "deleta" /\ n.dono \in IdsVivos' /\ n.carro \in Objetos
  <2>1. HaVaga /\ pilha # <<>> /\ Nulo \in ComNulo
    BY DEF Deletar, NoTopo, ComNulo
  <2> HIDE DEF d
  <2> QED BY <1>1, <1>2, <1>5, <2>1, NovaOpOK
<1> HIDE DEF n, d
<1>8. /\ InvPilha' /\ saindo' \subseteq 1 .. MaxRotas
      /\ \A o \in ops : o.dono = 0 \/ o.dono \in IdsVivos'
      /\ \A i \in Indices' : i \in Indices /\ pilha'[i] = pilha[i]
  BY <1>1, <1>2, <1>6, PopMantem
<1>9. DonoAlcancavel'
  BY <1>6, <1>7, <1>8 DEF DonoAlcancavel
<1>10. CarroDaPagina'
  BY <1>1, <1>6, <1>7, <1>8 DEF InvOps, CarroDaPagina
<1>11. CorpoAtual'
  BY <1>1, <1>6, <1>7 DEF InvOps, CorpoAtual, TipoDe
<1>12. TypeOK'
  BY <1>1, <1>2, <1>3, <1>6, <1>7 DEF TypeOK
<1> QED BY <1>8, <1>9, <1>10, <1>11, <1>12, Partes, PTL DEF InvOps

LEMMA AndamentoMantem == ASSUME IInv, NEW o \in ops, Andamento(o) PROVE IInv'
<1>1. TypeOK /\ InvPilha /\ InvOps
  BY Partes
<1>2. o \in Op
  BY <1>1 DEF TypeOK
<1>3. TipoDe(o) \in ComNulo
  BY <1>1, <1>2 DEF TipoDe, TypeOK, Op
<1>4. CASE Envia(o)
  <2> DEFINE n == [o EXCEPT !.fase = "enviado", !.corpo = TipoDe(o)]
  <2>1. /\ n \in Op /\ n.dono = o.dono /\ n.acao = o.acao /\ n.carro = o.carro
        /\ n.novo = o.novo /\ n.corpo = TipoDe(o)
    BY <1>2, <1>3 DEF Op
  <2>2. ops' = (ops \ {o}) \cup {n} /\ UNCHANGED <<pilha, saindo, memoria>> /\ evento' = Nenhum
    BY <1>4 DEF Envia
  <2> HIDE DEF n
  <2>3. n.corpo = TipoDe(n)
    BY <2>1 DEF TipoDe
  <2> QED BY <2>1, <2>2, <2>3, OpParada
<1>5. CASE Grava(o)
  <2> DEFINE n == [o EXCEPT !.fase = "gravado"]
  <2>1. /\ n \in Op /\ n.dono = o.dono /\ n.acao = o.acao /\ n.carro = o.carro
        /\ n.novo = o.novo /\ n.corpo = o.corpo /\ n.trocado = o.trocado
    BY <1>2 DEF Op
  <2>2. ops' = (ops \ {o}) \cup {n} /\ UNCHANGED <<pilha, saindo, memoria>> /\ evento' = Nenhum
    BY <1>5 DEF Grava
  <2> HIDE DEF n
  <2>3. n.acao = "salva" /\ ~n.trocado => n.corpo = TipoDe(n)
    BY <1>1, <1>5, <2>1 DEF Grava, InvOps, CorpoAtual, TipoDe
  <2> QED BY <2>1, <2>2, <2>3, OpParada
<1>6. CASE Salvou(o)
  <2>1. CASE o.dono # 0
    <3>1. /\ ops' = ops \ {o} /\ memoria' = memoria
          /\ Push(Alerta(o.dono, Nulo, "fecha")) /\ evento' = TipoDe(o)
      BY <1>6, <2>1 DEF Salvou, EventoDe
    <3> QED BY <1>3, <2>1, <3>1, RespostaAlerta
  <2>2. CASE o.dono = 0
    BY <1>6, <2>2, OpParada DEF Salvou
  <2> QED BY <2>1, <2>2
<1>7. CASE Deletou(o)
  <2>1. CASE o.dono # 0
    <3>1. /\ ops' = ops \ {o} /\ memoria' = memoria
          /\ Push(Alerta(o.dono, o.carro, "avisaEFecha")) /\ evento' = Nenhum
      BY <1>7, <2>1 DEF Deletou
    <3>2. o.carro \in Objetos
      BY <1>1, <1>7 DEF Deletou, InvOps, CarroDaPagina
    <3> QED BY <2>1, <3>1, <3>2, RespostaAlerta
  <2>2. CASE o.dono = 0
    BY <1>7, <2>2, OpParada DEF Deletou
  <2> QED BY <2>1, <2>2
<1>8. CASE Recusa(o)
  <2>1. CASE o.dono # 0
    <3>1. /\ ops' = ops \ {o} /\ memoria' = memoria
          /\ Push(Alerta(o.dono, Nulo, "nada")) /\ evento' = Nenhum
      BY <1>8, <2>1 DEF Recusa
    <3> QED BY <2>1, <3>1, RespostaAlerta
  <2>2. CASE o.dono = 0
    BY <1>8, <2>2, OpParada DEF Recusa
  <2> QED BY <2>1, <2>2
<1> QED BY <1>4, <1>5, <1>6, <1>7, <1>8 DEF Andamento

(* Disposing a page touches only the context its handlers and alerts hold. *)
LEMMA DescartaMantem == ASSUME IInv, NEW d \in saindo, Descarta(d) PROVE IInv'
<1>1. TypeOK /\ InvPilha /\ InvOps
  BY Partes
<1>2. /\ pilha \in Seq(Rota) /\ Len(pilha) \in Nat /\ Indices = 1 .. Len(pilha)
      /\ \A i \in Indices : pilha[i] \in Rota
      /\ d \in 1 .. MaxRotas
  BY <1>1, Pilha DEF TypeOK, Indices
<1>3. pilha' = [i \in Indices |->
                  IF pilha[i].dono = d THEN [pilha[i] EXCEPT !.dono = 0] ELSE pilha[i]]
  BY DEF Descarta
<1>4. ASSUME NEW i \in Indices
      PROVE  /\ pilha'[i] \in Rota
             /\ pilha'[i].id = pilha[i].id /\ pilha'[i].pagina = pilha[i].pagina
             /\ pilha'[i].naSaida = pilha[i].naSaida /\ pilha'[i].carro = pilha[i].carro
             /\ pilha'[i].aoOk = pilha[i].aoOk
             /\ pilha'[i].dono = IF pilha[i].dono = d THEN 0 ELSE pilha[i].dono
  <2>1. pilha'[i] = IF pilha[i].dono = d THEN [pilha[i] EXCEPT !.dono = 0] ELSE pilha[i]
    BY <1>3
  <2>2. pilha[i] \in Rota /\ 0 \in Rotas
    BY <1>2 DEF Rotas
  <2>3. CASE pilha[i].dono = d
    <3>1. pilha'[i] = [pilha[i] EXCEPT !.dono = 0]
      BY <2>1, <2>3
    <3> QED BY <2>2, <2>3, <3>1 DEF Rota
  <2>4. CASE pilha[i].dono # d
    <3>1. pilha'[i] = pilha[i]
      BY <2>1, <2>4
    <3> QED BY <2>2, <2>4, <3>1
  <2> QED BY <2>3, <2>4
<1>5. pilha' \in Seq(Rota) /\ Len(pilha') = Len(pilha) /\ Indices' = Indices
  BY <1>2, <1>3, <1>4 DEF Indices
<1>6. saindo' = saindo \ {d} /\ memoria' = memoria /\ evento' = Nenhum
  BY DEF Descarta
<1>7. \A p \in ops' : \E o \in ops : p = IF o.dono = d THEN [o EXCEPT !.dono = 0] ELSE o
  BY DEF Descarta
<1>8. ASSUME NEW p \in ops'
      PROVE  /\ p \in Op /\ p.dono # d
             /\ \E o \in ops : /\ p.dono = 0 \/ p.dono = o.dono
                               /\ p.acao = o.acao /\ p.carro = o.carro /\ p.novo = o.novo
                               /\ p.fase = o.fase /\ p.corpo = o.corpo /\ p.trocado = o.trocado
  <2>1. PICK o \in ops : p = IF o.dono = d THEN [o EXCEPT !.dono = 0] ELSE o
    BY <1>7
  <2>2. o \in Op
    BY <1>1 DEF TypeOK
  <2>3. CASE o.dono = d
    <3>1. p = [o EXCEPT !.dono = 0]
      BY <2>1, <2>3
    <3>2. p \in Op /\ p.dono = 0
      BY <2>2, <3>1 DEF Op, Rotas
    <3>3. /\ p.acao = o.acao /\ p.carro = o.carro /\ p.novo = o.novo
          /\ p.fase = o.fase /\ p.corpo = o.corpo /\ p.trocado = o.trocado
      BY <2>2, <3>1 DEF Op
    <3> QED BY <1>2, <3>2, <3>3
  <2>4. CASE o.dono # d
    BY <2>1, <2>2, <2>4
  <2> QED BY <2>3, <2>4
<1>9. TypeOK'
  BY <1>1, <1>5, <1>6, <1>8 DEF TypeOK
<1>10. Empilhamento' /\ IdsDistintos'
  <2>1. ASSUME NEW i \in Indices
        PROVE  i = 3 => 2 \in Indices
    BY <1>2
  <2>2. \A i \in Indices : /\ pilha'[i].pagina = pilha[i].pagina
                           /\ pilha'[i].id = pilha[i].id
    BY <1>4
  <2>3. Empilhamento'
    BY <1>1, <1>5, <2>1, <2>2 DEF InvPilha, Empilhamento
  <2>4. IdsDistintos'
    BY <1>1, <1>5, <1>6, <2>2 DEF InvPilha, IdsDistintos
  <2> QED BY <2>3, <2>4
<1>11. OkFechaQuemPediu'
  <2> SUFFICES ASSUME NEW i \in Indices, pilha'[i].pagina = "alerta", ~pilha'[i].naSaida
               PROVE  \E j \in 1 .. i - 1 :
                         /\ pilha'[j].id = pilha'[i].dono /\ pilha'[i].dono # 0
                         /\ \A k \in j + 1 .. i - 1 : EntreElas(j, k)'
    BY <1>5 DEF OkFechaQuemPediu
  <2>1. PICK j \in 1 .. i - 1 : /\ pilha[j].id = pilha[i].dono /\ pilha[i].dono # 0
                                /\ \A k \in j + 1 .. i - 1 : EntreElas(j, k)
    BY <1>1, <1>4 DEF InvPilha, OkFechaQuemPediu
  <2>2. j \in Indices /\ \A k \in j + 1 .. i - 1 : k \in Indices
    BY <1>2
  <2>3. pilha[j].id # d
    BY <1>1, <2>2 DEF InvPilha, IdsDistintos
  <2>4. \A k \in j + 1 .. i - 1 : EntreElas(j, k)'
    BY <1>4, <2>1, <2>2 DEF EntreElas
  <2> QED BY <1>4, <2>1, <2>2, <2>3, <2>4
<1>14. DonoAlcancavel'
  <2>1. IdsVivos \ {d} \subseteq IdsVivos'
    BY <1>4, <1>5, <1>6 DEF IdsVivos
  <2> QED BY <1>1, <1>8, <2>1 DEF InvOps, DonoAlcancavel
<1>15. CarroDaPagina' /\ CorpoAtual'
  <2>1. CarroDaPagina'
    BY <1>1, <1>4, <1>5, <1>8 DEF InvOps, CarroDaPagina
  <2>2. CorpoAtual'
    BY <1>1, <1>6, <1>8 DEF InvOps, CorpoAtual, TipoDe
  <2> QED BY <2>1, <2>2
<1> QED
  BY <1>9, <1>10, <1>11, <1>14, <1>15, Partes, PTL DEF InvPilha, InvOps

(* The invariant is inductive. *)
LEMMA PassoMantem == IInv /\ [Next]_vars => IInv'
<1> SUFFICES ASSUME IInv, [Next]_vars PROVE IInv'
  OBVIOUS
<1>1. CASE Toque
  BY <1>1, NavegaMantem, ItemMantem, VoltaMantem, SalvarMantem, DeletarMantem DEF Toque
<1>2. CASE \E o \in ops : Andamento(o)
  BY <1>2, AndamentoMantem
<1>3. CASE \E d \in saindo : Descarta(d)
  BY <1>3, DescartaMantem
<1>4. CASE UNCHANGED vars
  <2>1. TypeOK /\ InvPilha /\ InvOps
    BY Partes
  <2>2. InvPilha' /\ Indices' = Indices /\ IdsVivos' = IdsVivos
    BY <1>4, <2>1, PilhaParada DEF vars
  <2>3. TypeOK' /\ InvOps'
    BY <1>4, <2>1, <2>2 DEF vars, TypeOK, InvOps, DonoAlcancavel, CarroDaPagina, CorpoAtual, TipoDe
  <2> QED BY <2>2, <2>3, Partes, PTL
<1> QED BY <1>1, <1>2, <1>3, <1>4 DEF Next

-----------------------------------------------------------------------------
(* The strengthened invariant holds in every reachable state.              *)
THEOREM Invariancia == Spec => []IInv
BY Inicio, PassoMantem, PTL DEF Spec

(* Every reachable state is well typed.                                    *)
THEOREM TipoCorreto == Spec => []TypeOK
<1>1. IInv => TypeOK
  BY DEF IInv
<1> QED BY <1>1, Invariancia, PTL

(* However alerts, menus and forms pile up, the page an Ok closes          *)
(* (carro_page.dart:246-250, carro-form-page.dart:231-233) lies under the  *)
(* alert, with only alerts and the one menu or form of its CarroPage       *)
(* between, for all bounds on pages and requests.                          *)
THEOREM OkSempreFechaQuemPediu == Spec => []OkFechaQuemPediu
<1>1. IInv => OkFechaQuemPediu
  BY DEF IInv
<1> QED BY <1>1, Invariancia, PTL

(* The two pops of an Ok (alert_dialog.dart:20-22) never reach Home unless *)
(* the page that opened the alert was leaving.                             *)
THEOREM HomeFica == Spec => HomeSoCaiNaSaida
<1>1. IInv /\ [Next]_vars => [pilha # <<>> /\ pilha' = <<>> => Topo.naSaida]_vars
  <2> SUFFICES ASSUME IInv, Next, pilha # <<>>, pilha' = <<>>
               PROVE  Topo.naSaida
    BY DEF vars
  <2>1. TypeOK /\ InvPilha /\ InvOps
    BY Partes
  <2>2. Len(pilha) \in Nat /\ Len(pilha) \in Indices /\ Topo = pilha[Len(pilha)] /\ Topo \in Rota
    BY <2>1, Pilha
  <2>3. ASSUME NEW r, Push(r) PROVE FALSE
    <3>1. pilha' = Append(pilha, r) /\ pilha \in Seq(Rota)
      BY <2>1, <2>3, Pilha DEF Push
    <3>2. Append(pilha, r) # <<>>
      BY <3>1
    <3> QED BY <3>1, <3>2
  <2>4. pilha' # pilha
    OBVIOUS
  <2>5. ASSUME NEW d \in saindo, Descarta(d) PROVE FALSE
    <3>1. pilha' = [i \in Indices |->
                      IF pilha[i].dono = d THEN [pilha[i] EXCEPT !.dono = 0] ELSE pilha[i]]
      BY <2>5 DEF Descarta
    <3>2. DOMAIN pilha' = Indices
      BY <3>1
    <3> QED BY <2>2, <3>2
  <2>6. ASSUME NEW o \in ops, Andamento(o) PROVE FALSE
    BY <2>3, <2>4, <2>6 DEF Andamento, Envia, Grava, Salvou, Deletou, Recusa
  <2>7. ASSUME NEW r, Troca(r) PROVE FALSE
    <3>1. pilha' = Append(Abaixo, r)
      BY <2>7 DEF Troca
    <3>2. Len(pilha) - 1 \in Nat /\ Len(pilha) - 1 <= Len(pilha)
      BY <2>2 DEF Indices
    <3>3. Abaixo \in Seq(Rota)
      BY <2>1, <3>2, Pilha, SubSeqProperties DEF Abaixo
    <3> QED BY <3>1, <3>3
  <2>8. Voltar \/ Deletar \/ OkDoAlerta
    BY <2>3, <2>4, <2>5, <2>6, <2>7
       DEF Next, Toque, AbreCarro, AbreFolha, AdicionarCarro, AbreMenu, MapaOuVideo, Navega,
           Detalhes, Editar, Salvar
  <2>10. CASE Voltar \/ Deletar
    <3>1. Pop(1) /\ Topo.pagina \in {"folha", "carro", "menu", "form"}
      BY <2>1, <2>2, <2>10, MenuSai DEF Voltar, Deletar, NoTopo, Rota
    <3>2. Indices' = {i \in Indices : i <= Len(pilha) - 1}
      BY <2>1, <3>1, Prefixo
    <3>3. Indices' = {}
      BY DEF Indices
    <3>4. Len(pilha) \in {2, 3}
      BY <2>1, <2>2, <3>1 DEF InvPilha, Empilhamento
    <3>5. 1 <= Len(pilha) - 1 /\ 1 \in 1 .. Len(pilha)
      BY <2>2, <3>4
    <3>6. 1 \in Indices
      BY <3>5 DEF Indices
    <3> QED BY <3>2, <3>3, <3>5, <3>6
  <2>9. CASE OkDoAlerta
    <3> SUFFICES ASSUME ~Topo.naSaida PROVE FALSE
      OBVIOUS
    <3>1. PICK n \in {1, 2} : Pop(n)
      BY <2>9 DEF OkDoAlerta
    <3>2. Indices' = {i \in Indices : i <= Len(pilha) - n} /\ Indices' = {}
      <4>1. Indices' = {}
        BY DEF Indices
      <4> QED BY <2>1, <3>1, <4>1, Prefixo
    <3>3. PICK j \in 1 .. Len(pilha) - 1 : pilha[j].id = Topo.dono /\ Topo.dono # 0
      BY <2>1, <2>2, <2>9 DEF OkDoAlerta, NoTopo, InvPilha, OkFechaQuemPediu
    <3>4. j \in Indices /\ pilha[j].id # 0
      BY <2>2, <3>3 DEF Indices
    <3>5. j \in {2, 3}
      BY <2>1, <3>4 DEF InvPilha, IdsDistintos, Empilhamento
    <3>6. 1 \in Indices /\ 1 <= Len(pilha) - n
      BY <2>2, <3>3, <3>5 DEF Indices
    <3> QED BY <3>2, <3>6
  <2> QED BY <2>8, <2>9, <2>10
<1> QED BY <1>1, Invariancia, PTL DEF Spec, HomeSoCaiNaSaida

(* The event of a save names the tipo that was sent, unless Salvar was     *)
(* tapped again for the same Carro (carro-form-page.dart:218, 228, 234).   *)
THEOREM EventoFiel == Spec => EventoDoTipoGravado
<1> DEFINE A == \A o \in ops \ ops' :
                  o.acao = "salva" /\ evento' # Nenhum => evento' = o.corpo \/ o.trocado
<1>1. IInv /\ [Next]_vars => [A]_vars
  <2> SUFFICES ASSUME IInv, Next, NEW o \in ops \ ops', o.acao = "salva", evento' # Nenhum
               PROVE  evento' = o.corpo \/ o.trocado
    BY DEF vars
  <2>1. CorpoAtual
    BY DEF IInv
  <2>2. PICK p \in ops : Salvou(p)
    <3>1. evento' # Nenhum /\ ops' # ops
      OBVIOUS
    <3> QED
      BY <3>1 DEF Next, Toque, AbreCarro, AbreFolha, Detalhes, AdicionarCarro, AbreMenu, Editar,
                  MapaOuVideo, Navega, Troca, Voltar, Salvar, Deletar, OkDoAlerta, Descarta,
                  Andamento, Envia, Grava, Deletou, Recusa
  <2>3. o = p /\ o.fase = "gravado" /\ evento' = TipoDe(o)
    BY <2>2 DEF Salvou, EventoDe
  <2> QED BY <2>1, <2>3 DEF CorpoAtual
<1> QED BY <1>1, Invariancia, PTL DEF Spec, EventoDoTipoGravado
=============================================================================
