# Verification project of the Ejixhole backend

TLA+ models of this backend (reservations, payments, cash, idempotency, outbox, sessions,
the public portal, prices, reports), model-checked with TLC and proved with TLAPS. Paths are relative to
`src/`; names of the code are kept in the modules.

## The system

A FastAPI application over PostgreSQL. Every HTTP request is one SQLAlchemy session
(`app/database.py` `get_db`), at READ COMMITTED; any number of requests, and any number
of processes, run at the same time. What coordinates them is only what the database
does: row locks where the code asks for them, unique and exclusion constraints,
advisory locks, and conflicts at commit. A background publisher sends the domain
events to MH-Core.

| Component | State | Operations | Hard behaviour | Module |
|---|---|---|---|---|
| Reservations (`reservacion_service.py`) | row: type, unit, dates, total, paid, state | create, change state, edit | checks on a row read without a lock; overlap found only by the EXCLUDE constraint; UPDATE of the changed columns | `Reservaciones` |
| Payments (`pago_service.py`) | table pagos, `monto_pagado` | payment, refund, automatic confirmation | lock on the reservation, then on the cash session; two payments of one balance | `Reservaciones`, `Caja` |
| Visit (`flujo_visita_service.py`) | state en_curso, completada | check-in, check-out | lock on a row the route has already loaded | `Reservaciones` |
| Cash sessions (`caja_service.py`) | session, movements, amounts of the close | open, movement, close, cash payment | open twice, close twice, movement during a close | `Caja` |
| Idempotency keys (`core/idempotency.py`) | key, hash, stored answer | run once, replay, refuse | double clicks, crash between four commits, failed clean-up, errors after the work is committed | `Idempotencia` |
| Audit (`audit_service.py`) | append-only events | record | a commit apart from the business one | `Idempotencia` (with a key) |
| Outbox (`outbox_service.py`) | row per event, unique event key | record with the change | an event without its change, or twice | `Reservaciones`, `OutboxPublisher` |
| Publisher (`outbox_publisher_service.py`) | lease, attempts, next attempt | claim, renew, post, mark, recover | lease lost in the middle of a request, late answers, crashes, the limit of attempts | `OutboxPublisher` |
| Sessions and users (`auth_service.py`, `usuario_service.py`) | auth_sessions, usuarios | login, logout, authorise, create, deactivate, reactivate, change role, reset | login during a revocation, limit by user, last administrator | `Sesiones` |
| Public portal and its guard (`intento_publico_repository.py`, `publico_routes.py`) | attempts, challenges, clients | challenge, reserve attempt, find or create the client, book, release | counting under advisory locks, four locks by request, crash before the release, nonce given back, errors after the booking is committed | `PortalPublico` |
| Rate limiters (`core/rate_limiter.py`) | windows, offences, blocks in memory | admit, refuse, penalise, forget | threads that read the clock before the lock, boundaries of window and block | `Limitadores` |
| Blocks and calendar (`bloqueo_operativo_service.py`, `publico_service.py`) | events of the calendar | create, delete, check a booking, availability, periods | a block created during a booking, nights against days | `Calendario` |
| Marketing client (`mh_core_marketing_service.py`) | one call, its deadline | wake up, try, sleep, read | retries of a POST, sleeps past the deadline, errors that are not caught | `Mercadeo` |
| Metrics (`core/metrics.py`, `core/observability.py`) | counters, window of samples | begin, finish, snapshot | cancelled tasks, percentiles, verdicts of the objectives | `Metricas` |
| Prices, special rates (`tarifa_especial_service.py`) | rates | create, edit, delete, price, simulate | rates that change between two queries of one price, rounding by day, ties | `Tarifas` |
| Reports (`reporte_service.py`) | reads reservations, payments, clients | ten reports | each one filters by hand, on another date | `Reportes` |
| Dashboard (`dashboard_service.py`) | none | twelve reports and a cut in one request | midnights between two queries, signs and rounding of percentages | `Tablero` |
| Catalogue writes | clients, services, units | create, edit, deactivate | creation of a client, withdrawal of a service | part of `Reportes`, `PortalPublico` |
| Read integration for MH-Core, notifications, application shell, scripts | - | reads, formatting, wiring | none that a model says more of than a test | not modelled |

How they interact. A cash payment locks the reservation and then the open session of
its cashier, and one commit carries the payment, the movement, the new state and the
events. Creating a reservation or paying runs inside `ejecutar_con_idempotencia`, whose
commits surround that one, and is followed by the audit event in a commit of its own.
The outbox is where the business transactions meet the publisher: they add rows, it
never reads anything else. A booking of the portal passes the limiters in memory, the
durable guard, the calendar and the price, and then is a reservation like the others;
each of these keeps its own state and none is rolled back with the next, so each has its
module, and what goes wrong between them (a guard released, a client left behind, a
block that arrives late) is in the module of the one that is called first. A report reads
what reservations, payments and clients left; a dashboard is a request of many reports.

`PROJECT.json` lists every component with its sources, and every hazard at its line.

## Modules

| Module | What it is |
|---|---|
| `CicloReserva` | abstract: the life cycle of a reservation and the milestones it announces |
| `Reservaciones` | reservations, payments, visits as overlapping transactions |
| `Caja` | cash sessions as overlapping transactions |
| `PromesaUnica` | abstract: what an idempotency key promises to a client |
| `Idempotencia` | the two-phase protocol, with retries, failures and crashes |
| `EventDelivery` | abstract: what the outbox promises for each event |
| `OutboxPublisher` | the workers, their leases and MH-Core |
| `Sesiones` | logins and sensitive changes of users over the row lock of the user |
| `PortalPublico` | the durable guard and the booking it protects |
| `Limitadores` | the two limiters in memory, shared by threads |
| `Calendario` | blocks against bookings and edits in course; what the portal shows |
| `Mercadeo` | one call to a service that sleeps: wake-up, retries, deadline |
| `Metricas` | requests in course, window of samples, verdict |
| `Tarifas` | rates that change while a price is worked out; the simulator |
| `Reportes` | the tables and the ten reports as operators over them |
| `Tablero` | the summary as a request of thirteen queries over `Reportes` |
| `Redondeos` | `abs` and `round`, for `Tablero` and `Metricas` |
| `*Proofs` | the theorems of each module and their proofs |
| `EntornoProofs` | the same for `Calendario`, `Reportes`, `Tablero`, `Tarifas`, `Limitadores`, `Mercadeo` and `Metricas`, one section each |
| `Sumas` | lemmas that the proofs share: induction, sums and extremes of finite sets |
| `MC*` | instances for TLC: symmetry sets, and nothing that changes the module |

Definitions whose comment calls them a variant or a faulty form are not part of the
models: each one is a plausible bug that a property must detect.

### Reservaciones

A handler is two steps. The first loads the row, makes every check of the handler and
computes the row it wants (`Crear`, `CambiarEstado`, `Actualizar`, `RegistrarPago`,
`CheckIn`, `CheckOut`); the second is flush and commit (`Insertar`, `Confirmar`), or
nothing at all (`Revertir`: a constraint, an exception, the death of the process). Any
other request may commit between the two.

- `TomaCandado` is `with_for_update()`. Three handlers take it; the others read without
  a lock, but their UPDATE waits for it (`candado[r] \in {Nadie, p}` in `Confirmar`).
- `Fusiona` is SQLAlchemy's UPDATE: only the columns whose value changed in the session
  travel, the others keep what the database has at that moment. `actualizar` assigns
  every field, an assignment of the value that was there writes nothing.
- `RespetaExclusion` is the constraint of migration 0012, with the semantics of
  `daterange(llegada, salida, '[)')`: an empty range overlaps nothing and bounds in the
  wrong order are an error. The friendly overlap query is part of the first step.
- `ClavesNuevas` is `UNIQUE(event_key)`: a milestone announced twice aborts the change.
- check-in and check-out: the route loads the row before the locked query, for its
  audit snapshot. The identity map holds weak references and the route keeps none, so
  the object is gone when the locked query runs and its columns are fresh. The model
  reads at the lock. `actualizar` and `cambiar_estado` hold the object all along.
- The price is any value of `Totales`; catalogue checks only decide which requests get
  that far. Amounts are whole cents.

### Caja

`Abrir`, `RegistrarMovimiento` and `Cerrar` check first; `InsertarSesion`,
`InsertarMovimiento`, `SumarMovimientos` and `GuardarCierre` write later. A cash payment
holds the session with FOR UPDATE (`TomaCandado`) to its commit. In PostgreSQL the
foreign key of a new movement takes KEY SHARE on the session, which waits for FOR
UPDATE but not for the NO KEY UPDATE of a close: hence `candado[s] = Nadie` in
`InsertarMovimiento`, and no lock between a movement and a close. `cerrar_sesion` loads
the session, then its movements (lazy relation), then writes: three steps. The
`cierre` variable is the three columns that a close fills.

### Idempotencia

A key stands for (clave, endpoint); `Contextos` is what the operation takes from
outside the body, which the hash does not cover. Each commit is an action: `Reservar`,
`Operar`, `Guardar`, `Auditar`, `Contestar`; `Fallar` and `Liberar` are the clean-up
after a refusal. `FallarTarde` is an operation that raises after its own commit, in the
`db.refresh` of what it made (`pago_service.py:157`, `reservacion_service.py:267`): the
same clean-up deletes the key and the work stays; `rotas` is the history variable of such
work, and `Romper` its step in `PromesaUnica`. `Morir` is a crash, or an error with the
session unusable, between any two. `Chocar`, `Repetir` and `Rechazar` are the request that meets a taken key: the
INSERT and the SELECT after it are two steps, and the row may be gone in between.

### OutboxPublisher

`ClaimStale` is the first statement of `claim_batch` (rows whose lease has expired, FOR
UPDATE SKIP LOCKED), `ClaimBatch` its rest and commit; `rowLock` is held between the
two. `LoadOwned` renews the lease and sends; `Accepts`, `Refuses` and `Fails` are what
the worker learns; `MarkSuccess` and `MarkFailure` write it if the worker still owns
the row. `Exception` aborts the batch and keeps the worker id, `Crash` changes it, and
a request already on its way may still arrive (`LateArrival`). Clocks are two flags by
row, `leaseExpired` and `due`, that become true at any moment: every relation between
lease, backoff, HTTP timeout and scheduling is included. A batch is any subset of the
right size, so nothing rests on the order of the query. A manual dispatch by HTTP or by
cron runs the same `publish_once` and is one more worker.

Folded into one step: the commit that renews the lease and the sending of the request
(nothing but the envelope is computed in between). Left out: signature, envelope, counters.

### Sesiones

A login is three steps: `Validar` (password and state on an unlocked read, time of
issue), `ContarSesiones` (`SELECT ... FOR UPDATE` of the user, count, sessions to
revoke), `GuardarSesion` (commit). A sensitive change is `Autorizar` (the session of the
administrator), `Leer` (unlocked read and checks), `EscribirCambio` (the flush takes the
row lock, then the sessions are selected) and `ConfirmarCambio`. `Revertir` ends any of
them. `cambios` is a history variable, by which the documented rule is stated. The
password is only known as valid or not; of the roles only admin is told apart: a new
user may have any, and a change between two others acts as a reset. `last_seen_at` is written and never read.

### PortalPublico

Pseudonyms are numbers, ordered as the strings of the code are, so that `sorted()` is
`Min`. `Enviar` reads the challenge and the clock, `Bloquear` takes one advisory lock
and waits if another connection has it, `Contar` applies the checks in the order of the
code, `Guardar` inserts and commits (which ends the locks), `Chocar` and `Repetir` are
the branch of IntegrityError, which inserts a second row without nonce and without
locks. Then `BuscarCliente`, `CrearCliente`, `Reservar` (the commit of the booking) and
`Avisar` (its refresh, and the client loaded for the mail). An exception before that
commit is `Fallar`, one after it `FallarTarde`; both go to `Liberar`. `FallarAuditoria` is
the audit of an attempt that the monitor lets pass, which raises before the try, and
`Caer` the death of the process, or a release that raises. The deployment is in one of the
two modes from the beginning. `uso` (of a row), `hechas` and `rotas` (bookings of each
form, and those whose request raised after them) are history variables.

### Limitadores

`permitido` is `Llega` (the clock, read before the lock) and, under the lock, `Admitir`,
`Bloqueado` or `Rechazar`. `Olvida` wipes the record of a key whose block is over and
whose list is empty. A booking asks for two keys (`Sigue`). `Demora` bounds the
time between the clock and the lock: without a bound a thread could sleep longer than a
window. `llamadas`, `bloqueado` and `infracciones` are the dictionaries of the code, a list
of calls being the set of its elements, each with its place (`turnos` numbers them) and
its reading of the clock; `admitidas` is a history variable.

### Calendario

A booking or an edit is a check (`PedirEstancia`, `PedirEdicion`: blocks, then
occupation) and a commit (`GuardarEstancia`, `GuardarEdicion`, under EXCLUDE and with the
columns that changed), with events created and deleted in between. `visto` is a history
variable: the last block that the check could see. `Disponible` and `Periodos` are the two
answers of the portal; dates are days, nights are half-open ranges.

### Mercadeo and Metricas

`Mercadeo` follows one call on a clock of ticks: wake-up, attempts whose timeout is cut to
what is left, delays that double, the reading of the body outside of the retries. MH-Core
may make the draft whatever the answer. `Metricas` is the registry and its middleware:
`Comenzar`, `Acabar`, and `Cancelar` for a task whose CancelledError passes by
`except Exception`. The rates of the summary are compared without dividing, and an
element of a sorted list is the value with that many before it (`EnOrden`).

### Tarifas, Reportes, Tablero

`Tarifas` works a price out one day a step (`CobrarDia`), with rates created, edited and
deleted between the steps; the identity map keeps the object of a rate once charged
(`Vista`). Amounts are small integers and the percentages round half up, as `quantize`
does, at a coarser unit. `Precio` and `TotalSimulado` are the price and the simulator as
operators over a table. `Reportes` fills the three tables by atomic operations (how they
overlap is `Reservaciones`) and gives each report as an operator with the filter of the
code; averages are kept as a sum and a count. A payment carries the date of the beginning
of its transaction, so the one before midnight may still enter. `Tablero` adds the
request of the summary, with the clock moving between its queries. A percentage is the
division of the code by the magnitude of the previous value, rounded to a whole number of
parts (`PartesPorUnidad`, 10000 in the code: hundredths of one per cent).

## Runs

Each `.cfg` gives constants their values and replaces no definition. CHECK_DEADLOCK is
off: every module stops when its bounds (rows, payments, requests, clock) are used up,
`OutboxPublisher` when every event has its outcome and nothing is left to claim, and
`Sesiones` also when the last administrators have deactivated each other. The
deadlock that matters, requests that wait for each other's advisory locks, is
`TodaSolicitudTermina`.

| Run | Question | Instance |
|---|---|---|
| `ReservaCobros` | do money, states, visits and milestones agree while two requests race on one reservation, and what alone lets it owe less than was paid? | 1 day visit, 2 requests, 2 totals, 2 amounts, 3 payments |
| `ReservaTraslape` | can a unit be given twice on a night, and what alone leaves a stay without nights? | 2 stays, 1 unit, 3 days, 2 requests |
| `OutboxEntrega` | is every event delivered or given up, published only if received, and sent a bounded number of times? | 2 events, 2 workers, batch 2, 2 attempts, under fairness |
| `CajaTurnos` | one open session by cashier, closes that add up, no payment into a closed session | 2 sessions, 2 cashiers, 2 requests, 2 movements |
| `IdempotenciaDobleClic` | is each key worked once, but for work that raised after its commit, and answered for its own data, with retries and crashes, and what becomes of a key whose owner died? | 2 keys, 2 bodies, 2 contexts, 3 requests, 2 works done |
| `SesionesVigentes` | does the row lock keep the limit of sessions, and does a sensitive change kill what was stored? | 2 users, one of them the founder, 2 requests, 3 sessions that last 2 ticks, limit 1, 1 sensitive change by user |
| `PortalGuardia` | do quotas, nonces, releases and waits hold, in both modes, and does every request end? | 2 forms that share the contact, 2 requests, 2 attempts, 1 booking of each form that raises after its commit, under fairness |
| `Rechazos` | four parts of the edge of the process, one at a time: windows and penalties; calendar and blocks; the deadline of the retries; the truth of the metrics | 2 threads, 7 requests and 2 calls in a window of 3 ticks, penalties of 2 and 4, a clock of 6; 3 days, 2 units, 1 block, 1 stay, 2 requests; deadlines of 4 and 8 ticks; a window of 3 samples |
| `Cuentas` | the figures, one part at a time: prices, reports, dashboard | 3 rates and a stay of 3 nights; 2 reservations, 2 clients, 2 services, 4 rows on 3 days of 2 months; percentages of whole units |

`MCRechazos` and `MCCuentas` put modules that share no state side by side: `area` says
which one a behaviour works, so the state space is the sum of theirs and not the product.
For the same reason a behaviour of the limiters asks for keys of one kind, those of the
login or those of a booking, which are in limiters of their own.

Why the bounds are enough. The races are between pairs of requests on one row, so two
requests and one or two rows show each pair in every order; a request restarts when it
ends, so the sequences are longer than two. Three payments hold payment, payment and refund.
Three days hold an empty, a one-night and a two-night stay, adjacent ones and
overlapping ones. Two attempts hold both sides of the limit, and two workers with two
events hold a takeover in the middle of a batch. Three requests on a key hold an owner,
a collision and a retry after both. A limit of one session makes every second login a
revocation, of itself if it was issued first. Two forms that share only the contact make
each lock be disputed in another order than that of the columns, and limits of one make
every second attempt a decision. A window of three ticks with a delay of one holds a
decision recorded on each side of the edge; the clock of six outlives the second penalty, which is longer than the window, so an offence
after it meets a record that has been wiped (with `SinOlvido`, the limiter that forgets
nothing, `ReincidenciaEnVentana` fails). Percentages of whole units over incomes of at most
two tie at a half, round to nothing and have negative previous values. Rates
numbered 9, 10 and 11 tell the order of the numbers from that of the texts. Three days
that end one month and begin another hold a day, a month and a week that are cut
differently. `MaxPagos`, `MaxMovimientos`, `MaxEjecuciones`, `MaxCuts`, `MaxSesiones`,
`MaxCambios`, `MaxIntentos`, `MaxRotas`, `MaxPeticiones`, `MaxEventos`, `MaxEstancias`, `MaxFilas`,
`MaxVida` and the bounds of the clocks (`MaxReloj`, `MaxInstante`, `MaxDia`, `MaxFecha`,
`UltimoDia`) are each in one guard or one set. `MaxCuts` limits the claim transactions cut
by a crash or an exception before they commit; it is 0 in the run (a cut claim leaves no
trace but its locks, which the database drops) and any number in the proofs.

Fairness. `OutboxPublisher!Fairness`: `run_forever` never stops and sleeps between
rounds, so a worker that can take its next step takes it; a POST ends by its timeout,
with some answer; time passes, so leases expire and backoffs end. No kind of answer is
fair, and exceptions and crashes may happen for ever. `PortalPublico!Equidad`: a request
that has not died goes on, and strongly so, because an advisory lock that is freed goes
to the one that has waited longest (the wait queue of PostgreSQL); with weak fairness a
request could lose each race for a lock that others take and free for ever. Arrivals,
crashes and the clock are not fair. Symmetry is not used in the runs that check liveness.

### Violations

These runs check one documented rule each and TLC finds how the code breaks it; each is
an entry of `findings`, with the lines.

| Run | Rule | What happens |
|---|---|---|
| `ReservaTerminalPisado` | completada and cancelada do not change | a change of state prepared on an older read commits over a terminal state |
| `SesionEscapada` | a deactivation or a reset ends all the sessions | a login validated before it stores its session after it |
| `PortalTrampa` | a filled honeypot is always refused | in monitor mode the second sending of the form collides at the INSERT, and that branch forgets why it was refused |

The stale changes of state are exactly three: `ImplementaCicloConcurrente` shows that the
code implements the documented life cycle (`CicloReserva`) plus the pairs of
`CarrerasDeEstado`, and no other.

### Limits of the code

What the models reach and the code does not prevent. The facts are kept as definitions of
the modules where there is one (in brackets), and hold in no run.

- A total is edited below what was paid: a payment commits between the check and the
  commit of the edit (`app/services/reservacion_service.py:382`, `TotalCubrePagado`). Nothing
  else makes a reservation overpaid (`SobrepagoSoloPorEdicion`, proved).
- Two edits, one of each date, both valid alone, leave a stay without nights
  (`EstanciaValida`), and nothing else does (`EstanciaInvalidaSoloPorCarrera`, proved); the
  calendar then shows no period for it and still refuses whoever sleeps over it. Two such
  edits can also put a stay on a block that was there before.
- A closed cash session is closed again, and a movement commits between the sum and the
  UPDATE or after the close, while `docs/modulos/caja.md:21-23` says neither
  (`CierreUnico`, `CierreVigente`).
- A crash, or a clean-up that fails, leaves a key in course for good, while
  `app/core/idempotency.py:91-94` frees it and `app/models/idempotency_key.py:7-9` says that
  NULL means running (`EnCursoDeVerdad`). Only the death of its owner does it, and nobody
  works, answers or frees that key again (`AbandonoPorMuerte`, proved). Path and user are not
  in the hash, so a reused key may answer for another request (`RespuestaPropia`). If the winner of a collision deletes
  its key between the conflict of the loser and its SELECT, the loser answers 500
  (`app/core/idempotency.py:67`).
- An operation that raises after its own commit is taken for a refusal: the refresh of the
  row it made fails (`app/services/pago_service.py:157`, `app/services/reservacion_service.py:267`),
  `app/core/idempotency.py:95` deletes the key, and a retry works it again, although `:78-79`
  says 'nunca se arriesga una segunda ejecución real' (`NuncaDosVeces`). Nothing else works a
  key twice, and the work left behind is never stored, audited or answered
  (`ClavesCoherentes`, `ImplementaPromesa`, proved).
- The same in the portal: the refresh, or the load of the client for the mail
  (`app/services/publico_service.py:167`), raises after the booking is committed, and
  `app/routes/publico_routes.py:129` gives back its place in the quotas and its challenge,
  which `docs/PROTECCION_PORTAL_DURABLE.md:7` says has one use (`DesafioDeUnSoloUso`). Nothing
  else gives a challenge back after its booking (`UnaPorDesafio`, proved).
- Creating a reservation checks the blocks before the key (`app/routes/reservacion_routes.py:32`):
  a retry after a new block is refused although the first one was stored.
- Two administrators who deactivate or demote each other leave none (`QuedaAdministrador`):
  both count two and update different rows, although `app/services/usuario_service.py:48` and
  `:79` refuse it for the only active one.
- A refund is accepted in any state (`app/services/pago_service.py:47`), so a visit may be
  completada and owe money, while `docs/flujo-visita.md:21` says its balance was paid in
  full; and such a debt is in no list of accounts receivable, which leaves completada out.
- An event may end in dead_letter although MH-Core stored it (its answers were lost);
  duplicates are left to MH-Core, which is the contract of `docs/domain-events-outbox.md`.
- Portal: `docs/portal-publico-fase-2.md:27` searches the client by phone or mail, the code
  reuses one only if both are equal (`app/services/publico_service.py:84`); two first requests
  at once create it twice. `public_submission_attempts` is never purged.
- Limiters: the wait announced after a penalty may end before the window does, and the
  next attempt is refused again; a block longer than the window wipes its own record, so
  with 900, 3600 and 14400 the block of an address never passes 3600
  (`ReincidenciaEnVentana`). Keys are never removed from `_llamadas`.
- Rates: the simulator breaks ties by `str(id)` (`app/services/tarifa_especial_service.py:148`),
  the price by the number (`:73`). An edit cannot send NULL, and is not checked for unit
  and type together as a creation is.
- Reports: `app/repositories/reporte_repository.py:40` and `docs/modulos/reportes-entrega-1.md:46`
  speak of pendiente and confirmada, ESTADOS_ACTIVOS holds en_curso too; the active
  reservations of the dashboard leave it out (`app/services/dashboard_service.py:91`). The filter
  by service is by the service a visit has now. A payment begun before midnight enters
  the cut of yesterday. A midnight inside a dashboard mixes two days, and the month it ends
  is in neither half of the cards asked after it (`TableroConsecutivo` says when no day is
  lost; no day is ever in both). A card shows 0 % beside an arrow for a change below half
  of its last digit.
- Marketing: a connection that MH-Core closes without an answer is neither URLError nor
  TimeoutError, so a wake-up or an attempt ends in 500 without a retry; a POST repeated
  after a lost answer leaves several drafts; the last attempt may pass the deadline by
  less than its least timeout. Metrics: a cancelled task never leaves the counter of active
  requests (`app/core/observability.py:66`), and the check of the error rate is implied by that
  of availability.
- `docs/modulos/reservaciones.md` rules 1 (one active reservation by client) and 5 (the
  total is price by people) describe an earlier version: the code has neither.

## Proofs

For every value of the constants that satisfies the assumptions of the modules
(`ConstantesDe...` and `PublisherConstants`, where the constants are declared: the null
values are not rows, amounts and bounds are naturals, sets of rows are finite where the
code counts or adds them up; and `VaciaNoEsVenta`, `ReglasTipadas`, `SinLlamadaEsNula`,
that the null value of a table is none of its rows). TLC evaluates them in every run.
Every safety invariant, action property and refinement that a passing run checks is a
theorem.

| Module | Theorems | Inductive invariant and why |
|---|---|---|
| `ReservacionesProofs` | `TipoCorrecto`, `CoherenciaInvariante`, `UnidadNuncaDoble`, `CobroSiempreLegitimo`, `VisitaSiempreEnOrden`, `ImplementaElCiclo`, `SaldoSiempreConservado`, `PrudenciaInvariante`, `LaEstanciaInvalidaEsCarrera` | `Coherencia`: a handler that locked its row still sees the row it read (`LecturaVigente`); what each request is about to write follows from what it read (`Coherente`); a reservation in a state has announced the way to it (`HitosRegistrados`). Without the first the money theorem fails at the commit of a payment; without the third a stale confirmation of a confirmed row could not be excluded. `SinDobleReserva` is inductive with `Coherencia`: every write passes the EXCLUDE check. `Contabilidad` makes `SaldoConservado` so: payments are numbered as they commit, so a new one is not yet in the set and adds its amount to the sum (`MontosAgrega`). `Prudencia`: what an edit will write is right about the dates and the money that it read, only the type of the row is sure to be the same at the commit, and no other handler prepares new dates or a new total; so what breaks a rule at a commit is an edit whose reading was stale. |
| `CajaProofs` | `UnaSolaAbierta`, `ElCierreCuadra`, `PagoSiempreEnCajaAbierta`, `CajaSiempreCoherente` | `Turnos`: a payment in flight holds the lock of an open session of its cashier, so no close commits before it. `Cuentas`: movements are numbered as they commit, so adding one changes no earlier balance, and the sum a closing request holds remains a balance its session had. `Libros`: what is stored as the expected and counted money of a close, and their difference, are integers, because sums of amounts are. |
| `IdempotenciaProofs` | `UnaVezPorClave`, `AuditoriaSiempreFiel`, `SoloLaMuerteAbandona`, `CumpleLaPromesa` | `ClavesCoherentes`: a key has one owner, the only work done for it before its owner works is work that raised, and every answer stored or in hand was done for that key and body and did not raise. With it each `Operar` is a `Hacer`, each `FallarTarde` a `Romper` and each `Contestar` a `Responder` of `PromesaUnica`; and an owner that frees its key or stores its answer leaves a row that is gone or answered, so only one that dies leaves a row that is neither. |
| `OutboxPublisherProofs` | `PublisherInvariant`, `PostsNeverExceed`, `DeliveryIsSafe` | `PublisherInv`: a row has an owner exactly while it is processing, every request made is paid by an attempt counted or about to be (`PostsPaid`), an event not settled has attempts left, and a success is recorded only for what MH-Core stored. |
| `SesionesProofs` | `SesionesTipadas`, `ElCandadoCubre`, `NuncaMasDelLimite`, `ElCambioLasRevoca` | `SobrantesElegidas`: rows of a user are added only under its lock and elsewhere only revoked, so what a login selected covers what is still over the limit when it commits. `CorteGuardaPocas`: in a finite set under a total order those with fewer than k before them are at most k, by an injection into 0..k-1. Without the first the count is stale; the second is what `activas[MAX:]` means. |
| `PortalPublicoProofs` | `PortalTipado`, `ElCupoSeJustifica`, `LaCuotaSeRespeta`, `ElDesafioSeGastaUnaVez`, `LaEsperaEsReal` | `Guardia`: from its count to its insert a request holds the lock of each of its pseudonyms (`ConCandados`), so the rows counted can only have been released (`Hueco`), and each window that holds the new row holds only rows that were counted. `Propias`: a row at work has one owner. `Testigos`: each booking whose request did not raise has a row with its nonce that nobody deletes, so one for each challenge is a sum over its forms in which no two are one (`TotalUno`). `EsperaExacta`: the announced wait ends when the row that makes the quota leaves the window, which `Umbral` finds among any finite set of times. |
| `EntornoProofs`, calendar | `ElBloqueoSeRespeta`, `ElCalendarioEsFiel` | `EnTramite`, `Estadias`: what a request will write, and what is written, is hit by no block that its check could see. |
| `EntornoProofs`, reports and dashboard | `ElCorteNoCambia`, `LosReportesCuadran`, `LosIngresosCuadran`, `ElTableroEsFiel` | `Pedido`: every answer is the one its place asked for, on the day it was asked; `EnOrdenDeReloj`: those days never go back, so no day is in both halves of a card, and one that has the day of the response begins where its previous half ends. `RedondeoCerca`: a rounded quotient has the sign of its dividend, and is zero for at most half the divisor. `PagadoCuadra`, `FechasCuadran`: the paid column of each visit is the sum of its payments, and nobody buys before being a client. A report is a sum over rows, and its cuts are the fibres of a function of the row (`TotalFibras`, `ConteoPorGrupos`). |
| `EntornoProofs`, prices | `ElDesgloseCuadra`, `ElPrecioEsElVigente`, `ElSimuladorPredice` | `Desglose`: what was charged is the base and the lines, and no day took more than the price of a day. `Vigente`: while no rate moves, the objects kept are the rows. `Conocidas`: ids grow, so the candidate of the simulator is the youngest. |
| `EntornoProofs`, limiters | `LaVentanaSeRespeta`, `LaReincidenciaEsEnVentana`, `LaEsperaDelLimiteEsFiel` | `Memoria`: a call admitted within the window is still in the list, although the list is cut by readings of the clock that are not in order (`EnHora`: none is older than `Demora`). With `Puesta` (a list fits its limit) a stretch admits no more than the limit (`Cupo`). `Castigada`: a block as long as the window outlives every call of the list, so the next admission wipes the record. |
| `EntornoProofs`, marketing | `ElPlazoSeRespeta` | `Ritmo`: what is in hand has waited what is due, is about to, or is over. `Copias`: a draft more than one was paid by an error taken as temporary. `Cierre`, `Aplazada`: the result of a call that goes on is empty, and it goes on for less than the least attempt after the deadline. |
| `EntornoProofs`, metrics | `LasMetricasSonFieles` | `Cola`: the window is the end of the history; `UltimoFallo`: the last failure is the last of the history that is one; `Contadas`: the counter in course exceeds the requests by those cancelled. An order statistic exists and grows with its index (`EnOrdenDef`, `EnOrdenCrece`), and so does the rounded index of a percentile. |
| `Sumas` | lemmas only | The library's induction theorems cannot be used here, for they take an operator. Induction is stated for sets: a set of naturals with 0 and closed under successor is all of them (`InduccionNat`, by an injection that would shrink a finite set), and the same for the subsets of a finite set (`InduccionTamano`). With it the recursion of `MapThenSumSet` has a value (`AcumulaExiste`), which does not depend on the order (`TotalQuita`), and obeys the laws of a sum. |

Only model-checked: liveness under fairness (`Delivers`, `TodaSolicitudTermina`), which
needs ENABLED and is out of the prover's reach; and the violations, where a
counterexample is the result.

## Not modelled

- MH-Core read integration: answers that only read, behind a credential check.
- Notifications: the mail is sent after the commit and the errors of its server are logged and
  dropped. Only the load of the client for its text may raise, and that is in `PortalPublico`.
- Application shell, configuration, CORS, logging, health probes: no state of their own.
- Scripts and migrations: run by hand, one at a time. Of the migrations the constraints
  are modelled where they decide a race.
- CSV exports and the routes of the reports to MH-Core: formatting of what `Reportes` has.
- Editions and deactivation of clients, edition of services and units: one row, one write.
- Amounts with more than two decimals (`app/schemas/pago.py` accepts them, the column rounds).
- The corte of the day of the cash module, and the counters of the outbox: queries.

## Plan

1. A composition of `Reservaciones` and `Caja` in one payment transaction: no deadlock
   between the two locks, and the money of the park is the money of the visits.
2. The clean-up of duplicates of clients and the editions of the catalogue.
