-------------------------- MODULE CompositionProofs --------------------------
(***************************************************************************)
(* The components around the store together: what is proved of each of them *)
(* holds of the whole, because they share no variable and every step of the *)
(* whole is a step of one of them that leaves the others where they are.    *)
(***************************************************************************)
EXTENDS MCMonitor, AnalyticsProofs, MonitorProofs

(* `part` never leaves the names of the components.                         *)
LEMMA PartIsOne == Spec => [](part \in Parts)
<1>1. Init => part \in Parts
  BY DEF Init
<1>2. part \in Parts /\ [Next]_vars => (part \in Parts)'
  <2> SUFFICES ASSUME part \in Parts, [Next]_vars PROVE part' \in Parts
    OBVIOUS
  <2>1. UNCHANGED part
    BY Zenon DEF Next, Alone, vars
  <2> QED BY <2>1
<1> QED BY <1>1, <1>2, PTL DEF Spec

(* Every behaviour of the whole is a behaviour of each component, with what *)
(* the others do as steps that change nothing.                              *)
THEOREM MonitorImplementsParts ==
  Spec => /\ TxSpec /\ MeterSpec /\ AlertSpec /\ TrendSpec /\ LogSpec /\ ExtSpec
          /\ OutageSpec /\ ForecastSpec /\ StartupSpec /\ RecordsSpec /\ ReadersSpec
<1>0. Init => /\ TxInit /\ MeterInit /\ AlertInit /\ TrendInit /\ LogInit /\ ExtInit
              /\ OutageInit /\ ForecastInit /\ StartupInit /\ RecordsInit /\ ReadersInit
  BY DEF Init
<1>1. [Next]_vars => [TxNext]_txVars
  BY Zenon DEF Next, Alone, vars
<1>2. [Next]_vars => [MeterNext]_meterVars
  BY Zenon DEF Next, Alone, vars
<1>3. [Next]_vars => [AlertNext]_alertVars
  BY Zenon DEF Next, Alone, vars
<1>4. [Next]_vars => [TrendNext]_trendVars
  BY Zenon DEF Next, Alone, vars
<1>5. [Next]_vars => [LogNext]_logVars
  BY Zenon DEF Next, Alone, vars
<1>6. [Next]_vars => [ExtNext]_extVars
  BY Zenon DEF Next, Alone, vars
<1>7. [Next]_vars => [OutageNext]_outageVars
  BY Zenon DEF Next, Alone, vars
<1>8. [Next]_vars => [ForecastNext]_forecastVars
  BY Zenon DEF Next, Alone, vars
<1>9. [Next]_vars => [StartupNext]_startupVars
  BY Zenon DEF Next, Alone, vars
<1>10. [Next]_vars => [RecordsNext]_recordsVars
  BY Zenon DEF Next, Alone, vars
<1>11. [Next]_vars => [ChargerNext \/ BmsNext]_readersVars
  BY Zenon DEF Next, Alone, vars
<1> QED
  BY <1>0, <1>1, <1>2, <1>3, <1>4, <1>5, <1>6, <1>7, <1>8, <1>9, <1>10, <1>11, PTL
  DEF Spec, TxSpec, MeterSpec, AlertSpec, TrendSpec, LogSpec, ExtSpec, OutageSpec, ForecastSpec,
      StartupSpec, RecordsSpec, ReadersSpec

(* Every component keeps its types, whichever takes the steps; as in        *)
(* MeterTypes, the BMS must report states of charge of at most 100.         *)
THEOREM MonitorTypes == ASSUME Percents PROVE Spec => []TypeOK
<1>1. Spec => [](/\ TxTypeOK /\ MeterTypeOK /\ AlertTypeOK /\ TrendTypeOK /\ LogTypeOK /\ ExtTypeOK
                 /\ OutageTypeOK /\ ForecastTypeOK /\ StartupTypeOK /\ RecordsTypeOK /\ ReadersTypeOK)
  <2>1. MeterSpec => []MeterTypeOK
    BY MeterTypes
  <2> QED BY <2>1, MonitorImplementsParts, TxTypes, AlertTypes, TrendTypes, LogTypes, ExtTypes,
             OutageTypes, ForecastTypes, StartupTypes, RecordsTypes, ReadersTypes, PTL
<1>2. /\ part \in Parts
      /\ TxTypeOK /\ MeterTypeOK /\ AlertTypeOK /\ TrendTypeOK /\ LogTypeOK /\ ExtTypeOK
      /\ OutageTypeOK /\ ForecastTypeOK /\ StartupTypeOK /\ RecordsTypeOK /\ ReadersTypeOK
      => TypeOK
  BY DEF TypeOK, Parts
<1> QED BY <1>1, <1>2, PartIsOne, PTL

(* And its safety: the invariants of all components hold at once, and no    *)
(* warning is shown or taken back early; the energy as in NoDoubleCountHolds *)
(* for loads of at most 1.                                                  *)
THEOREM MonitorIsSafe ==
  ASSUME LightLoads
  PROVE  Spec => /\ [](/\ TxEventsAreRuns /\ OneSamplePerTx /\ NoDoubleCount /\ BooksAgree
                       /\ RingsMatchWindow /\ SolarAlternates /\ RepeatsNeedAnother
                       /\ OutagesAreRecorded /\ ForecastIsRecent /\ ConfigKept
                       /\ IdsNameTheirRows /\ WholeReadings)
                 /\ AlertsAreDebounced
<1>1. MeterSpec => []NoDoubleCount
  BY NoDoubleCountHolds
<1> QED BY <1>1, MonitorImplementsParts, TxEventsAreRunsHolds, OneSamplePerTxHolds, BooksAgreeHolds,
           RingsMatchWindowHolds, SolarAlternatesHolds, RepeatsNeedAnotherHolds,
           OutagesAreRecordedHolds, ForecastIsRecentHolds, ConfigKeptHolds, IdsNameTheirRowsHolds,
           WholeReadingsHold, AlertsAreDebouncedHolds, PTL
=============================================================================
