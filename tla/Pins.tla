-------------------------------- MODULE Pins --------------------------------
(***************************************************************************)
(* The pins: what init_cycfg_pins makes of them and to which peripheral    *)
(* each is switched later.  One pin serves one peripheral at a time.       *)
(***************************************************************************)

VARIABLES
    pins,      \* of each pin: the peripheral it is switched to, its drive mode
    splitters  \* the closed ones of the analog bus CapSense scans over

pinVars == <<pins, splitters>>

(* cycfg_pins.h.                                                           *)
WcoPins       == {"P0_0", "P0_1"}
Port0Pins     == {"P0_2", "P0_3"}
ImuPins       == {"P10_2", "P10_3"}
QspiPins      == {"P11_0", "P11_2", "P11_3", "P11_4", "P11_5", "P11_6", "P11_7"}
TxPin         == {"P1_0"}
HostWakePin   == {"P2_7"}
I2cPins       == {"P6_0", "P6_1"}
DebugPins     == {"P6_4", "P6_6", "P6_7"}
CapacitorPins == {"P7_1", "P7_2", "P7_7"}
ButtonPins    == {"P8_0", "P8_1", "P8_2"}
SliderPins    == {"P8_3", "P8_4", "P8_5", "P8_6", "P8_7"}

(* Those of sound.cpp, hw.cpp, cy8ckit_028_tft_config.h and the console.   *)
PdmPins   == {"P10_4", "P10_5"}
I2sOwn    == {"P5_2", "P5_3"}
SckPin    == {"P5_1"}
I2sPins   == SckPin \cup I2sOwn
UartPins  == {"P5_0", "P5_1"}
BoardPins == {"P10_0", "P13_6", "P13_7"}
PanelPins == {"D_0", "D_1", "D_2", "D_3", "D_4", "D_5", "D_6", "D_7", "NRD", "NWR", "DC", "RST"}

CsdPins == TxPin \cup CapacitorPins \cup ButtonPins \cup SliderPins
FramPins == QspiPins \ {"P11_0"}

AllPins ==
    WcoPins \cup Port0Pins \cup ImuPins \cup QspiPins \cup HostWakePin \cup I2cPins
    \cup DebugPins \cup CsdPins \cup PdmPins \cup I2sPins \cup UartPins \cup BoardPins
    \cup PanelPins

Users == {"none", "GPIO", "SWJ", "QSPI", "I2C", "UART", "PDM", "I2S", "ADC", "CSD", "PANEL"}
Drives == {"HIGHZ", "ANALOG", "STRONG", "STRONG_IN_OFF", "OD_DRIVESLOW", "OD_DRIVESLOW_IN_OFF",
           "PULLUP", "PULLDOWN"}

To(user, drive) == [to |-> user, drive |-> drive]

PinsAfterReset == [p \in AllPins |-> To("none", "HIGHZ")]
-----------------------------------------------------------------------------
(* cycfg_pins.c, in its order.  A pin cycfg_routing.h does not name is a   *)
(* GPIO until its peripheral's driver switches it.                         *)
WcoConfig  == [p \in WcoPins |-> To("GPIO", "ANALOG")]
Port0Config == [p \in Port0Pins |-> To("GPIO", "OD_DRIVESLOW")]
ImuConfig  == [p \in ImuPins |-> To("GPIO", "OD_DRIVESLOW_IN_OFF")]

QspiConfig ==
    [p \in QspiPins |->
        To("GPIO", IF p \in {"P11_0", "P11_2", "P11_7"} THEN "STRONG_IN_OFF" ELSE "STRONG")]

HostWakeConfig == [p \in HostWakePin |-> To("GPIO", "ANALOG")]
I2cConfig == [p \in I2cPins |-> To("GPIO", "OD_DRIVESLOW")]

DebugConfig ==
    [p \in DebugPins |->
        To("SWJ", CASE p = "P6_4" -> "STRONG_IN_OFF"
                    [] p = "P6_6" -> "PULLUP"
                    [] p = "P6_7" -> "PULLDOWN")]

(* Those of sound.cpp.                                                     *)
PdmConfig == [p \in PdmPins |-> To("PDM", IF p = "P10_4" THEN "STRONG_IN_OFF" ELSE "HIGHZ")]
I2sConfig == [p \in I2sPins |-> To("I2S", "STRONG_IN_OFF")]

(* init_cycfg_pins; it leaves the pins of CapSense to the middleware.      *)
CfgPinOf(p) ==
    CASE p \in WcoPins     -> WcoConfig[p]
      [] p \in Port0Pins   -> Port0Config[p]
      [] p \in ImuPins     -> ImuConfig[p]
      [] p \in QspiPins    -> QspiConfig[p]
      [] p \in HostWakePin -> HostWakeConfig[p]
      [] p \in I2cPins     -> I2cConfig[p]
      [] p \in DebugPins   -> DebugConfig[p]
      [] OTHER             -> pins[p]

CfgPins == pins' = [p \in AllPins |-> CfgPinOf(p)] /\ UNCHANGED splitters

(* init_cycfg_routing.                                                     *)
CfgRouting == splitters' = {2, 4} /\ UNCHANGED pins

Switched(ps, new) == [p \in AllPins |-> IF p \in ps THEN new ELSE pins[p]]

(* The peripheral has all of ps.                                           *)
Serve(user, ps) == \A p \in ps : pins[p].to = user
=============================================================================
