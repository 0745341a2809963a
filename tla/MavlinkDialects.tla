-------------------------- MODULE MavlinkDialects --------------------------
(***************************************************************************)
(* The messages of the other dialects, as in MavlinkCommon, and the tables *)
(* of checksum seeds, MAVLINK_MESSAGE_CRCS, that every dialect defines.    *)
(***************************************************************************)
EXTENDS MavlinkCommon

\* Dialect pixhawk
ATTITUDE_CONTROL == Message(200, 21, 254, <<
  float("roll", 0), float("pitch", 4), float("yaw", 8), float("thrust", 12),
  uint8_t("target", 16), uint8_t("roll_manual", 17),
  uint8_t("pitch_manual", 18), uint8_t("yaw_manual", 19),
  uint8_t("thrust_manual", 20)>>)

BRIEF_FEATURE == Message(195, 53, 88, <<
  float("x", 0), float("y", 4), float("z", 8), float("response", 12),
  uint16_t("size", 16), uint16_t("orientation", 18),
  uint8_t("orientation_assignment", 20),
  Array(uint8_t("descriptor", 21), 32)>>)

DATA_TRANSMISSION_HANDSHAKE == Message(193, 12, 23, <<
  uint32_t("size", 0), uint16_t("width", 4), uint16_t("height", 6),
  uint8_t("type", 8), uint8_t("packets", 9), uint8_t("payload", 10),
  uint8_t("jpg_quality", 11)>>)

ENCAPSULATED_DATA == Message(194, 255, 223, <<
  uint16_t("seqnr", 0), Array(uint8_t("data", 2), 253)>>)

IMAGE_AVAILABLE == Message(154, 92, 224, <<
  uint64_t("cam_id", 0), uint64_t("timestamp", 8),
  uint64_t("valid_until", 16), uint32_t("img_seq", 24),
  uint32_t("img_buf_index", 28), uint32_t("key", 32),
  uint32_t("exposure", 36), float("gain", 40), float("roll", 44),
  float("pitch", 48), float("yaw", 52), float("local_z", 56),
  float("lat", 60), float("lon", 64), float("alt", 68),
  float("ground_x", 72), float("ground_y", 76), float("ground_z", 80),
  uint16_t("width", 84), uint16_t("height", 86), uint16_t("depth", 88),
  uint8_t("cam_no", 90), uint8_t("channels", 91)>>)

IMAGE_TRIGGER_CONTROL == Message(153, 1, 95, <<
  uint8_t("enable", 0)>>)

IMAGE_TRIGGERED == Message(152, 52, 86, <<
  uint64_t("timestamp", 0), uint32_t("seq", 8), float("roll", 12),
  float("pitch", 16), float("yaw", 20), float("local_z", 24),
  float("lat", 28), float("lon", 32), float("alt", 36),
  float("ground_x", 40), float("ground_y", 44), float("ground_z", 48)>>)

MARKER == Message(171, 26, 249, <<
  float("x", 0), float("y", 4), float("z", 8), float("roll", 12),
  float("pitch", 16), float("yaw", 20), uint16_t("id", 24)>>)

PATTERN_DETECTED == Message(190, 106, 90, <<
  float("confidence", 0), uint8_t("type", 4), Array(char("file", 5), 100),
  uint8_t("detected", 105)>>)

POINT_OF_INTEREST == Message(191, 43, 95, <<
  float("x", 0), float("y", 4), float("z", 8), uint16_t("timeout", 12),
  uint8_t("type", 14), uint8_t("color", 15),
  uint8_t("coordinate_system", 16), Array(char("name", 17), 26)>>)

POINT_OF_INTEREST_CONNECTION == Message(192, 55, 36, <<
  float("xp1", 0), float("yp1", 4), float("zp1", 8), float("xp2", 12),
  float("yp2", 16), float("zp2", 20), uint16_t("timeout", 24),
  uint8_t("type", 26), uint8_t("color", 27),
  uint8_t("coordinate_system", 28), Array(char("name", 29), 26)>>)

POSITION_CONTROL_SETPOINT == Message(170, 18, 28, <<
  float("x", 0), float("y", 4), float("z", 8), float("yaw", 12),
  uint16_t("id", 16)>>)

RAW_AUX == Message(172, 16, 182, <<
  int32_t("baro", 0), uint16_t("adc1", 4), uint16_t("adc2", 6),
  uint16_t("adc3", 8), uint16_t("adc4", 10), uint16_t("vbat", 12),
  int16_t("temp", 14)>>)

SET_CAM_SHUTTER == Message(151, 11, 108, <<
  float("gain", 0), uint16_t("interval", 4), uint16_t("exposure", 6),
  uint8_t("cam_no", 8), uint8_t("cam_mode", 9), uint8_t("trigger_pin", 10)>>)

SET_POSITION_CONTROL_OFFSET == Message(160, 18, 22, <<
  float("x", 0), float("y", 4), float("z", 8), float("yaw", 12),
  uint8_t("target_system", 16), uint8_t("target_component", 17)>>)

WATCHDOG_COMMAND == Message(183, 6, 162, <<
  uint16_t("watchdog_id", 0), uint16_t("process_id", 2),
  uint8_t("target_system_id", 4), uint8_t("command_id", 5)>>)

WATCHDOG_HEARTBEAT == Message(180, 4, 153, <<
  uint16_t("watchdog_id", 0), uint16_t("process_count", 2)>>)

WATCHDOG_PROCESS_INFO == Message(181, 255, 16, <<
  int32_t("timeout", 0), uint16_t("watchdog_id", 4),
  uint16_t("process_id", 6), Array(char("name", 8), 100),
  Array(char("arguments", 108), 147)>>)

WATCHDOG_PROCESS_STATUS == Message(182, 12, 29, <<
  int32_t("pid", 0), uint16_t("watchdog_id", 4), uint16_t("process_id", 6),
  uint16_t("crashes", 8), uint8_t("state", 10), uint8_t("muted", 11)>>)

\* Dialect sensesoar
CMD_AIRSPEED_ACK == Message(194, 5, 243, <<
  float("spCmd", 0), uint8_t("ack", 4)>>)

CMD_AIRSPEED_CHNG == Message(192, 5, 209, <<
  float("spCmd", 0), uint8_t("target", 4)>>)

FILT_ROT_VEL == Message(184, 12, 79, <<
  Array(float("rotVel", 0), 3)>>)

LLC_OUT == Message(186, 12, 5, <<
  Array(int16_t("servoOut", 0), 4), Array(int16_t("MotorOut", 8), 2)>>)

OBS_AIR_TEMP == Message(183, 4, 248, <<
  float("airT", 0)>>)

OBS_AIR_VELOCITY == Message(178, 12, 32, <<
  float("magnitude", 0), float("aoa", 4), float("slip", 8)>>)

OBS_ATTITUDE == Message(174, 32, 146, <<
  Array(double("quat", 0), 4)>>)

OBS_BIAS == Message(180, 24, 159, <<
  Array(float("accBias", 0), 3), Array(float("gyroBias", 12), 3)>>)

OBS_POSITION == Message(170, 12, 15, <<
  int32_t("lon", 0), int32_t("lat", 4), int32_t("alt", 8)>>)

OBS_QFF == Message(182, 4, 24, <<
  float("qff", 0)>>)

OBS_VELOCITY == Message(172, 12, 108, <<
  Array(float("vel", 0), 3)>>)

OBS_WIND == Message(176, 12, 16, <<
  Array(float("wind", 0), 3)>>)

PM_ELEC == Message(188, 20, 170, <<
  float("PwCons", 0), float("BatStat", 4), Array(float("PwGen", 8), 3)>>)

SYS_Stat == Message(190, 4, 157, <<
  uint8_t("gps", 0), uint8_t("act", 1), uint8_t("mod", 2),
  uint8_t("commRssi", 3)>>)

\* Dialect slugs
AIR_DATA == Message(171, 10, 232, <<
  float("dynamicPressure", 0), float("staticPressure", 4),
  uint16_t("temperature", 8)>>)

CPU_LOAD == Message(170, 4, 75, <<
  uint16_t("batVolt", 0), uint8_t("sensLoad", 2), uint8_t("ctrlLoad", 3)>>)

CTRL_SRFC_PT == Message(181, 3, 104, <<
  uint16_t("bitfieldPt", 0), uint8_t("target", 2)>>)

DATA_LOG == Message(177, 24, 167, <<
  float("fl_1", 0), float("fl_2", 4), float("fl_3", 8), float("fl_4", 12),
  float("fl_5", 16), float("fl_6", 20)>>)

DIAGNOSTIC == Message(173, 18, 2, <<
  float("diagFl1", 0), float("diagFl2", 4), float("diagFl3", 8),
  int16_t("diagSh1", 12), int16_t("diagSh2", 14), int16_t("diagSh3", 16)>>)

GPS_DATE_TIME == Message(179, 7, 16, <<
  uint8_t("year", 0), uint8_t("month", 1), uint8_t("day", 2),
  uint8_t("hour", 3), uint8_t("min", 4), uint8_t("sec", 5),
  uint8_t("visSat", 6)>>)

MID_LVL_CMDS == Message(180, 13, 146, <<
  float("hCommand", 0), float("uCommand", 4), float("rCommand", 8),
  uint8_t("target", 12)>>)

SENSOR_BIAS == Message(172, 24, 168, <<
  float("axBias", 0), float("ayBias", 4), float("azBias", 8),
  float("gxBias", 12), float("gyBias", 16), float("gzBias", 20)>>)

SLUGS_ACTION == Message(183, 4, 65, <<
  uint16_t("actionVal", 0), uint8_t("target", 2), uint8_t("actionId", 3)>>)

SLUGS_NAVIGATION == Message(176, 30, 120, <<
  float("u_m", 0), float("phi_c", 4), float("theta_c", 8),
  float("psiDot_c", 12), float("ay_body", 16), float("totalDist", 20),
  float("dist2Go", 24), uint8_t("fromWP", 28), uint8_t("toWP", 29)>>)

\* Dialect ualberta
NAV_FILTER_BIAS == Message(220, 32, 34, <<
  uint64_t("usec", 0), float("accel_0", 8), float("accel_1", 12),
  float("accel_2", 16), float("gyro_0", 20), float("gyro_1", 24),
  float("gyro_2", 28)>>)

RADIO_CALIBRATION == Message(221, 42, 71, <<
  Array(uint16_t("aileron", 0), 3), Array(uint16_t("elevator", 6), 3),
  Array(uint16_t("rudder", 12), 3), Array(uint16_t("gyro", 18), 2),
  Array(uint16_t("pitch", 22), 5), Array(uint16_t("throttle", 32), 5)>>)

UALBERTA_SYS_STATUS == Message(222, 3, 15, <<
  uint8_t("mode", 0), uint8_t("nav_mode", 1), uint8_t("pilot", 2)>>)

\* Dialect minimal
MINIMAL_HEARTBEAT == Message(0, 9, 50, <<
  uint32_t("custom_mode", 0), uint8_t("type", 4), uint8_t("autopilot", 5),
  uint8_t("base_mode", 6), uint8_t("system_status", 7),
  uint8_t("mavlink_version", 8)>>)

\* Dialect test
TEST_TYPES == Message(0, 179, 103, <<
  uint64_t("u64", 0), int64_t("s64", 8), double("d", 16),
  Array(uint64_t("u64_array", 24), 3), Array(int64_t("s64_array", 48), 3),
  Array(double("d_array", 72), 3), uint32_t("u32", 96), int32_t("s32", 100),
  float("f", 104), Array(uint32_t("u32_array", 108), 3),
  Array(int32_t("s32_array", 120), 3), Array(float("f_array", 132), 3),
  uint16_t("u16", 144), int16_t("s16", 146),
  Array(uint16_t("u16_array", 148), 3), Array(int16_t("s16_array", 154), 3),
  char("c", 160), Array(char("s", 161), 10), uint8_t("u8", 171),
  int8_t("s8", 172), Array(uint8_t("u8_array", 173), 3),
  Array(int8_t("s8_array", 176), 3)>>)

-----------------------------------------------------------------------------

(* The tables of the dialects, as what they have besides the entries of     *)
(* common.  Minimal and test stand alone; matrixpilot has the tables of     *)
(* common.                                                                 *)
NONE == [i \in 1 .. 256 |-> 0]

Overlay(table, id, entries) ==
  [i \in 1 .. 256 |-> IF i \in id + 1 .. id + Len(entries)
                      THEN entries[i - id] ELSE table[i]]

PIXHAWK_CRCS ==
  Overlay(Overlay(Overlay(Overlay(Overlay(Overlay(COMMON_CRCS, 151, <<108,
  86, 95, 224>>), 160, <<22>>), 170, <<28, 249, 182>>), 180, <<153, 16, 29,
  162>>), 190, <<90, 95, 36, 23, 223, 88>>), 200, <<254>>)

SENSESOAR_CRCS ==
  Overlay(COMMON_CRCS, 170, <<15, 0, 108, 0, 146, 0, 16, 0, 32, 0, 159, 0,
  24, 248, 79, 0, 5, 0, 170, 0, 157, 0, 209, 0, 243>>)

(* Mutant of SLUGS_CRCS: the seeds of another version of the dialect.      *)
SLUGS_CRCS_OLD == Overlay(COMMON_CRCS, 170, <<75, 232, 168, 3>>)

SLUGS_CRCS ==
  Overlay(COMMON_CRCS, 170, <<75, 232, 168, 2, 0, 0, 120, 167, 0, 16, 146,
  104, 0, 65>>)

UALBERTA_CRCS ==
  Overlay(COMMON_CRCS, 220, <<34, 71, 15>>)

MINIMAL_CRCS ==
  Overlay(NONE, 0, <<50>>)

TEST_CRCS ==
  Overlay(NONE, 0, <<103>>)

PIXHAWK == COMMON \cup {
  ATTITUDE_CONTROL, BRIEF_FEATURE, DATA_TRANSMISSION_HANDSHAKE,
  ENCAPSULATED_DATA, IMAGE_AVAILABLE, IMAGE_TRIGGER_CONTROL,
  IMAGE_TRIGGERED, MARKER, PATTERN_DETECTED, POINT_OF_INTEREST,
  POINT_OF_INTEREST_CONNECTION, POSITION_CONTROL_SETPOINT, RAW_AUX,
  SET_CAM_SHUTTER, SET_POSITION_CONTROL_OFFSET, WATCHDOG_COMMAND,
  WATCHDOG_HEARTBEAT, WATCHDOG_PROCESS_INFO, WATCHDOG_PROCESS_STATUS}
SENSESOAR == COMMON \cup {
  CMD_AIRSPEED_ACK, CMD_AIRSPEED_CHNG, FILT_ROT_VEL, LLC_OUT, OBS_AIR_TEMP,
  OBS_AIR_VELOCITY, OBS_ATTITUDE, OBS_BIAS, OBS_POSITION, OBS_QFF,
  OBS_VELOCITY, OBS_WIND, PM_ELEC, SYS_Stat}
SLUGS == COMMON \cup {
  AIR_DATA, CPU_LOAD, CTRL_SRFC_PT, DATA_LOG, DIAGNOSTIC, GPS_DATE_TIME,
  MID_LVL_CMDS, SENSOR_BIAS, SLUGS_ACTION, SLUGS_NAVIGATION}
UALBERTA == COMMON \cup {NAV_FILTER_BIAS, RADIO_CALIBRATION, UALBERTA_SYS_STATUS}

=============================================================================
