--------------------------- MODULE MavlinkCommon ---------------------------
(***************************************************************************)
(* The messages of the common dialect, one definition per generated header *)
(* mavlink_msg_*.h: MAVLINK_MSG_ID_*, its _LEN, the crc_extra that its     *)
(* pack, pack_chan and send pass, and the fields in the order of the       *)
(* struct with the offset that every one of its functions uses.            *)
(***************************************************************************)
EXTENDS MavlinkWire

ATTITUDE == Message(30, 28, 39, <<
  uint32_t("time_boot_ms", 0), float("roll", 4), float("pitch", 8),
  float("yaw", 12), float("rollspeed", 16), float("pitchspeed", 20),
  float("yawspeed", 24)>>)

ATTITUDE_QUATERNION == Message(31, 32, 246, <<
  uint32_t("time_boot_ms", 0), float("q1", 4), float("q2", 8),
  float("q3", 12), float("q4", 16), float("rollspeed", 20),
  float("pitchspeed", 24), float("yawspeed", 28)>>)

AUTH_KEY == Message(7, 32, 119, <<
  Array(char("key", 0), 32)>>)

CHANGE_OPERATOR_CONTROL == Message(5, 28, 217, <<
  uint8_t("target_system", 0), uint8_t("control_request", 1),
  uint8_t("version", 2), Array(char("passkey", 3), 25)>>)

CHANGE_OPERATOR_CONTROL_ACK == Message(6, 3, 104, <<
  uint8_t("gcs_system_id", 0), uint8_t("control_request", 1),
  uint8_t("ack", 2)>>)

COMMAND_ACK == Message(77, 3, 143, <<
  uint16_t("command", 0), uint8_t("result", 2)>>)

COMMAND_LONG == Message(76, 33, 152, <<
  float("param1", 0), float("param2", 4), float("param3", 8),
  float("param4", 12), float("param5", 16), float("param6", 20),
  float("param7", 24), uint16_t("command", 28),
  uint8_t("target_system", 30), uint8_t("target_component", 31),
  uint8_t("confirmation", 32)>>)

DATA_STREAM == Message(67, 4, 21, <<
  uint16_t("message_rate", 0), uint8_t("stream_id", 2), uint8_t("on_off", 3)>>)

DEBUG == Message(254, 9, 46, <<
  uint32_t("time_boot_ms", 0), float("value", 4), uint8_t("ind", 8)>>)

DEBUG_VECT == Message(250, 30, 49, <<
  uint64_t("time_usec", 0), float("x", 8), float("y", 12), float("z", 16),
  Array(char("name", 20), 10)>>)

GLOBAL_POSITION_INT == Message(33, 28, 104, <<
  uint32_t("time_boot_ms", 0), int32_t("lat", 4), int32_t("lon", 8),
  int32_t("alt", 12), int32_t("relative_alt", 16), int16_t("vx", 20),
  int16_t("vy", 22), int16_t("vz", 24), uint16_t("hdg", 26)>>)

GLOBAL_POSITION_SETPOINT_INT == Message(52, 15, 141, <<
  int32_t("latitude", 0), int32_t("longitude", 4), int32_t("altitude", 8),
  int16_t("yaw", 12), uint8_t("coordinate_frame", 14)>>)

GLOBAL_VISION_POSITION_ESTIMATE == Message(101, 32, 102, <<
  uint64_t("usec", 0), float("x", 8), float("y", 12), float("z", 16),
  float("roll", 20), float("pitch", 24), float("yaw", 28)>>)

GPS_GLOBAL_ORIGIN == Message(49, 12, 39, <<
  int32_t("latitude", 0), int32_t("longitude", 4), int32_t("altitude", 8)>>)

GPS_RAW_INT == Message(24, 30, 24, <<
  uint64_t("time_usec", 0), int32_t("lat", 8), int32_t("lon", 12),
  int32_t("alt", 16), uint16_t("eph", 20), uint16_t("epv", 22),
  uint16_t("vel", 24), uint16_t("cog", 26), uint8_t("fix_type", 28),
  uint8_t("satellites_visible", 29)>>)

GPS_STATUS == Message(25, 101, 23, <<
  uint8_t("satellites_visible", 0), Array(uint8_t("satellite_prn", 1), 20),
  Array(uint8_t("satellite_used", 21), 20),
  Array(uint8_t("satellite_elevation", 41), 20),
  Array(uint8_t("satellite_azimuth", 61), 20),
  Array(uint8_t("satellite_snr", 81), 20)>>)

HEARTBEAT == Message(0, 9, 50, <<
  uint32_t("custom_mode", 0), uint8_t("type", 4), uint8_t("autopilot", 5),
  uint8_t("base_mode", 6), uint8_t("system_status", 7),
  uint8_t("mavlink_version", 8)>>)

HIL_CONTROLS == Message(91, 42, 63, <<
  uint64_t("time_usec", 0), float("roll_ailerons", 8),
  float("pitch_elevator", 12), float("yaw_rudder", 16),
  float("throttle", 20), float("aux1", 24), float("aux2", 28),
  float("aux3", 32), float("aux4", 36), uint8_t("mode", 40),
  uint8_t("nav_mode", 41)>>)

HIL_RC_INPUTS_RAW == Message(92, 33, 54, <<
  uint64_t("time_usec", 0), uint16_t("chan1_raw", 8),
  uint16_t("chan2_raw", 10), uint16_t("chan3_raw", 12),
  uint16_t("chan4_raw", 14), uint16_t("chan5_raw", 16),
  uint16_t("chan6_raw", 18), uint16_t("chan7_raw", 20),
  uint16_t("chan8_raw", 22), uint16_t("chan9_raw", 24),
  uint16_t("chan10_raw", 26), uint16_t("chan11_raw", 28),
  uint16_t("chan12_raw", 30), uint8_t("rssi", 32)>>)

HIL_STATE == Message(90, 56, 183, <<
  uint64_t("time_usec", 0), float("roll", 8), float("pitch", 12),
  float("yaw", 16), float("rollspeed", 20), float("pitchspeed", 24),
  float("yawspeed", 28), int32_t("lat", 32), int32_t("lon", 36),
  int32_t("alt", 40), int16_t("vx", 44), int16_t("vy", 46),
  int16_t("vz", 48), int16_t("xacc", 50), int16_t("yacc", 52),
  int16_t("zacc", 54)>>)

LOCAL_POSITION_NED == Message(32, 28, 185, <<
  uint32_t("time_boot_ms", 0), float("x", 4), float("y", 8), float("z", 12),
  float("vx", 16), float("vy", 20), float("vz", 24)>>)

LOCAL_POSITION_NED_SYSTEM_GLOBAL_OFFSET == Message(89, 28, 231, <<
  uint32_t("time_boot_ms", 0), float("x", 4), float("y", 8), float("z", 12),
  float("roll", 16), float("pitch", 20), float("yaw", 24)>>)

LOCAL_POSITION_SETPOINT == Message(51, 17, 223, <<
  float("x", 0), float("y", 4), float("z", 8), float("yaw", 12),
  uint8_t("coordinate_frame", 16)>>)

MANUAL_CONTROL == Message(69, 21, 52, <<
  float("roll", 0), float("pitch", 4), float("yaw", 8), float("thrust", 12),
  uint8_t("target", 16), uint8_t("roll_manual", 17),
  uint8_t("pitch_manual", 18), uint8_t("yaw_manual", 19),
  uint8_t("thrust_manual", 20)>>)

MEMORY_VECT == Message(249, 36, 204, <<
  uint16_t("address", 0), uint8_t("ver", 2), uint8_t("type", 3),
  Array(int8_t("value", 4), 32)>>)

MISSION_ACK == Message(47, 3, 153, <<
  uint8_t("target_system", 0), uint8_t("target_component", 1),
  uint8_t("type", 2)>>)

MISSION_CLEAR_ALL == Message(45, 2, 232, <<
  uint8_t("target_system", 0), uint8_t("target_component", 1)>>)

MISSION_COUNT == Message(44, 4, 221, <<
  uint16_t("count", 0), uint8_t("target_system", 2),
  uint8_t("target_component", 3)>>)

MISSION_CURRENT == Message(42, 2, 28, <<
  uint16_t("seq", 0)>>)

MISSION_ITEM == Message(39, 37, 254, <<
  float("param1", 0), float("param2", 4), float("param3", 8),
  float("param4", 12), float("x", 16), float("y", 20), float("z", 24),
  uint16_t("seq", 28), uint16_t("command", 30),
  uint8_t("target_system", 32), uint8_t("target_component", 33),
  uint8_t("frame", 34), uint8_t("current", 35), uint8_t("autocontinue", 36)>>)

MISSION_ITEM_REACHED == Message(46, 2, 11, <<
  uint16_t("seq", 0)>>)

MISSION_REQUEST == Message(40, 4, 230, <<
  uint16_t("seq", 0), uint8_t("target_system", 2),
  uint8_t("target_component", 3)>>)

MISSION_REQUEST_LIST == Message(43, 2, 132, <<
  uint8_t("target_system", 0), uint8_t("target_component", 1)>>)

MISSION_REQUEST_PARTIAL_LIST == Message(37, 6, 212, <<
  int16_t("start_index", 0), int16_t("end_index", 2),
  uint8_t("target_system", 4), uint8_t("target_component", 5)>>)

MISSION_SET_CURRENT == Message(41, 4, 28, <<
  uint16_t("seq", 0), uint8_t("target_system", 2),
  uint8_t("target_component", 3)>>)

MISSION_WRITE_PARTIAL_LIST == Message(38, 6, 9, <<
  int16_t("start_index", 0), int16_t("end_index", 2),
  uint8_t("target_system", 4), uint8_t("target_component", 5)>>)

NAMED_VALUE_FLOAT == Message(251, 18, 170, <<
  uint32_t("time_boot_ms", 0), float("value", 4), Array(char("name", 8), 10)>>)

NAMED_VALUE_INT == Message(252, 18, 44, <<
  uint32_t("time_boot_ms", 0), int32_t("value", 4),
  Array(char("name", 8), 10)>>)

NAV_CONTROLLER_OUTPUT == Message(62, 26, 183, <<
  float("nav_roll", 0), float("nav_pitch", 4), float("alt_error", 8),
  float("aspd_error", 12), float("xtrack_error", 16),
  int16_t("nav_bearing", 20), int16_t("target_bearing", 22),
  uint16_t("wp_dist", 24)>>)

OPTICAL_FLOW == Message(100, 26, 175, <<
  uint64_t("time_usec", 0), float("flow_comp_m_x", 8),
  float("flow_comp_m_y", 12), float("ground_distance", 16),
  int16_t("flow_x", 20), int16_t("flow_y", 22), uint8_t("sensor_id", 24),
  uint8_t("quality", 25)>>)

PARAM_REQUEST_LIST == Message(21, 2, 159, <<
  uint8_t("target_system", 0), uint8_t("target_component", 1)>>)

PARAM_REQUEST_READ == Message(20, 20, 214, <<
  int16_t("param_index", 0), uint8_t("target_system", 2),
  uint8_t("target_component", 3), Array(char("param_id", 4), 16)>>)

PARAM_SET == Message(23, 23, 168, <<
  float("param_value", 0), uint8_t("target_system", 4),
  uint8_t("target_component", 5), Array(char("param_id", 6), 16),
  uint8_t("param_type", 22)>>)

PARAM_VALUE == Message(22, 25, 220, <<
  float("param_value", 0), uint16_t("param_count", 4),
  uint16_t("param_index", 6), Array(char("param_id", 8), 16),
  uint8_t("param_type", 24)>>)

PING == Message(4, 14, 237, <<
  uint64_t("time_usec", 0), uint32_t("seq", 8),
  uint8_t("target_system", 12), uint8_t("target_component", 13)>>)

RAW_IMU == Message(27, 26, 144, <<
  uint64_t("time_usec", 0), int16_t("xacc", 8), int16_t("yacc", 10),
  int16_t("zacc", 12), int16_t("xgyro", 14), int16_t("ygyro", 16),
  int16_t("zgyro", 18), int16_t("xmag", 20), int16_t("ymag", 22),
  int16_t("zmag", 24)>>)

RAW_PRESSURE == Message(28, 16, 67, <<
  uint64_t("time_usec", 0), int16_t("press_abs", 8),
  int16_t("press_diff1", 10), int16_t("press_diff2", 12),
  int16_t("temperature", 14)>>)

RC_CHANNELS_OVERRIDE == Message(70, 18, 124, <<
  uint16_t("chan1_raw", 0), uint16_t("chan2_raw", 2),
  uint16_t("chan3_raw", 4), uint16_t("chan4_raw", 6),
  uint16_t("chan5_raw", 8), uint16_t("chan6_raw", 10),
  uint16_t("chan7_raw", 12), uint16_t("chan8_raw", 14),
  uint8_t("target_system", 16), uint8_t("target_component", 17)>>)

RC_CHANNELS_RAW == Message(35, 22, 244, <<
  uint32_t("time_boot_ms", 0), uint16_t("chan1_raw", 4),
  uint16_t("chan2_raw", 6), uint16_t("chan3_raw", 8),
  uint16_t("chan4_raw", 10), uint16_t("chan5_raw", 12),
  uint16_t("chan6_raw", 14), uint16_t("chan7_raw", 16),
  uint16_t("chan8_raw", 18), uint8_t("port", 20), uint8_t("rssi", 21)>>)

RC_CHANNELS_SCALED == Message(34, 22, 237, <<
  uint32_t("time_boot_ms", 0), int16_t("chan1_scaled", 4),
  int16_t("chan2_scaled", 6), int16_t("chan3_scaled", 8),
  int16_t("chan4_scaled", 10), int16_t("chan5_scaled", 12),
  int16_t("chan6_scaled", 14), int16_t("chan7_scaled", 16),
  int16_t("chan8_scaled", 18), uint8_t("port", 20), uint8_t("rssi", 21)>>)

REQUEST_DATA_STREAM == Message(66, 6, 148, <<
  uint16_t("req_message_rate", 0), uint8_t("target_system", 2),
  uint8_t("target_component", 3), uint8_t("req_stream_id", 4),
  uint8_t("start_stop", 5)>>)

ROLL_PITCH_YAW_SPEED_THRUST_SETPOINT == Message(59, 20, 238, <<
  uint32_t("time_boot_ms", 0), float("roll_speed", 4),
  float("pitch_speed", 8), float("yaw_speed", 12), float("thrust", 16)>>)

ROLL_PITCH_YAW_THRUST_SETPOINT == Message(58, 20, 239, <<
  uint32_t("time_boot_ms", 0), float("roll", 4), float("pitch", 8),
  float("yaw", 12), float("thrust", 16)>>)

SAFETY_ALLOWED_AREA == Message(55, 25, 3, <<
  float("p1x", 0), float("p1y", 4), float("p1z", 8), float("p2x", 12),
  float("p2y", 16), float("p2z", 20), uint8_t("frame", 24)>>)

SAFETY_SET_ALLOWED_AREA == Message(54, 27, 15, <<
  float("p1x", 0), float("p1y", 4), float("p1z", 8), float("p2x", 12),
  float("p2y", 16), float("p2z", 20), uint8_t("target_system", 24),
  uint8_t("target_component", 25), uint8_t("frame", 26)>>)

SCALED_IMU == Message(26, 22, 170, <<
  uint32_t("time_boot_ms", 0), int16_t("xacc", 4), int16_t("yacc", 6),
  int16_t("zacc", 8), int16_t("xgyro", 10), int16_t("ygyro", 12),
  int16_t("zgyro", 14), int16_t("xmag", 16), int16_t("ymag", 18),
  int16_t("zmag", 20)>>)

SCALED_PRESSURE == Message(29, 14, 115, <<
  uint32_t("time_boot_ms", 0), float("press_abs", 4),
  float("press_diff", 8), int16_t("temperature", 12)>>)

SERVO_OUTPUT_RAW == Message(36, 21, 222, <<
  uint32_t("time_usec", 0), uint16_t("servo1_raw", 4),
  uint16_t("servo2_raw", 6), uint16_t("servo3_raw", 8),
  uint16_t("servo4_raw", 10), uint16_t("servo5_raw", 12),
  uint16_t("servo6_raw", 14), uint16_t("servo7_raw", 16),
  uint16_t("servo8_raw", 18), uint8_t("port", 20)>>)

SET_GLOBAL_POSITION_SETPOINT_INT == Message(53, 15, 33, <<
  int32_t("latitude", 0), int32_t("longitude", 4), int32_t("altitude", 8),
  int16_t("yaw", 12), uint8_t("coordinate_frame", 14)>>)

SET_GPS_GLOBAL_ORIGIN == Message(48, 13, 41, <<
  int32_t("latitude", 0), int32_t("longitude", 4), int32_t("altitude", 8),
  uint8_t("target_system", 12)>>)

SET_LOCAL_POSITION_SETPOINT == Message(50, 19, 214, <<
  float("x", 0), float("y", 4), float("z", 8), float("yaw", 12),
  uint8_t("target_system", 16), uint8_t("target_component", 17),
  uint8_t("coordinate_frame", 18)>>)

SET_MODE == Message(11, 6, 89, <<
  uint32_t("custom_mode", 0), uint8_t("target_system", 4),
  uint8_t("base_mode", 5)>>)

SET_QUAD_MOTORS_SETPOINT == Message(60, 9, 30, <<
  uint16_t("motor_front_nw", 0), uint16_t("motor_right_ne", 2),
  uint16_t("motor_back_se", 4), uint16_t("motor_left_sw", 6),
  uint8_t("target_system", 8)>>)

SET_QUAD_SWARM_ROLL_PITCH_YAW_THRUST == Message(61, 54, 200, <<
  Array(int16_t("roll", 0), 6), Array(int16_t("pitch", 12), 6),
  Array(int16_t("yaw", 24), 6), Array(uint16_t("thrust", 36), 6),
  Array(uint8_t("target_systems", 48), 6)>>)

SET_ROLL_PITCH_YAW_SPEED_THRUST == Message(57, 18, 24, <<
  float("roll_speed", 0), float("pitch_speed", 4), float("yaw_speed", 8),
  float("thrust", 12), uint8_t("target_system", 16),
  uint8_t("target_component", 17)>>)

SET_ROLL_PITCH_YAW_THRUST == Message(56, 18, 100, <<
  float("roll", 0), float("pitch", 4), float("yaw", 8), float("thrust", 12),
  uint8_t("target_system", 16), uint8_t("target_component", 17)>>)

STATE_CORRECTION == Message(64, 36, 130, <<
  float("xErr", 0), float("yErr", 4), float("zErr", 8),
  float("rollErr", 12), float("pitchErr", 16), float("yawErr", 20),
  float("vxErr", 24), float("vyErr", 28), float("vzErr", 32)>>)

STATUSTEXT == Message(253, 51, 83, <<
  uint8_t("severity", 0), Array(char("text", 1), 50)>>)

SYS_STATUS == Message(1, 31, 124, <<
  uint32_t("onboard_control_sensors_present", 0),
  uint32_t("onboard_control_sensors_enabled", 4),
  uint32_t("onboard_control_sensors_health", 8), uint16_t("load", 12),
  uint16_t("voltage_battery", 14), int16_t("current_battery", 16),
  uint16_t("drop_rate_comm", 18), uint16_t("errors_comm", 20),
  uint16_t("errors_count1", 22), uint16_t("errors_count2", 24),
  uint16_t("errors_count3", 26), uint16_t("errors_count4", 28),
  int8_t("battery_remaining", 30)>>)

SYSTEM_TIME == Message(2, 12, 137, <<
  uint64_t("time_unix_usec", 0), uint32_t("time_boot_ms", 8)>>)

VFR_HUD == Message(74, 20, 20, <<
  float("airspeed", 0), float("groundspeed", 4), float("alt", 8),
  float("climb", 12), int16_t("heading", 16), uint16_t("throttle", 18)>>)

VICON_POSITION_ESTIMATE == Message(104, 32, 56, <<
  uint64_t("usec", 0), float("x", 8), float("y", 12), float("z", 16),
  float("roll", 20), float("pitch", 24), float("yaw", 28)>>)

VISION_POSITION_ESTIMATE == Message(102, 32, 158, <<
  uint64_t("usec", 0), float("x", 8), float("y", 12), float("z", 16),
  float("roll", 20), float("pitch", 24), float("yaw", 28)>>)

VISION_SPEED_ESTIMATE == Message(103, 20, 208, <<
  uint64_t("usec", 0), float("x", 8), float("y", 12), float("z", 16)>>)

-----------------------------------------------------------------------------

(* The checksum seeds by message identifier, 0 to 255.                     *)
COMMON_CRCS == <<
  50, 124, 137, 0, 237, 217, 104, 119, 0, 0, 0, 89, 0, 0, 0, 0, 0, 0, 0, 0,
  214, 159, 220, 168, 24, 23, 170, 144, 67, 115, 39, 246, 185, 104, 237,
  244, 222, 212, 9, 254, 230, 28, 28, 132, 221, 232, 11, 153, 41, 39, 214,
  223, 141, 33, 15, 3, 100, 24, 239, 238, 30, 200, 183, 0, 130, 0, 148, 21,
  0, 52, 124, 0, 0, 0, 20, 0, 152, 143, 0, 0, 0, 0, 0, 0, 0, 0, 0, 0, 0,
  231, 183, 63, 54, 0, 0, 0, 0, 0, 0, 0, 175, 102, 158, 208, 56, 0, 0, 0, 0,
  0, 0, 0, 0, 0, 0, 0, 0, 0, 0, 0, 0, 0, 0, 0, 0, 0, 0, 0, 0, 0, 0, 0, 0, 0,
  0, 0, 0, 0, 0, 0, 0, 0, 0, 0, 0, 0, 0, 0, 0, 0, 0, 0, 0, 0, 0, 0, 0, 0, 0,
  0, 0, 0, 0, 0, 0, 0, 0, 0, 0, 0, 0, 0, 0, 0, 0, 0, 0, 0, 0, 0, 0, 0, 0, 0,
  0, 0, 0, 0, 0, 0, 0, 0, 0, 0, 0, 0, 0, 0, 0, 0, 0, 0, 0, 0, 0, 0, 0, 0, 0,
  0, 0, 0, 0, 0, 0, 0, 0, 0, 0, 0, 0, 0, 0, 0, 0, 0, 0, 0, 0, 0, 0, 0, 0, 0,
  0, 0, 0, 0, 0, 0, 0, 0, 0, 0, 0, 0, 0, 0, 0, 204, 49, 170, 44, 83, 46, 0>>

COMMON == {
  ATTITUDE, ATTITUDE_QUATERNION, AUTH_KEY, CHANGE_OPERATOR_CONTROL,
  CHANGE_OPERATOR_CONTROL_ACK, COMMAND_ACK, COMMAND_LONG, DATA_STREAM,
  DEBUG, DEBUG_VECT, GLOBAL_POSITION_INT, GLOBAL_POSITION_SETPOINT_INT,
  GLOBAL_VISION_POSITION_ESTIMATE, GPS_GLOBAL_ORIGIN, GPS_RAW_INT,
  GPS_STATUS, HEARTBEAT, HIL_CONTROLS, HIL_RC_INPUTS_RAW, HIL_STATE,
  LOCAL_POSITION_NED, LOCAL_POSITION_NED_SYSTEM_GLOBAL_OFFSET,
  LOCAL_POSITION_SETPOINT, MANUAL_CONTROL, MEMORY_VECT, MISSION_ACK,
  MISSION_CLEAR_ALL, MISSION_COUNT, MISSION_CURRENT, MISSION_ITEM,
  MISSION_ITEM_REACHED, MISSION_REQUEST, MISSION_REQUEST_LIST,
  MISSION_REQUEST_PARTIAL_LIST, MISSION_SET_CURRENT,
  MISSION_WRITE_PARTIAL_LIST, NAMED_VALUE_FLOAT, NAMED_VALUE_INT,
  NAV_CONTROLLER_OUTPUT, OPTICAL_FLOW, PARAM_REQUEST_LIST,
  PARAM_REQUEST_READ, PARAM_SET, PARAM_VALUE, PING, RAW_IMU, RAW_PRESSURE,
  RC_CHANNELS_OVERRIDE, RC_CHANNELS_RAW, RC_CHANNELS_SCALED,
  REQUEST_DATA_STREAM, ROLL_PITCH_YAW_SPEED_THRUST_SETPOINT,
  ROLL_PITCH_YAW_THRUST_SETPOINT, SAFETY_ALLOWED_AREA,
  SAFETY_SET_ALLOWED_AREA, SCALED_IMU, SCALED_PRESSURE, SERVO_OUTPUT_RAW,
  SET_GLOBAL_POSITION_SETPOINT_INT, SET_GPS_GLOBAL_ORIGIN,
  SET_LOCAL_POSITION_SETPOINT, SET_MODE, SET_QUAD_MOTORS_SETPOINT,
  SET_QUAD_SWARM_ROLL_PITCH_YAW_THRUST, SET_ROLL_PITCH_YAW_SPEED_THRUST,
  SET_ROLL_PITCH_YAW_THRUST, STATE_CORRECTION, STATUSTEXT, SYS_STATUS,
  SYSTEM_TIME, VFR_HUD, VICON_POSITION_ESTIMATE, VISION_POSITION_ESTIMATE,
  VISION_SPEED_ESTIMATE}

=============================================================================
